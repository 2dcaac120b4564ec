------------------------ MODULE ChunkedResponseProofs ------------------------
(***************************************************************************)
(* Proofs about ChunkedResponse, for every value of its constants.         *)
(***************************************************************************)
EXTENDS ChunkedResponse, SequenceTheorems, TLAPS

-----------------------------------------------------------------------------
(* The tokens *)

\* What the server appends to the connection are sequences of tokens
\* (write_chunk of chunk_server_ex.py and its last-chunk).
LEMMA TokenTypes ==
  ASSUME NEW i \in Nat, NEW n \in Nat
  PROVE  /\ \A k \in HeaderKinds : HeaderTok(k) \in Token
         /\ DataTok(i, n) \in Token
         /\ LastTok(n) \in Token
         /\ ChunkToks(i, n) \in Seq(Token)
<1>1. (\A k \in HeaderKinds : HeaderTok(k) \in Token) /\ LastTok(n) \in Token
  BY DEF HeaderKinds, HeaderTok, LastTok, Token, Kinds
<1>2. \A j \in Nat : DataTok(i, j) \in Token
  BY DEF DataTok, Token, Kinds
<1>3. ChunkToks(i, n) \in Seq(Token)
  <2>1. \A j \in 1 .. n + 1 : ChunkToks(i, n)[j] \in Token
    BY <1>2 DEF ChunkToks, Token, Kinds
  <2>2. ChunkToks(i, n) \in [1 .. n + 1 -> Token]
    BY <2>1 DEF ChunkToks
  <2> QED BY <2>2, SeqDef
<1> QED BY <1>1, <1>2, <1>3

\* The empty sequences the variables start from.
LEMMA EmptySeqs ==
  /\ <<>> \in Seq(Token) /\ <<>> \in Seq(Seq(Token)) /\ <<>> \in Seq(Nat \ {0})
  /\ Len(<<>>) = 0
BY EmptySeq

-----------------------------------------------------------------------------
(* Type correctness *)

\* The first token of a buffer that is not empty is a token of the stream.
LEMMA Next1Type ==
  ASSUME TypeOK, ~BufferEmpty
  PROVE  /\ used + 1 \in 1 .. Len(stream) /\ used + 1 <= rcvd
         /\ Next1 \in Token
BY ElementOfSeq DEF TypeOK, BufferEmpty, Next1

\* A part of the connection is a sequence of tokens.
LEMMA SubStreamType ==
  ASSUME TypeOK, NEW a \in Nat, NEW b \in Nat, b <= Len(stream)
  PROVE  /\ SubSeq(stream, a + 1, b) \in Seq(Token)
         /\ Len(SubSeq(stream, a + 1, b)) = IF a + 1 <= b THEN b - a ELSE 0
BY SubSeqProperties DEF TypeOK

\* The piece on_chunk_body_cb_ is given is in the buffer and in the chunk.
LEMMA PieceType ==
  ASSUME TypeOK
  PROVE  Piece \in Nat /\ Piece <= rem /\ used + Piece <= rcvd
BY DEF TypeOK, Piece

\* The values of the variables, in every step.
LEMMA TypeStep ==
  ASSUME TypeOK, [Next]_vars
  PROVE  TypeOK'
<1> USE DEF TypeOK, clientVars, srvVars, parseVars, userVars
<1>1. CASE SendHeader
  <2>1. PICK k \in HeaderKinds : stream' = Append(stream, HeaderTok(k))
    BY <1>1 DEF SendHeader
  <2>2. HeaderTok(k) \in Token
    BY DEF HeaderKinds, HeaderTok, Token, Kinds
  <2>3. stream' \in Seq(Token) /\ Len(stream') = Len(stream) + 1
    BY <2>1, <2>2, AppendProperties
  <2>4. srv' \in {"chunked", "length", "finished"}
    BY <1>1 DEF SendHeader, HeaderKinds, ServerAfter
  <2>5. UNCHANGED <<sizes, clientVars>>
    BY <1>1 DEF SendHeader
  <2> QED BY <2>3, <2>4, <2>5
<1>2. CASE WriteChunk
  <2>1. PICK n \in 1 .. MaxSize : /\ sizes' = Append(sizes, n)
                                  /\ stream' = stream \o ChunkToks(Len(sizes) + 1, n)
    BY <1>2 DEF WriteChunk
  <2>2. n \in Nat \ {0} /\ Len(sizes) + 1 \in Nat
    BY BoundsAssumption, LenProperties
  <2>3. ChunkToks(Len(sizes) + 1, n) \in Seq(Token)
    BY <2>2, TokenTypes
  <2>4. stream' \in Seq(Token) /\ Len(stream') >= Len(stream)
    BY <2>1, <2>3, ConcatProperties
  <2>5. sizes' \in Seq(Nat \ {0})
    BY <2>1, <2>2, AppendProperties
  <2> QED BY <1>2, <2>4, <2>5 DEF WriteChunk
<1>3. CASE WriteLast
  <2>1. PICK t \in {0, 1} : stream' = Append(stream, LastTok(t))
    BY <1>3 DEF WriteLast
  <2>2. LastTok(t) \in Token
    BY DEF LastTok, Token, Kinds
  <2>3. stream' \in Seq(Token) /\ Len(stream') = Len(stream) + 1
    BY <2>1, <2>2, AppendProperties
  <2> QED BY <1>3, <2>3 DEF WriteLast
<1>4. CASE WriteLengthBody
  <2>1. DataTok(0, 1) \in Token
    BY DEF DataTok, Token, Kinds
  <2>2. stream' \in Seq(Token) /\ Len(stream') = Len(stream) + 1
    BY <1>4, <2>1, AppendProperties DEF WriteLengthBody
  <2> QED BY <1>4, <2>2 DEF WriteLengthBody
<1>5. CASE CloseConnection
  <2>1. PICK k \in rcvd .. Len(stream) : stream' = SubSeq(stream, 1, k)
    BY <1>5 DEF CloseConnection
  <2>2. stream' \in Seq(Token) /\ Len(stream') = k
    BY <2>1, SubStreamType, LenProperties
  <2> QED BY <1>5, <2>2 DEF CloseConnection
<1>6. CASE ChunkResponse
  <2>1. UNCHANGED <<srvVars, rcvd, read_header, pc, resp_fields, loops, filled, base>>
    BY <1>6 DEF ChunkResponse
  <2>2. /\ opens' \in Nat /\ used' = rcvd /\ pst' = "start" /\ rem' = 0
        /\ limit' = BodyLimit /\ fields' = {} /\ chunk_body' \in Seq(Token)
        /\ ec' = "ok" /\ finished' = FALSE /\ got' \in Seq(Seq(Token))
    BY <1>6, EmptySeqs DEF ChunkResponse
  <2>3. used' \in 0 .. rcvd' /\ limit' \in 0 .. BodyLimit
    BY <2>1, <2>2, BoundsAssumption
  <2> QED BY <2>1, <2>2, <2>3
<1>7. CASE Begin
  <2>1. UNCHANGED <<srvVars, rcvd, parseVars, ec, read_header, resp_fields, opens>>
    BY <1>7 DEF Begin
  <2>2. /\ loops' \in Nat /\ finished' = FALSE /\ got' \in Seq(Seq(Token))
        /\ base' \in Nat /\ pc' = "test"
    BY <1>7, EmptySeqs DEF Begin
  <2> QED BY <2>1, <2>2
<1>8. CASE Break \/ LoopEnd \/ FillWhenDone \/ Fill \/ HeaderAlreadyRead \/ ParseGarbage
           \/ HeaderReadFails
  <2>1. UNCHANGED <<srvVars, rcvd, parseVars, ec, resp_fields, userVars>>
    BY <1>8 DEF Break, LoopEnd, FillWhenDone, Fill, HeaderAlreadyRead, ParseGarbage,
                HeaderReadFails
  <2>2. /\ finished' \in BOOLEAN /\ read_header' \in BOOLEAN
        /\ pc' \in {"idle", "test", "incr", "header", "read", "terminated"}
    BY <1>8 DEF Break, LoopEnd, FillWhenDone, Fill, HeaderAlreadyRead, ParseGarbage,
                HeaderReadFails, BufferEmpty
  <2> QED BY <2>1, <2>2
<1>9. CASE Deref
  BY <1>9, AppendProperties DEF Deref
<1>10. CASE Receive
  BY <1>10 DEF Receive
<1>11. CASE ReadDone \/ BodyReadFails \/ ParseUnexpectedBody \/ ParseOverLimit
  BY <1>11 DEF ReadDone, BodyReadFails, ParseUnexpectedBody, ParseOverLimit, Return
<1>12. CASE ParseHeader
  <2>1. used + 1 <= rcvd
    BY <1>12, Next1Type DEF ParseHeader
  <2>2. pst' \in {"chunk_header", "body", "complete"}
    BY <1>12 DEF ParseHeader, HeaderKinds, ParserAfter
  <2>3. /\ used' = used + 1 /\ fields' = {"head"} /\ pc' = "read"
        /\ UNCHANGED <<srvVars, rcvd, rem, limit, chunk_body, filled, ec, read_header,
                       finished, resp_fields, userVars>>
    BY <1>12 DEF ParseHeader
  <2> QED BY <2>1, <2>2, <2>3
<1>13. CASE ParseChunkHeader
  <2>1. used + 1 <= rcvd /\ Next1.val \in Nat
    BY <1>13, Next1Type DEF ParseChunkHeader, Token
  <2>2. UNCHANGED <<srvVars, rcvd, fields, filled, ec, read_header, finished, pc,
                    resp_fields, userVars>>
    BY <1>13 DEF ParseChunkHeader
  <2>3. chunk_body' \in Seq(Token)
    BY <1>13, EmptySeqs DEF ParseChunkHeader, OnChunkHeader
  <2>4. /\ used' = used + 1 /\ pst' = "chunk_body" /\ rem' = Next1.val
        /\ limit' \in 0 .. BodyLimit
    <3>1. /\ used' = used + 1 /\ pst' = "chunk_body" /\ rem' = Next1.val
          /\ limit' = limit - Next1.val /\ Next1.val <= limit
      BY <1>13 DEF ParseChunkHeader
    <3> QED BY <3>1, <2>1, BoundsAssumption
  <2> QED BY <2>1, <2>2, <2>3, <2>4
<1>14. CASE ParseLast
  <2>1. used + 1 <= rcvd
    BY <1>14, Next1Type DEF ParseLast
  <2>2. fields' \subseteq {"head", "trailer"}
    BY <1>14 DEF ParseLast
  <2> QED BY <1>14, <2>1, <2>2, EmptySeqs DEF ParseLast, OnChunkHeader
<1>15. CASE ParseChunkPart \/ ParseChunkEnd
  <2>1. Piece \in Nat /\ Piece <= rem /\ used + Piece <= rcvd
    BY PieceType
  <2>2. SubSeq(stream, used + 1, used + Piece) \in Seq(Token)
    BY <2>1, SubStreamType
  <2>3. chunk_body \o SubSeq(stream, used + 1, used + Piece) \in Seq(Token)
    BY <2>2, ConcatProperties
  <2>4. CASE ParseChunkPart
    BY <2>1, <2>3, <2>4 DEF ParseChunkPart
  <2>5. CASE ParseChunkEnd
    BY <2>1, <2>3, <2>5 DEF ParseChunkEnd, Return
  <2> QED BY <1>15, <2>4, <2>5
<1>16. CASE UNCHANGED vars
  BY <1>16 DEF vars
<1> QED
  BY <1>1, <1>2, <1>3, <1>4, <1>5, <1>6, <1>7, <1>8, <1>9, <1>10, <1>11, <1>12,
     <1>13, <1>14, <1>15, <1>16
  DEF Next, Server, Thread, Parse

\* The values of the variables, at the start.
LEMMA TypeInit == Init => TypeOK
<1> SUFFICES ASSUME Init PROVE TypeOK
  OBVIOUS
<1>1. /\ sizes \in Seq(Nat \ {0}) /\ stream \in Seq(Token) /\ Len(stream) = 0
      /\ chunk_body \in Seq(Token) /\ got \in Seq(Seq(Token))
  BY EmptySeqs DEF Init
<1>2. rcvd \in 0 .. Len(stream) /\ used \in 0 .. rcvd /\ limit \in 0 .. BodyLimit
  BY <1>1, BoundsAssumption DEF Init
<1> QED BY <1>1, <1>2 DEF Init, TypeOK

\* The storage, the parser and the loop keep their types (members of
\* chunk_response_block and chunk_iterator in types.hpp).
THEOREM TypeCorrect == Spec => []TypeOK
<1> QED BY TypeInit, TypeStep, PTL DEF Spec

-----------------------------------------------------------------------------
(* What the server puts on the connection *)

\* The lengths are natural numbers.
LEMMA Lengths ==
  ASSUME TypeOK
  PROVE  /\ Len(stream) \in Nat /\ Len(sizes) \in Nat /\ Len(got) \in Nat
         /\ Len(chunk_body) \in Nat
         /\ used \in Nat /\ rcvd \in Nat /\ used <= rcvd /\ rcvd <= Len(stream)
         /\ \A i \in 1 .. Len(sizes) : sizes[i] \in Nat \ {0}
         /\ \A p \in 1 .. Len(stream) : stream[p] \in Token
         /\ stream = <<>> <=> Len(stream) = 0
         /\ sizes = <<>> <=> Len(sizes) = 0
         /\ got = <<>> <=> Len(got) = 0
<1>1. /\ Len(stream) \in Nat /\ Len(sizes) \in Nat /\ Len(got) \in Nat
      /\ Len(chunk_body) \in Nat
  BY LenProperties DEF TypeOK
<1>2. /\ \A i \in 1 .. Len(sizes) : sizes[i] \in Nat \ {0}
      /\ \A p \in 1 .. Len(stream) : stream[p] \in Token
  BY ElementOfSeq DEF TypeOK
<1>3. stream = <<>> <=> Len(stream) = 0
  BY EmptySeq DEF TypeOK
<1>4. sizes = <<>> <=> Len(sizes) = 0
  BY EmptySeq DEF TypeOK
<1>5. got = <<>> <=> Len(got) = 0
  BY EmptySeq DEF TypeOK
<1> QED BY <1>1, <1>2, <1>3, <1>4, <1>5 DEF TypeOK

\* The elements of a concatenation.
LEMMA ConcatElements ==
  ASSUME NEW s \in Seq(Token), NEW t \in Seq(Token)
  PROVE  /\ s \o t \in Seq(Token) /\ Len(s \o t) = Len(s) + Len(t)
         /\ \A p \in 1 .. Len(s) : (s \o t)[p] = s[p]
         /\ \A j \in 1 .. Len(t) : (s \o t)[Len(s) + j] = t[j]
<1>1. Len(s) \in Nat /\ Len(t) \in Nat
  BY LenProperties
<1>2. /\ s \o t \in Seq(Token) /\ Len(s \o t) = Len(s) + Len(t)
      /\ \A i \in 1 .. Len(s) + Len(t) :
           (s \o t)[i] = IF i <= Len(s) THEN s[i] ELSE t[i - Len(s)]
  BY ConcatProperties
<1> QED BY <1>1, <1>2

\* The elements of a part of a sequence.
LEMMA SubSeqElements ==
  ASSUME NEW s \in Seq(Token), NEW a \in Nat, NEW m \in Nat, a + m <= Len(s)
  PROVE  /\ SubSeq(s, a + 1, a + m) \in Seq(Token) /\ Len(SubSeq(s, a + 1, a + m)) = m
         /\ \A j \in 1 .. m : SubSeq(s, a + 1, a + m)[j] = s[a + j]
<1>1. PICK c \in Int, d \in Int : c = a + 1 /\ d = a + m
  OBVIOUS
<1>2. \A p \in c .. d : s[p] \in Token
  BY <1>1, ElementOfSeq
<1>3. /\ SubSeq(s, c, d) \in Seq(Token)
      /\ Len(SubSeq(s, c, d)) = IF c <= d THEN d - c + 1 ELSE 0
      /\ \A i \in 1 .. d - c + 1 : SubSeq(s, c, d)[i] = s[c + i - 1]
  BY <1>2, SubSeqProperties
<1>4. d - c + 1 = m /\ (c <= d <=> m > 0)
  BY <1>1
<1>5. \A j \in 1 .. m : c + j - 1 = a + j
  BY <1>1
<1> QED BY <1>1, <1>3, <1>4, <1>5

\* A chunk as write_chunk writes it: its size, then its data.
LEMMA ChunkToksProperties ==
  ASSUME NEW i \in Nat, NEW n \in Nat
  PROVE  /\ ChunkToks(i, n) \in Seq(Token)
         /\ Len(ChunkToks(i, n)) = n + 1
         /\ ChunkToks(i, n)[1] = [kind |-> "size", chunk |-> i, val |-> n]
         /\ \A j \in 1 .. n : ChunkToks(i, n)[j + 1] = DataTok(i, j)
<1>1. ChunkToks(i, n) \in Seq(Token)
  BY TokenTypes
<1>2. DOMAIN ChunkToks(i, n) = 1 .. n + 1
  BY DEF ChunkToks
<1>3. Len(ChunkToks(i, n)) = n + 1
  BY <1>1, <1>2, LenProperties
<1>4. ChunkToks(i, n)[1] = [kind |-> "size", chunk |-> i, val |-> n]
  BY DEF ChunkToks
<1>5. \A j \in 1 .. n : ChunkToks(i, n)[j + 1] = DataTok(i, j)
  <2> TAKE j \in 1 .. n
  <2>1. j + 1 \in 1 .. n + 1 /\ j + 1 # 1 /\ (j + 1) - 1 = j
    OBVIOUS
  <2> QED BY <2>1 DEF ChunkToks
<1> QED BY <1>1, <1>3, <1>4, <1>5

\* Every step of the server, or of the network, leaves what the client holds; the
\* stream it has received keeps its tokens.
LEMMA SendHeaderEffect ==
  ASSUME TypeOK, StreamInv, SendHeader
  PROVE  /\ UNCHANGED <<sizes, clientVars>> /\ sizes = <<>> /\ stream = <<>>
         /\ Len(stream') = 1
         /\ \/ stream'[1].kind = "hdr_chunked" /\ srv' = "chunked"
            \/ stream'[1].kind = "hdr_length" /\ srv' = "length"
            \/ stream'[1].kind = "hdr_none" /\ srv' = "finished"
<1>1. PICK k \in HeaderKinds : stream' = Append(stream, HeaderTok(k)) /\ srv' = ServerAfter[k]
  BY DEF SendHeader
<1>2. stream = <<>> /\ sizes = <<>> /\ UNCHANGED <<sizes, clientVars>>
  BY DEF SendHeader, StreamInv
<1>3. HeaderTok(k) \in Token
  BY TokenTypes
<1>4. Len(stream') = 1 /\ stream'[1] = HeaderTok(k)
  BY <1>1, <1>2, <1>3, AppendProperties, Lengths DEF TypeOK
<1>5. stream'[1].kind = k
  BY <1>4 DEF HeaderTok
<1> QED BY <1>1, <1>2, <1>4, <1>5 DEF HeaderKinds, ServerAfter

\* A chunk: its size line and its units, behind what the server has sent.
LEMMA WriteChunkEffect ==
  ASSUME TypeOK, WriteChunk
  PROVE  \E n \in Nat \ {0} :
         /\ UNCHANGED <<srv, clientVars>> /\ srv = "chunked"
         /\ Len(sizes') = Len(sizes) + 1 /\ sizes'[Len(sizes) + 1] = n
         /\ \A i \in 1 .. Len(sizes) : sizes'[i] = sizes[i]
         /\ Len(stream') = Len(stream) + 1 + n
         /\ \A p \in 1 .. Len(stream) : stream'[p] = stream[p]
         /\ stream'[Len(stream) + 1] = [kind |-> "size", chunk |-> Len(sizes) + 1, val |-> n]
         /\ \A j \in 1 .. n : stream'[Len(stream) + 1 + j] = DataTok(Len(sizes) + 1, j)
<1>1. PICK n \in 1 .. MaxSize : /\ sizes' = Append(sizes, n)
                                /\ stream' = stream \o ChunkToks(Len(sizes) + 1, n)
  BY DEF WriteChunk
<1>2. n \in Nat \ {0} /\ Len(sizes) + 1 \in Nat /\ Len(stream) \in Nat
  BY BoundsAssumption, Lengths
<1> DEFINE c == ChunkToks(Len(sizes) + 1, n)
<1>3. /\ c \in Seq(Token) /\ Len(c) = n + 1
      /\ c[1] = [kind |-> "size", chunk |-> Len(sizes) + 1, val |-> n]
      /\ \A j \in 1 .. n : c[j + 1] = DataTok(Len(sizes) + 1, j)
  BY <1>2, ChunkToksProperties
<1>4. /\ Len(sizes') = Len(sizes) + 1 /\ sizes'[Len(sizes) + 1] = n
      /\ \A i \in 1 .. Len(sizes) : sizes'[i] = sizes[i]
  BY <1>1, <1>2, AppendProperties DEF TypeOK
<1> HIDE DEF c
<1>5. stream \in Seq(Token) /\ stream' = stream \o c
  BY <1>1 DEF c, TypeOK
<1>6. /\ Len(stream') = Len(stream) + Len(c)
      /\ \A p \in 1 .. Len(stream) : stream'[p] = stream[p]
      /\ \A j \in 1 .. Len(c) : stream'[Len(stream) + j] = c[j]
  BY <1>3, <1>5, ConcatElements
<1>7. stream'[Len(stream) + 1] = c[1]
  BY <1>2, <1>3, <1>6
<1>8. \A j \in 1 .. n : stream'[Len(stream) + 1 + j] = c[j + 1]
  <2> TAKE j \in 1 .. n
  <2>1. j + 1 \in 1 .. Len(c) /\ Len(stream) + 1 + j = Len(stream) + (j + 1)
    BY <1>2, <1>3
  <2> QED BY <2>1, <1>6
<1>9. Len(stream') = Len(stream) + 1 + n
  BY <1>2, <1>3, <1>6
<1>10. UNCHANGED <<srv, clientVars>> /\ srv = "chunked"
  BY DEF WriteChunk
<1>11. n \in Nat \ {0}
  BY <1>2
<1> WITNESS n \in Nat \ {0}
<1> QED
  BY <1>3, <1>4, <1>6, <1>7, <1>8, <1>9, <1>10

\* The last-chunk, behind all the rest.
LEMMA WriteLastEffect ==
  ASSUME TypeOK, WriteLast
  PROVE  /\ UNCHANGED <<sizes, clientVars>> /\ srv = "chunked" /\ srv' = "finished"
         /\ Len(stream') = Len(stream) + 1 /\ stream'[Len(stream) + 1].kind = "last"
         /\ \A p \in 1 .. Len(stream) : stream'[p] = stream[p]
<1>1. PICK t \in {0, 1} : stream' = Append(stream, LastTok(t))
  BY DEF WriteLast
<1>2. LastTok(t) \in Token /\ LastTok(t).kind = "last"
  BY TokenTypes DEF LastTok
<1>3. /\ Len(stream') = Len(stream) + 1 /\ stream'[Len(stream) + 1] = LastTok(t)
      /\ \A p \in 1 .. Len(stream) : stream'[p] = stream[p]
  BY <1>1, <1>2, AppendProperties, Lengths DEF TypeOK
<1> QED BY <1>2, <1>3 DEF WriteLast

\* The body of a response that is not chunked.
LEMMA WriteLengthBodyEffect ==
  ASSUME TypeOK, WriteLengthBody
  PROVE  /\ UNCHANGED <<sizes, clientVars>> /\ srv = "length" /\ srv' = "finished"
         /\ Len(stream') = Len(stream) + 1 /\ stream'[Len(stream) + 1].kind = "data"
         /\ \A p \in 1 .. Len(stream) : stream'[p] = stream[p]
<1>1. DataTok(0, 1) \in Token /\ DataTok(0, 1).kind = "data"
  BY TokenTypes DEF DataTok
<1>2. /\ Len(stream') = Len(stream) + 1 /\ stream'[Len(stream) + 1] = DataTok(0, 1)
      /\ \A p \in 1 .. Len(stream) : stream'[p] = stream[p]
  BY <1>1, AppendProperties, Lengths DEF TypeOK, WriteLengthBody
<1> QED BY <1>1, <1>2 DEF WriteLengthBody

\* The end of a connection leaves a beginning of what was sent, with all that was received.
LEMMA CloseEffect ==
  ASSUME TypeOK, CloseConnection
  PROVE  /\ UNCHANGED <<sizes, clientVars>> /\ srv' = "closed"
         /\ Len(stream') \in rcvd .. Len(stream)
         /\ \A p \in 1 .. Len(stream') : stream'[p] = stream[p]
<1>1. PICK k \in rcvd .. Len(stream) : stream' = SubSeq(stream, 1, k)
  BY DEF CloseConnection
<1>2. k \in Nat /\ k <= Len(stream) /\ \A p \in 1 .. k : stream[p] \in Token
  BY Lengths
<1>3. Len(stream') = k /\ \A p \in 1 .. k : stream'[p] = stream[p]
  BY <1>1, <1>2, SubSeqProperties
<1> QED BY <1>1, <1>3 DEF CloseConnection

\* A chunk boundary the client has reached stays one, whatever the server does.
LEMMA NextTokKept ==
  ASSUME TypeOK, StreamInv, Server, srv \notin {"start", "length"},
         NEW p \in Nat, NEW i \in Nat, p <= Len(stream) \/ srv # "chunked", NextTok(p, i)
  PROVE  NextTok(p, i)'
<1> USE Lengths DEF NextTok
<1>1. CASE WriteChunk
  <2>1. PICK n \in Nat \ {0} :
          /\ UNCHANGED <<srv, clientVars>> /\ srv = "chunked"
          /\ Len(sizes') = Len(sizes) + 1
          /\ Len(stream') = Len(stream) + 1 + n
          /\ \A q \in 1 .. Len(stream) : stream'[q] = stream[q]
          /\ stream'[Len(stream) + 1] = [kind |-> "size", chunk |-> Len(sizes) + 1, val |-> n]
    BY <1>1, WriteChunkEffect
  <2>2. p <= Len(stream) /\ p < Len(stream')
    BY <2>1
  <2>3. CASE p < Len(stream)
    <3>1. stream'[p + 1] = stream[p + 1] /\ p + 1 \in 1 .. Len(stream)
      BY <2>1, <2>3, SMTT(30)
    <3>2. stream[p + 1].kind # "last"
      BY <2>1, <3>1 DEF StreamInv
    <3> QED BY <2>2, <2>3, <3>1, <3>2
  <2>4. CASE p = Len(stream)
    <3>1. i = Len(sizes)
      BY <2>1, <2>4
    <3>2. stream'[p + 1].kind = "size" /\ stream'[p + 1].chunk = i + 1
      BY <2>1, <2>4, <3>1
    <3> QED BY <2>2, <3>2
  <2> QED BY <2>2, <2>3, <2>4
<1>2. CASE WriteLast
  <2>1. /\ UNCHANGED <<sizes, clientVars>> /\ srv = "chunked" /\ srv' = "finished"
        /\ Len(stream') = Len(stream) + 1 /\ stream'[Len(stream) + 1].kind = "last"
        /\ \A q \in 1 .. Len(stream) : stream'[q] = stream[q]
    BY <1>2, WriteLastEffect
  <2>2. CASE p < Len(stream)
    <3>1. stream'[p + 1] = stream[p + 1] /\ p + 1 \in 1 .. Len(stream)
      BY <2>1, <2>2
    <3> QED BY <2>1, <2>2, <3>1
  <2>3. CASE p = Len(stream)
    BY <2>1, <2>3
  <2> QED BY <2>1, <2>2, <2>3
<1>3. CASE CloseConnection
  <2>1. /\ UNCHANGED <<sizes, clientVars>> /\ srv' = "closed"
        /\ Len(stream') \in rcvd .. Len(stream)
        /\ \A q \in 1 .. Len(stream') : stream'[q] = stream[q]
    BY <1>3, CloseEffect
  <2>2. ASSUME p < Len(stream')
        PROVE  stream'[p + 1] = stream[p + 1] /\ p < Len(stream)
    BY <2>1, <2>2
  <2> QED BY <2>1, <2>2
<1>4. ~SendHeader /\ ~WriteLengthBody
  BY DEF SendHeader, WriteLengthBody
<1> QED BY <1>1, <1>2, <1>3, <1>4 DEF Server

\* A chunk on the connection stays where it is, cut short at worst.
LEMMA ChunkAtKept ==
  ASSUME TypeOK, StreamInv, Server, NEW p \in 1 .. Len(stream), p <= Len(stream'),
         NEW i \in Nat, stream[p].kind = "size", stream[p].chunk = i
  PROVE  stream'[p] = stream[p] /\ ChunkAt(p, i)'
<1>1. ChunkAt(p, i)
  BY DEF StreamInv
<1>2. /\ p \in Nat /\ i \in 1 .. Len(sizes) /\ sizes[i] \in Nat \ {0} /\ i \in Nat
      /\ Len(stream) \in Nat /\ Len(sizes) \in Nat
  BY <1>1, Lengths DEF ChunkAt
<1>3. srv \notin {"start", "length"}
  <2>1. sizes # <<>>
    BY <1>2, Lengths
  <2>2. stream # <<>>
    BY <1>2, Lengths
  <2> QED BY <2>1, <2>2 DEF StreamInv
<1>4. p + sizes[i] <= Len(stream) \/ srv # "chunked"
  BY <1>1 DEF ChunkAt
<1>5. NextTok(p + sizes[i], i)'
  <2>1. NextTok(p + sizes[i], i) /\ p + sizes[i] \in Nat
    BY <1>1, <1>2 DEF ChunkAt
  <2>2. \A b \in Nat, c \in Nat : (b <= Len(stream) \/ srv # "chunked") /\ NextTok(b, c)
                                     => NextTok(b, c)'
    BY <1>3, NextTokKept
  <2>3. sizes'[i] = sizes[i]
    <3>1. CASE WriteChunk
      BY <1>2, <3>1, WriteChunkEffect
    <3>2. CASE ~WriteChunk
      BY <3>2 DEF Server, SendHeader, WriteLast, WriteLengthBody, CloseConnection
    <3> QED BY <3>1, <3>2
  <2>4. ASSUME NEW b \in Nat, b = p + sizes[i], NextTok(b, i)'
        PROVE  NextTok(p + sizes[i], i)'
    BY <2>3, <2>4 DEF NextTok
  <2> QED BY <2>1, <2>2, <2>4, <1>2, <1>4
<1>6. CASE WriteChunk
  <2>1. PICK n \in Nat \ {0} :
          /\ UNCHANGED <<srv, clientVars>> /\ srv = "chunked"
          /\ Len(sizes') = Len(sizes) + 1
          /\ \A k \in 1 .. Len(sizes) : sizes'[k] = sizes[k]
          /\ Len(stream') = Len(stream) + 1 + n
          /\ \A q \in 1 .. Len(stream) : stream'[q] = stream[q]
    BY <1>6, WriteChunkEffect
  <2>2. stream'[p] = stream[p] /\ sizes'[i] = sizes[i] /\ i \in 1 .. Len(sizes')
    BY <2>1, <1>2
  <2>3. p + sizes[i] <= Len(stream)
    BY <1>4, <2>1
  <2>4. \A j \in 1 .. sizes[i] : p + j <= Len(stream) /\ stream'[p + j] = DataTok(i, j)
    <3> TAKE j \in 1 .. sizes[i]
    <3>1. p + j \in 1 .. Len(stream)
      BY <1>2, <2>3
    <3>2. stream[p + j] = DataTok(i, j)
      BY <1>1, <3>1 DEF ChunkAt
    <3> QED BY <2>1, <3>1, <3>2
  <2>5. p + sizes'[i] <= Len(stream')
    BY <1>2, <2>1, <2>2, <2>3
  <2>6. stream'[p].val = sizes'[i]
    BY <1>1, <2>2 DEF ChunkAt
  <2>7. \A j \in 1 .. sizes'[i] : stream'[p + j] = DataTok(i, j)'
    BY <2>2, <2>4 DEF DataTok
  <2>8. ChunkAt(p, i)'
    BY <1>5, <2>2, <2>5, <2>6, <2>7 DEF ChunkAt
  <2> QED BY <2>2, <2>8
<1>7. CASE WriteLast \/ CloseConnection
  <2>1. /\ UNCHANGED sizes /\ srv' # "chunked"
        /\ \A q \in 1 .. Len(stream) : q <= Len(stream') => stream'[q] = stream[q]
    <3>1. CASE WriteLast
      BY <3>1, WriteLastEffect
    <3>2. CASE CloseConnection
      <4>1. /\ UNCHANGED sizes /\ srv' = "closed" /\ Len(stream') \in rcvd .. Len(stream)
            /\ \A q \in 1 .. Len(stream') : stream'[q] = stream[q]
        BY <3>2, CloseEffect
      <4>2. Len(stream') \in Nat
        BY <4>1, Lengths
      <4> QED BY <4>1, <4>2
    <3> QED BY <1>7, <3>1, <3>2
  <2>2. stream'[p] = stream[p] /\ stream'[p].val = sizes'[i]
    BY <1>1, <2>1 DEF ChunkAt
  <2>3. ASSUME NEW j \in 1 .. sizes[i], p + j <= Len(stream')
        PROVE  stream'[p + j] = DataTok(i, j)
    <3>1. Len(stream') \in Nat /\ (p + j <= Len(stream) \/ WriteLast)
      <4>1. CASE WriteLast
        BY <1>2, <4>1, WriteLastEffect
      <4>2. CASE CloseConnection
        <5>1. Len(stream') \in rcvd .. Len(stream)
          BY <4>2, CloseEffect
        <5> QED BY <1>2, <2>3, <5>1, Lengths
      <4> QED BY <1>7, <4>1, <4>2
    <3>2. p + j <= Len(stream)
      <4>1. CASE WriteLast
        <5>1. srv = "chunked"
          BY <4>1 DEF WriteLast
        <5> QED BY <1>2, <1>4, <5>1, <2>3
      <4> QED BY <3>1, <4>1
    <3>3. stream[p + j] = DataTok(i, j) /\ p + j \in 1 .. Len(stream)
      BY <1>1, <1>2, <2>3, <3>2 DEF ChunkAt
    <3> QED BY <2>1, <2>3, <3>3
  <2>4. ChunkAt(p, i)'
    BY <1>2, <1>5, <2>1, <2>2, <2>3 DEF ChunkAt, DataTok
  <2> QED BY <2>2, <2>4
<1> QED BY <1>3, <1>6, <1>7 DEF Server, SendHeader, WriteLengthBody

\* The client does not write on the connection.
LEMMA ClientStep ==
  ASSUME [Next]_vars, ~Server
  PROVE  UNCHANGED srvVars
BY DEF Next, Thread, Parse, ChunkResponse, Begin, Break, Deref, LoopEnd, FillWhenDone, Fill,
       HeaderAlreadyRead, Receive, HeaderReadFails, BodyReadFails, ReadDone, ParseHeader,
       ParseGarbage, ParseChunkHeader, ParseOverLimit, ParseChunkPart, ParseChunkEnd,
       ParseLast, ParseUnexpectedBody, Return, vars, srvVars

\* The order of what is on the connection.
LEMMA StreamStep ==
  ASSUME TypeOK, StreamInv, [Next]_vars
  PROVE  StreamInv'
<1>1. CASE ~Server
  <2>1. UNCHANGED <<srv, sizes, stream>>
    BY <1>1, ClientStep DEF srvVars
  <2> QED BY <2>1 DEF StreamInv, ChunkAt, NextTok, DataTok
<1>2. CASE SendHeader
  <2>1. /\ UNCHANGED <<sizes, clientVars>> /\ sizes = <<>> /\ stream = <<>>
        /\ Len(stream') = 1
        /\ \/ stream'[1].kind = "hdr_chunked" /\ srv' = "chunked"
           \/ stream'[1].kind = "hdr_length" /\ srv' = "length"
           \/ stream'[1].kind = "hdr_none" /\ srv' = "finished"
    BY <1>2, SendHeaderEffect
  <2>2. Len(sizes') = 0 /\ stream' # <<>>
    BY <2>1, EmptySeqs
  <2>3. NextTok(1, 0)'
    BY <2>1, <2>2 DEF NextTok
  <2>4. \A p \in 1 .. Len(stream') : p = 1 /\ stream'[p].kind \notin {"size", "last"}
    BY <2>1
  <2> QED BY <2>1, <2>2, <2>3, <2>4 DEF StreamInv
<1>3. CASE WriteChunk
  <2>1. PICK n \in Nat \ {0} :
          /\ UNCHANGED <<srv, clientVars>> /\ srv = "chunked"
          /\ Len(sizes') = Len(sizes) + 1 /\ sizes'[Len(sizes) + 1] = n
          /\ Len(stream') = Len(stream) + 1 + n
          /\ \A p \in 1 .. Len(stream) : stream'[p] = stream[p]
          /\ stream'[Len(stream) + 1] = [kind |-> "size", chunk |-> Len(sizes) + 1, val |-> n]
          /\ \A j \in 1 .. n : stream'[Len(stream) + 1 + j] = DataTok(Len(sizes) + 1, j)
    BY <1>3, WriteChunkEffect
  <2>2. Len(stream) \in Nat \ {0} /\ Len(sizes) \in Nat /\ stream[1].kind = "hdr_chunked"
    BY <2>1, Lengths DEF StreamInv
  <2>3. ASSUME NEW p \in 1 .. Len(stream)
        PROVE  /\ stream'[p].kind \in HeaderKinds => p = 1
               /\ stream'[p].kind = "size" => ChunkAt(p, stream[p].chunk)' /\ stream'[p] = stream[p]
               /\ stream'[p].kind # "last"
    <3>1. stream'[p] = stream[p] /\ p <= Len(stream')
      BY <2>1, <2>2
    <3>2. stream[p].kind # "last" /\ (stream[p].kind \in HeaderKinds => p = 1)
      BY <2>1 DEF StreamInv
    <3>3. ASSUME stream[p].kind = "size"
          PROVE  ChunkAt(p, stream[p].chunk)'
      <4>1. stream[p].chunk \in Nat
        BY Lengths DEF Token
      <4>2. PICK i \in Nat : i = stream[p].chunk
        BY <4>1
      <4>3. ChunkAt(p, i)'
        BY <1>3, <3>1, <3>3, <4>2, ChunkAtKept DEF Server
      <4>4. i = stream'[p].chunk
        BY <3>1, <4>2
      <4> QED BY <4>3, <4>4
    <3> QED BY <3>1, <3>2, <3>3
  <2>4. ASSUME NEW i \in Nat, NEW b \in Nat, i = Len(sizes) + 1, b = Len(stream) + 1
        PROVE  ChunkAt(b, i)'
    <3>1. /\ i \in 1 .. Len(sizes') /\ stream'[b].val = sizes'[i] /\ sizes'[i] = n
          /\ \A j \in 1 .. n : stream'[b + j] = DataTok(i, j)
          /\ b + n = Len(stream') /\ i = Len(sizes')
      BY <2>1, <2>2, <2>4
    <3>2. NextTok(b + sizes[i], i)'
      BY <3>1, <2>1 DEF NextTok
    <3> QED BY <3>1, <3>2 DEF ChunkAt, DataTok
  <2>5. \A p \in Len(stream) + 2 .. Len(stream') : stream'[p].kind = "data"
    <3> TAKE p \in Len(stream) + 2 .. Len(stream')
    <3>1. p - Len(stream) - 1 \in 1 .. n /\ Len(stream) + 1 + (p - Len(stream) - 1) = p
      BY <2>1, <2>2
    <3>2. stream'[p] = DataTok(Len(sizes) + 1, p - Len(stream) - 1)
      BY <2>1, <3>1
    <3> QED BY <3>2 DEF DataTok
  <2>6. \A p \in 1 .. Len(stream') :
          p \in 1 .. Len(stream) \/ p = Len(stream) + 1 \/ p \in Len(stream) + 2 .. Len(stream')
    BY <2>1, <2>2
  <2>7. ASSUME NEW p \in 1 .. Len(stream')
        PROVE  /\ stream'[p].kind \in HeaderKinds => p = 1
               /\ stream'[p].kind = "size" => ChunkAt(p, stream[p].chunk)'
               /\ stream'[p].kind # "last"
    <3>1. CASE p \in 1 .. Len(stream)
      BY <2>3, <3>1
    <3>2. CASE p = Len(stream) + 1
      <4>1. stream'[p].kind = "size" /\ stream'[p].chunk = Len(sizes) + 1
        BY <2>1, <3>2
      <4>2. PICK i \in Nat : i = Len(sizes) + 1
        BY <2>2
      <4>3. PICK b \in Nat : b = Len(stream) + 1
        BY <2>2
      <4>4. ChunkAt(b, i)'
        BY <2>4, <4>2, <4>3
      <4>5. b = p /\ i = stream'[p].chunk
        BY <3>2, <4>1, <4>2, <4>3
      <4>6. ChunkAt(p, stream[p].chunk)'
        BY <4>4, <4>5
      <4> QED BY <4>1, <4>6 DEF HeaderKinds
    <3>3. CASE p \in Len(stream) + 2 .. Len(stream')
      BY <2>5, <3>3 DEF HeaderKinds
    <3> QED BY <2>6, <3>1, <3>2, <3>3
  <2>8. stream'[1].kind = "hdr_chunked" /\ stream' # <<>>
    <3>1. 1 \in 1 .. Len(stream) /\ Len(stream') # 0
      BY <2>1, <2>2
    <3> QED BY <3>1, <2>1, <2>2, EmptySeqs
  <2>9. NextTok(1, 0)'
    <3>1. NextTok(1, 0) /\ 1 <= Len(stream) /\ srv \notin {"start", "length"}
      BY <2>1, <2>2, Lengths DEF StreamInv
    <3> QED BY <1>3, <3>1, NextTokKept DEF Server
  <2> QED BY <2>1, <2>7, <2>8, <2>9 DEF StreamInv
<1>4. CASE WriteLast
  <2>1. /\ UNCHANGED <<sizes, clientVars>> /\ srv = "chunked" /\ srv' = "finished"
        /\ Len(stream') = Len(stream) + 1 /\ stream'[Len(stream) + 1].kind = "last"
        /\ \A p \in 1 .. Len(stream) : stream'[p] = stream[p]
    BY <1>4, WriteLastEffect
  <2>2. Len(stream) \in Nat \ {0} /\ stream[1].kind = "hdr_chunked"
    BY <2>1, Lengths DEF StreamInv
  <2>3. ASSUME NEW p \in 1 .. Len(stream')
        PROVE  /\ stream'[p].kind \in HeaderKinds => p = 1
               /\ stream'[p].kind = "size" => ChunkAt(p, stream[p].chunk)'
               /\ stream'[p].kind = "last" => p = Len(stream')
    <3>1. CASE p \in 1 .. Len(stream)
      <4>1. stream'[p] = stream[p] /\ p <= Len(stream') /\ stream[p].kind # "last"
        BY <2>1, <2>2, <3>1 DEF StreamInv
      <4>2. stream[p].kind \in HeaderKinds => p = 1
        BY <3>1 DEF StreamInv
      <4>3. ASSUME stream[p].kind = "size"
            PROVE  ChunkAt(p, stream[p].chunk)'
        <5>1. PICK i \in Nat : i = stream[p].chunk
          BY <3>1, Lengths DEF Token
        <5>2. ChunkAt(p, i)' /\ i = stream'[p].chunk
          BY <1>4, <3>1, <4>1, <4>3, <5>1, ChunkAtKept DEF Server
        <5> QED BY <5>2
      <4> QED BY <4>1, <4>2, <4>3
    <3>2. CASE p = Len(stream) + 1
      BY <2>1, <3>2 DEF HeaderKinds
    <3> QED BY <2>1, <2>2, <3>1, <3>2
  <2>4. stream'[1].kind = "hdr_chunked" /\ stream' # <<>>
    <3>1. 1 \in 1 .. Len(stream) /\ Len(stream') # 0
      BY <2>1, <2>2
    <3> QED BY <3>1, <2>1, <2>2, EmptySeqs
  <2>5. NextTok(1, 0)'
    <3>1. NextTok(1, 0) /\ 1 <= Len(stream) /\ srv \notin {"start", "length"}
      BY <2>1, <2>2, Lengths DEF StreamInv
    <3> QED BY <1>4, <3>1, NextTokKept DEF Server
  <2> QED BY <2>1, <2>3, <2>4, <2>5 DEF StreamInv
<1>5. CASE WriteLengthBody
  <2>1. /\ UNCHANGED <<sizes, clientVars>> /\ srv = "length" /\ srv' = "finished"
        /\ Len(stream') = Len(stream) + 1 /\ stream'[Len(stream) + 1].kind = "data"
        /\ \A p \in 1 .. Len(stream) : stream'[p] = stream[p]
    BY <1>5, WriteLengthBodyEffect
  <2>2. /\ Len(stream) \in Nat \ {0} /\ stream[1].kind = "hdr_length" /\ sizes = <<>>
        /\ Len(sizes) = 0
    BY <2>1, Lengths DEF StreamInv
  <2>3. ASSUME NEW p \in 1 .. Len(stream')
        PROVE  /\ stream'[p].kind \in HeaderKinds => p = 1
               /\ stream'[p].kind # "size" /\ stream'[p].kind # "last"
    <3>1. CASE p \in 1 .. Len(stream)
      <4>1. stream'[p] = stream[p] /\ stream[p].kind # "last"
        BY <2>1, <3>1 DEF StreamInv
      <4>2. stream[p].kind # "size"
        BY <2>2, <3>1 DEF StreamInv, ChunkAt
      <4> QED BY <4>1, <4>2, <3>1 DEF StreamInv
    <3>2. CASE p = Len(stream) + 1
      BY <2>1, <3>2 DEF HeaderKinds
    <3> QED BY <2>1, <2>2, <3>1, <3>2
  <2>4. stream'[1].kind = "hdr_length"
    BY <2>1, <2>2
  <2> QED BY <2>1, <2>2, <2>3, <2>4 DEF StreamInv
<1>6. CASE CloseConnection
  <2>1. /\ UNCHANGED <<sizes, clientVars>> /\ srv' = "closed"
        /\ Len(stream') \in rcvd .. Len(stream)
        /\ \A p \in 1 .. Len(stream') : stream'[p] = stream[p]
    BY <1>6, CloseEffect
  <2>2. Len(stream) \in Nat /\ Len(stream') \in Nat /\ Len(stream') <= Len(stream)
    BY <2>1, Lengths
  <2>3. ASSUME NEW p \in 1 .. Len(stream')
        PROVE  /\ stream'[p].kind \in HeaderKinds => p = 1
               /\ stream'[p].kind = "size" => ChunkAt(p, stream[p].chunk)'
               /\ stream'[p].kind = "last" => p = Len(stream')
    <3>1. stream'[p] = stream[p] /\ p \in 1 .. Len(stream) /\ p <= Len(stream')
      BY <2>1, <2>2
    <3>2. /\ stream[p].kind \in HeaderKinds => p = 1
          /\ stream[p].kind = "last" => p = Len(stream)
      BY <3>1 DEF StreamInv
    <3>3. ASSUME stream[p].kind = "size"
          PROVE  ChunkAt(p, stream[p].chunk)'
      <4>1. PICK i \in Nat : i = stream[p].chunk
        BY <3>1, Lengths DEF Token
      <4>2. ChunkAt(p, i)' /\ i = stream'[p].chunk
        BY <1>6, <3>1, <3>3, <4>1, ChunkAtKept DEF Server
      <4> QED BY <4>2
    <3> QED BY <2>2, <3>1, <3>2, <3>3
  <2>4. ASSUME stream' # <<>>, stream'[1].kind = "hdr_chunked"
        PROVE  NextTok(1, 0)'
    <3>1. Len(stream') \in Nat \ {0}
      BY <2>2, <2>4, TypeStep, EmptySeq DEF TypeOK
    <3>2. stream[1].kind = "hdr_chunked" /\ stream # <<>> /\ 1 <= Len(stream)
      BY <2>1, <2>2, <2>4, <3>1, Lengths
    <3>3. NextTok(1, 0) /\ srv \notin {"start", "length"}
      BY <3>2 DEF StreamInv
    <3> QED BY <1>6, <3>2, <3>3, NextTokKept DEF Server
  <2>5. ASSUME stream' # <<>>, stream'[1].kind # "hdr_chunked"
        PROVE  sizes' = <<>>
    <3>1. Len(stream') \in Nat \ {0}
      BY <2>2, <2>5, TypeStep, EmptySeq DEF TypeOK
    <3>2. stream[1].kind # "hdr_chunked" /\ stream # <<>>
      BY <2>1, <2>2, <2>5, <3>1, Lengths
    <3> QED BY <2>1, <3>2 DEF StreamInv
  <2> QED BY <2>1, <2>3, <2>4, <2>5 DEF StreamInv
<1> QED BY <1>1, <1>2, <1>3, <1>4, <1>5, <1>6 DEF Server

-----------------------------------------------------------------------------
(* Where the parser is *)

\* A step of the server leaves what the client has received, and the chunks written.
LEMMA ServerKeeps ==
  ASSUME TypeOK, StreamInv, Server
  PROVE  /\ UNCHANGED clientVars
         /\ Len(stream') \in Nat /\ rcvd <= Len(stream')
         /\ \A p \in 1 .. rcvd : stream'[p] = stream[p]
         /\ Len(sizes') \in Nat /\ Len(sizes) <= Len(sizes')
         /\ \A i \in 1 .. Len(sizes) : sizes'[i] = sizes[i]
         /\ srv \in {"finished", "closed"} => srv' \in {"finished", "closed"} /\ sizes' = sizes
<1> USE Lengths
<1>1. CASE SendHeader
  <2>1. /\ UNCHANGED <<sizes, clientVars>> /\ stream = <<>> /\ Len(stream') = 1
        /\ srv = "start"
    BY <1>1, SendHeaderEffect DEF SendHeader
  <2>2. Len(stream) = 0 /\ rcvd = 0
    BY <2>1
  <2> QED BY <2>1, <2>2
<1>2. CASE WriteChunk
  <2>1. PICK n \in Nat \ {0} :
          /\ UNCHANGED <<srv, clientVars>> /\ srv = "chunked"
          /\ Len(sizes') = Len(sizes) + 1
          /\ \A i \in 1 .. Len(sizes) : sizes'[i] = sizes[i]
          /\ Len(stream') = Len(stream) + 1 + n
          /\ \A p \in 1 .. Len(stream) : stream'[p] = stream[p]
    BY <1>2, WriteChunkEffect
  <2> QED BY <2>1
<1>3. CASE WriteLast
  BY <1>3, WriteLastEffect
<1>4. CASE WriteLengthBody
  BY <1>4, WriteLengthBodyEffect
<1>5. CASE CloseConnection
  BY <1>5, CloseEffect
<1> QED BY <1>1, <1>2, <1>3, <1>4, <1>5 DEF Server

\* Inside a chunk, the position of the parser and the data that comes next.
LEMMA InChunk ==
  ASSUME TypeOK, StreamInv, ParserInv, pst = "chunk_body",
         NEW i, i = filled + 1, NEW q, q = sizes[i] - rem
  PROVE  /\ i \in 1 .. Len(sizes) /\ sizes[i] \in Nat \ {0} /\ q \in Nat /\ rem \in 1 .. sizes[i]
         /\ used - q \in 1 .. Len(stream)
         /\ ChunkAt(used - q, i)
         /\ Len(chunk_body) = q /\ \A j \in 1 .. q : chunk_body[j] = DataTok(i, j)
         /\ \A j \in 1 .. rem : used + j <= Len(stream) => stream[used + j] = DataTok(i, q + j)
<1>1. /\ i \in 1 .. Len(sizes) /\ rem \in 1 .. sizes[i] /\ used - q \in 1 .. Len(stream)
      /\ stream[used - q].kind = "size" /\ stream[used - q].chunk = i
      /\ Len(chunk_body) = q /\ \A j \in 1 .. q : chunk_body[j] = DataTok(i, j)
  BY DEF ParserInv
<1>2. sizes[i] \in Nat \ {0} /\ q \in Nat /\ used \in Nat
  BY <1>1, Lengths
<1>3. ChunkAt(used - q, i)
  BY <1>1 DEF StreamInv
<1>4. ASSUME NEW j \in 1 .. rem, used + j <= Len(stream)
      PROVE  stream[used + j] = DataTok(i, q + j)
  <2>0. PICK n \in Nat : n = sizes[i]
    BY <1>2
  <2>1. q + j \in 1 .. n /\ (used - q) + (q + j) = used + j
    <3>1. n = q + rem /\ rem \in 1 .. n /\ j \in 1 .. rem
      BY <1>1, <1>2, <1>4, <2>0
    <3> QED BY <3>1, <1>2
  <2>2. \A k \in 1 .. sizes[i] :
          (used - q) + k <= Len(stream) => stream[(used - q) + k] = DataTok(i, k)
    BY <1>3 DEF ChunkAt
  <2> QED BY <1>4, <2>0, <2>1, <2>2
<1> QED BY <1>1, <1>2, <1>3, <1>4

\* on_chunk_body_cb_ appends the next units of the chunk, whatever is in the buffer.
LEMMA PieceAppended ==
  ASSUME TypeOK, StreamInv, ParserInv, pst = "chunk_body",
         NEW i, i = filled + 1, NEW q, q = sizes[i] - rem,
         NEW b, b = chunk_body \o SubSeq(stream, used + 1, used + Piece)
  PROVE  /\ b \in Seq(Token) /\ Len(b) = q + Piece
         /\ \A j \in 1 .. q + Piece : b[j] = DataTok(i, j)
<1> DEFINE t == SubSeq(stream, used + 1, used + Piece)
<1>1. /\ Piece \in Nat /\ Piece <= rem /\ used + Piece <= rcvd /\ rcvd <= Len(stream)
      /\ used \in Nat /\ rem \in Nat /\ rcvd \in Nat /\ Len(stream) \in Nat
  BY PieceType, Lengths DEF TypeOK
<1>2. /\ q \in Nat /\ Len(chunk_body) = q /\ \A j \in 1 .. q : chunk_body[j] = DataTok(i, j)
      /\ \A j \in 1 .. rem : used + j <= Len(stream) => stream[used + j] = DataTok(i, q + j)
  BY InChunk
<1>4. t \in Seq(Token) /\ Len(t) = Piece /\ \A j \in 1 .. Piece : t[j] = stream[used + j]
  <2>1. stream \in Seq(Token) /\ used + Piece <= Len(stream)
    BY <1>1 DEF TypeOK
  <2> QED BY <1>1, <2>1, SubSeqElements
<1> HIDE DEF t
<1>5. /\ b \in Seq(Token) /\ Len(b) = q + Piece
      /\ \A j \in 1 .. q : b[j] = chunk_body[j]
      /\ \A j \in 1 .. Piece : b[q + j] = t[j]
  <2>1. chunk_body \in Seq(Token) /\ b = chunk_body \o t /\ t \in Seq(Token)
    BY <1>4 DEF TypeOK, t
  <2>2. /\ chunk_body \o t \in Seq(Token) /\ Len(chunk_body \o t) = Len(chunk_body) + Len(t)
        /\ \A j \in 1 .. Len(chunk_body) : (chunk_body \o t)[j] = chunk_body[j]
        /\ \A j \in 1 .. Len(t) : (chunk_body \o t)[Len(chunk_body) + j] = t[j]
    BY <2>1, ConcatElements
  <2> QED BY <1>2, <1>4, <2>1, <2>2
<1>6. ASSUME NEW j \in 1 .. Piece
      PROVE  b[q + j] = DataTok(i, q + j)
  <2>1. j \in 1 .. rem /\ used + j <= Len(stream)
    BY <1>1
  <2>2. b[q + j] = t[j] /\ t[j] = stream[used + j]
    BY <1>4, <1>5
  <2>3. stream[used + j] = DataTok(i, q + j)
    BY <1>2, <2>1
  <2> QED BY <2>2, <2>3
<1>7. ASSUME NEW j \in 1 .. q + Piece
      PROVE  b[j] = DataTok(i, j)
  <2>0. PICK m \in Nat, r \in Nat : m = Piece /\ r = q /\ j \in 1 .. r + m
    BY <1>1, <1>2
  <2>1. CASE j <= r
    <3>1. j \in 1 .. q
      BY <2>0, <2>1
    <3> QED BY <1>2, <1>5, <3>1
  <2>2. CASE j > r
    <3>1. j - r \in 1 .. m /\ r + (j - r) = j
      BY <2>0, <2>2
    <3> QED BY <1>6, <2>0, <3>1
  <2>3. j <= r \/ j > r
    BY <2>0
  <2> QED BY <2>1, <2>2, <2>3
<1> QED BY <1>5, <1>7

\* The steps of the thread that leave the parser and the buffer.
ThreadOnly ==
  \/ Begin \/ Deref \/ LoopEnd \/ Break \/ FillWhenDone \/ Fill \/ HeaderAlreadyRead
  \/ HeaderReadFails \/ ParseGarbage \/ BodyReadFails \/ ReadDone \/ ParseOverLimit
  \/ ParseUnexpectedBody

\* The parser is at a boundary, inside a chunk, or done, after every step.
LEMMA ParserStep ==
  ASSUME TypeOK, StreamInv, ParserInv, [Next]_vars
  PROVE  ParserInv'
<1> USE Lengths
<1>1. CASE Server
  <2>1. /\ UNCHANGED clientVars
        /\ Len(stream') \in Nat /\ rcvd <= Len(stream')
        /\ \A p \in 1 .. rcvd : stream'[p] = stream[p]
        /\ Len(sizes') \in Nat /\ Len(sizes) <= Len(sizes')
        /\ \A i \in 1 .. Len(sizes) : sizes'[i] = sizes[i]
        /\ srv \in {"finished", "closed"} => srv' \in {"finished", "closed"} /\ sizes' = sizes
    BY <1>1, ServerKeeps
  <2>2. UNCHANGED <<rcvd, used, pst, rem, fields, chunk_body, filled, pc>>
    BY <2>1 DEF clientVars, parseVars
  <2>3. (used = 0 => filled = 0 /\ pst = "start")'
    BY <2>2 DEF ParserInv
  <2>4. (pst = "start" => /\ fields = {} /\ chunk_body = <<>> /\ pc # "read"
                          /\ pc \in {"idle", "test", "incr"} => BufferEmpty)'
    BY <2>2 DEF ParserInv, BufferEmpty
  <2>5. (pst # "start" => "head" \in fields)'
    BY <2>2 DEF ParserInv
  <2>6. ASSUME pst \in {"chunk_header", "chunk_body"}
        PROVE  stream'[1] = stream[1] /\ stream[1].kind = "hdr_chunked" /\ 1 \in 1 .. rcvd
    <3>1. used # 0
      BY <2>6 DEF ParserInv
    <3>2. 1 \in 1 .. rcvd
      BY <3>1
    <3> QED BY <2>1, <2>6, <3>2 DEF ParserInv
  <2>7. (pst = "chunk_header" => NextTok(used, filled))'
    <3> SUFFICES ASSUME pst = "chunk_header" PROVE NextTok(used, filled)'
      BY <2>2
    <3>1. srv \notin {"start", "length"}
      <4>1. stream # <<>> /\ stream[1].kind = "hdr_chunked"
        BY <2>6
      <4> QED BY <4>1 DEF StreamInv
    <3>2. PICK a \in Nat, b \in Nat : a = used /\ b = filled
      BY DEF TypeOK
    <3>3. NextTok(a, b) /\ a <= Len(stream)
      BY <3>2 DEF ParserInv
    <3>4. NextTok(a, b)'
      BY <1>1, <3>1, <3>3, NextTokKept
    <3>5. a = used' /\ b = filled'
      BY <2>2, <3>2
    <3> QED BY <3>4, <3>5
  <2>8. (pst = "chunk_body" =>
           /\ filled + 1 \in 1 .. Len(sizes) /\ rem \in 1 .. sizes[filled + 1]
           /\ LET q == sizes[filled + 1] - rem IN
                /\ used - q \in 1 .. Len(stream)
                /\ stream[used - q].kind = "size" /\ stream[used - q].chunk = filled + 1
                /\ Len(chunk_body) = q
                /\ \A j \in 1 .. q : chunk_body[j] = DataTok(filled + 1, j))'
    <3> SUFFICES ASSUME pst = "chunk_body"
                 PROVE  (/\ filled + 1 \in 1 .. Len(sizes) /\ rem \in 1 .. sizes[filled + 1]
                         /\ LET q == sizes[filled + 1] - rem IN
                              /\ used - q \in 1 .. Len(stream)
                              /\ stream[used - q].kind = "size"
                              /\ stream[used - q].chunk = filled + 1
                              /\ Len(chunk_body) = q
                              /\ \A j \in 1 .. q : chunk_body[j] = DataTok(filled + 1, j))'
      BY <2>2
    <3>1. PICK i, q : i = filled + 1 /\ q = sizes[i] - rem
      OBVIOUS
    <3>2. /\ i \in 1 .. Len(sizes) /\ rem \in 1 .. sizes[i] /\ q \in Nat
          /\ used - q \in 1 .. Len(stream)
          /\ stream[used - q].kind = "size" /\ stream[used - q].chunk = i
          /\ Len(chunk_body) = q /\ \A j \in 1 .. q : chunk_body[j] = DataTok(i, j)
      BY <3>1, InChunk DEF ParserInv
    <3>3. used - q \in 1 .. rcvd /\ used - q \in 1 .. Len(stream')
      BY <2>1, <3>2
    <3>4. stream'[used - q] = stream[used - q] /\ sizes'[i] = sizes[i] /\ i \in 1 .. Len(sizes')
      BY <2>1, <3>2, <3>3
    <3>5. i = filled' + 1 /\ q = sizes'[filled' + 1] - rem'
      BY <2>2, <3>1, <3>4
    <3>6. /\ i \in 1 .. Len(sizes') /\ rem' \in 1 .. sizes'[i]
          /\ used' - q \in 1 .. Len(stream')
          /\ stream'[used' - q].kind = "size" /\ stream'[used' - q].chunk = i
          /\ Len(chunk_body') = q /\ \A j \in 1 .. q : chunk_body'[j] = DataTok(i, j)
      BY <2>2, <3>2, <3>3, <3>4
    <3> QED BY <3>5, <3>6 DEF DataTok
  <2>9. (pst = "complete" =>
           filled = Len(sizes) /\ chunk_body = <<>> /\ srv \in {"finished", "closed"})'
    BY <2>1, <2>2 DEF ParserInv
  <2> QED BY <2>2, <2>3, <2>4, <2>5, <2>6, <2>7, <2>8, <2>9 DEF ParserInv
<1>2. CASE ThreadOnly
  <2>1. UNCHANGED <<srv, sizes, stream, rcvd, used, pst, rem, fields, chunk_body, filled>>
    BY <1>2 DEF ThreadOnly, Begin, Deref, LoopEnd, Break, FillWhenDone, Fill, HeaderAlreadyRead,
                HeaderReadFails, ParseGarbage, BodyReadFails, ReadDone, ParseOverLimit,
                ParseUnexpectedBody, Return, srvVars, parseVars
  <2>2. ASSUME pst = "start"
        PROVE  pc' # "read" /\ (pc' \in {"idle", "test", "incr"} => BufferEmpty)
    <3>1. CASE Begin \/ Deref \/ LoopEnd \/ Break \/ FillWhenDone
      BY <2>2, <3>1 DEF ParserInv, Begin, Deref, LoopEnd, Break, FillWhenDone
    <3>2. CASE Fill
      BY <2>2, <3>2 DEF ParserInv, Fill
    <3>3. CASE HeaderAlreadyRead \/ HeaderReadFails \/ ParseGarbage
      BY <2>2, <3>3 DEF HeaderAlreadyRead, HeaderReadFails, ParseGarbage
    <3>4. CASE BodyReadFails \/ ReadDone \/ ParseOverLimit \/ ParseUnexpectedBody
      BY <2>2, <3>4 DEF ParserInv, BodyReadFails, ReadDone, ParseOverLimit, ParseUnexpectedBody
    <3> QED BY <1>2, <3>1, <3>2, <3>3, <3>4 DEF ThreadOnly
  <2> QED BY <2>1, <2>2 DEF ParserInv, BufferEmpty, NextTok, DataTok
<1>3. CASE Receive
  <2>1. /\ UNCHANGED <<srv, sizes, stream, used, pst, rem, fields, chunk_body, filled, pc>>
        /\ pc \in {"header", "read"}
    BY <1>3 DEF Receive, NeedsMore, srvVars, parseVars
  <2> QED BY <2>1 DEF ParserInv, BufferEmpty, NextTok, DataTok
<1>4. CASE ChunkResponse
  <2>1. /\ UNCHANGED <<rcvd, filled, pc>> /\ pc = "idle"
        /\ used' = rcvd /\ pst' = "start" /\ fields' = {} /\ chunk_body' = <<>>
    BY <1>4 DEF ChunkResponse
  <2>2. rcvd = 0 => filled = 0
    BY DEF ParserInv
  <2> QED BY <2>1, <2>2 DEF ParserInv, BufferEmpty
<1>5. CASE ParseHeader
  <2>1. /\ UNCHANGED <<srv, sizes, stream, rcvd, chunk_body, filled>>
        /\ used' = used + 1 /\ fields' = {"head"} /\ pst = "start"
        /\ Next1.kind \in HeaderKinds /\ pst' = ParserAfter[Next1.kind] /\ ~BufferEmpty
    BY <1>5 DEF ParseHeader, srvVars
  <2>2. used + 1 \in 1 .. Len(stream)
    BY <2>1, Next1Type
  <2>3. used = 0 /\ Next1 = stream[1] /\ stream # <<>>
    BY <2>1, <2>2 DEF StreamInv, Next1
  <2>4. filled = 0 /\ chunk_body = <<>>
    BY <2>1, <2>3 DEF ParserInv
  <2>5. \/ stream[1].kind = "hdr_chunked" /\ pst' = "chunk_header"
        \/ stream[1].kind = "hdr_length" /\ pst' = "body"
        \/ stream[1].kind = "hdr_none" /\ pst' = "complete"
    BY <2>1, <2>3 DEF HeaderKinds, ParserAfter
  <2>6. pst' = "chunk_header" => NextTok(1, 0)'
    BY <2>1, <2>3, <2>5 DEF StreamInv, NextTok
  <2>7. pst' = "complete" => sizes = <<>> /\ srv \in {"finished", "closed"}
    BY <2>3, <2>5 DEF StreamInv
  <2>8. used' = 1 /\ filled' = 0 /\ chunk_body' = <<>>
    BY <2>1, <2>3, <2>4
  <2>9. (pst = "chunk_header" => NextTok(used, filled))'
    BY <2>6, <2>8
  <2> QED BY <2>1, <2>3, <2>5, <2>7, <2>8, <2>9 DEF ParserInv
<1>6. CASE ParseChunkHeader
  <2>1. /\ UNCHANGED <<srv, sizes, stream, rcvd, fields, filled, pc>>
        /\ used' = used + 1 /\ pst' = "chunk_body" /\ pst = "chunk_header" /\ chunk_body' = <<>>
        /\ Next1.kind = "size" /\ rem' = Next1.val /\ ~BufferEmpty
    BY <1>6 DEF ParseChunkHeader, OnChunkHeader, srvVars
  <2>2. used + 1 \in 1 .. Len(stream) /\ Next1 = stream[used + 1]
    BY <2>1, Next1Type DEF Next1
  <2>3. NextTok(used, filled) /\ stream[1].kind = "hdr_chunked" /\ "head" \in fields
    BY <2>1 DEF ParserInv
  <2>4. stream[used + 1].chunk = filled + 1 /\ stream[used + 1].kind = "size"
    BY <2>1, <2>2, <2>3 DEF NextTok
  <2>5. ChunkAt(used + 1, filled + 1)
    BY <2>2, <2>4 DEF StreamInv
  <2>6. /\ filled + 1 \in 1 .. Len(sizes) /\ rem' = sizes[filled + 1]
        /\ sizes[filled + 1] \in Nat \ {0}
    BY <2>1, <2>2, <2>5 DEF ChunkAt
  <2>7. sizes[filled + 1] - rem' = 0 /\ rem' \in 1 .. sizes[filled + 1] /\ used' - 0 = used + 1
    BY <2>1, <2>6
  <2>8. Len(chunk_body') = 0
    BY <2>1, EmptySeqs
  <2> QED BY <2>1, <2>2, <2>3, <2>4, <2>6, <2>7, <2>8 DEF ParserInv
<1>7. CASE ParseLast
  <2>1. /\ UNCHANGED <<srv, sizes, stream, rcvd, filled, pc>> /\ fields \subseteq fields'
        /\ used' = used + 1 /\ pst' = "complete" /\ pst = "chunk_header" /\ chunk_body' = <<>>
        /\ Next1.kind = "last" /\ ~BufferEmpty
    BY <1>7 DEF ParseLast, OnChunkHeader, srvVars
  <2>2. used + 1 \in 1 .. Len(stream) /\ Next1 = stream[used + 1]
    BY <2>1, Next1Type DEF Next1
  <2>3. NextTok(used, filled) /\ "head" \in fields
    BY <2>1 DEF ParserInv
  <2>4. filled = Len(sizes)
    BY <2>1, <2>2, <2>3 DEF NextTok
  <2>5. srv \in {"finished", "closed"}
    BY <2>1, <2>2 DEF StreamInv
  <2> QED BY <2>1, <2>2, <2>3, <2>4, <2>5 DEF ParserInv
<1>8. CASE ParseChunkPart \/ ParseChunkEnd
  <2>1. /\ UNCHANGED <<srv, sizes, stream, rcvd, fields>> /\ pst = "chunk_body"
        /\ chunk_body' = chunk_body \o SubSeq(stream, used + 1, used + Piece)
        /\ used' = used + Piece /\ ~BufferEmpty
    BY <1>8 DEF ParseChunkPart, ParseChunkEnd, Return, srvVars
  <2>2. PICK i, q : i = filled + 1 /\ q = sizes[i] - rem
    OBVIOUS
  <2>3. /\ i \in 1 .. Len(sizes) /\ sizes[i] \in Nat \ {0} /\ q \in Nat /\ rem \in 1 .. sizes[i]
        /\ used - q \in 1 .. Len(stream)
        /\ ChunkAt(used - q, i)
    BY <2>1, <2>2, InChunk
  <2>4. /\ Len(chunk_body') = q + Piece
        /\ \A j \in 1 .. q + Piece : chunk_body'[j] = DataTok(i, j)
    BY <2>1, <2>2, PieceAppended
  <2>5. /\ stream[used - q].kind = "size" /\ stream[used - q].chunk = i
        /\ "head" \in fields /\ stream[1].kind = "hdr_chunked"
    BY <2>1, <2>2 DEF ParserInv
  <2>6. Piece \in Nat /\ Piece <= rem
    BY PieceType
  <2>7. CASE ParseChunkPart
    <3>1. rem' = rem - Piece /\ filled' = filled /\ pst' = "chunk_body" /\ Piece < rem
      BY <2>7 DEF ParseChunkPart
    <3>2. /\ rem' \in 1 .. sizes[i] /\ q + Piece = sizes[i] - rem' /\ used' - (q + Piece) = used - q
          /\ used' # 0
      <4>1. PICK n \in Nat, r \in Nat, d \in Nat, u \in Nat :
              n = sizes[i] /\ r = rem /\ d = Piece /\ u = used
        <5>1. sizes[i] \in Nat /\ rem \in Nat /\ Piece \in Nat /\ used \in Nat
          BY <2>3, <2>6 DEF TypeOK
        <5> QED BY <5>1, Zenon
      <4>2. d < r /\ r \in 1 .. n /\ q = n - r /\ u - q \in 1 .. Len(stream) /\ rem' = r - d
            /\ used' = u + d
        BY <2>1, <2>2, <2>3, <3>1, <4>1
      <4>3. r - d \in 1 .. n /\ q + d = n - (r - d) /\ (u + d) - (q + d) = u - q /\ u + d # 0
        BY <4>2, <2>3
      <4> QED BY <4>1, <4>2, <4>3
    <3> QED BY <2>1, <2>2, <2>3, <2>4, <2>5, <3>1, <3>2 DEF ParserInv, DataTok
  <2>8. CASE ParseChunkEnd
    <3>1. filled' = filled + 1 /\ pst' = "chunk_header" /\ Piece = rem /\ rem # 0
      BY <2>3, <2>8 DEF ParseChunkEnd
    <3>2. NextTok((used - q) + sizes[i], i)
      BY <2>3 DEF ChunkAt
    <3>3. (used - q) + sizes[i] = used' /\ i = filled' /\ used' # 0
      <4>1. PICK n \in Nat, r \in Nat, u \in Nat : n = sizes[i] /\ r = rem /\ u = used
        <5>1. sizes[i] \in Nat /\ rem \in Nat /\ used \in Nat
          BY <2>3 DEF TypeOK
        <5> QED BY <5>1, Zenon
      <4>2. q = n - r /\ used' = u + r /\ r # 0
        BY <2>1, <2>2, <3>1, <4>1
      <4> QED BY <4>1, <4>2, <2>2, <3>1, SMTT(30)
    <3>4. NextTok(used, filled)'
      BY <2>1, <3>2, <3>3 DEF NextTok
    <3> QED BY <2>1, <2>5, <3>1, <3>3, <3>4 DEF ParserInv
  <2> QED BY <1>8, <2>7, <2>8
<1>9. CASE UNCHANGED vars
  BY <1>9 DEF vars, ParserInv, BufferEmpty, NextTok, DataTok
<1> QED
  BY <1>1, <1>2, <1>3, <1>4, <1>5, <1>6, <1>7, <1>8, <1>9 DEF Next, Thread, Parse, ThreadOnly

-----------------------------------------------------------------------------
(* What the caller is told *)

\* The steps inside read() that do not return.
ReadStep ==
  \/ ParseChunkHeader \/ ParseChunkPart \/ ParseLast

\* The error code, the header of the parent response and the end of the process.
LEMMA ReturnStep ==
  ASSUME TypeOK, StreamInv, ParserInv, ReturnInv, [Next]_vars
  PROVE  ReturnInv'
<1> USE Lengths
<1>1. CASE Server
  <2>1. UNCHANGED <<finished, pc, pst, ec, read_header, resp_fields, got>>
    BY <1>1, ServerKeeps DEF clientVars, parseVars, userVars
  <2> QED BY <2>1 DEF ReturnInv
<1>2. CASE Begin \/ ChunkResponse
  <2>1. /\ got' = <<>> /\ Len(got') = 0 /\ finished' = FALSE /\ pc' \in {"test", "idle"}
        /\ pst' \in {pst, "start"} /\ UNCHANGED <<resp_fields>> /\ pc = "idle"
    BY <1>2, EmptySeqs DEF Begin, ChunkResponse, parseVars
  <2> QED BY <2>1 DEF ReturnInv
<1>3. CASE Deref
  <2>1. /\ got' = Append(got, chunk_body) /\ pc' = "incr" /\ ~finished /\ pc = "test"
        /\ UNCHANGED <<finished, pst, ec, resp_fields>>
    BY <1>3 DEF Deref, parseVars
  <2>2. /\ Len(got') = Len(got) + 1 /\ got'[Len(got) + 1] = chunk_body
        /\ \A k \in 1 .. Len(got) : got'[k] = got[k]
    <3>1. got \in Seq(Seq(Token)) /\ chunk_body \in Seq(Token)
      BY DEF TypeOK
    <3> QED BY <2>1, <3>1, AppendProperties
  <2>3. ASSUME "head" \notin resp_fields
        PROVE  pst = "start" /\ \A k \in 1 .. Len(got') : got'[k] = <<>>
    <3>1. pst = "start" /\ chunk_body = <<>> /\ \A k \in 1 .. Len(got) : got[k] = <<>>
      BY <2>1, <2>3 DEF ReturnInv, ParserInv
    <3>2. \A k \in 1 .. Len(got') : k \in 1 .. Len(got) \/ k = Len(got) + 1
      BY <2>2
    <3> QED BY <2>2, <3>1, <3>2
  <2> QED BY <2>1, <2>3 DEF ReturnInv
<1>4. CASE LoopEnd \/ Break \/ FillWhenDone
  <2>1. /\ UNCHANGED <<pst, ec, resp_fields, got>>
        /\ \/ pc' = "idle" /\ finished' = finished
           \/ pc' = "test" /\ finished' /\ pst = "complete"
        /\ pc \in {"test", "incr"}
    BY <1>4 DEF LoopEnd, Break, FillWhenDone, parseVars, userVars
  <2> QED BY <2>1 DEF ReturnInv
<1>5. CASE Fill \/ HeaderAlreadyRead \/ Receive \/ HeaderReadFails \/ ParseGarbage
  <2>1. /\ UNCHANGED <<pst, ec, resp_fields, got, finished>> /\ pc \in {"incr", "header", "read"}
    BY <1>5 DEF Fill, HeaderAlreadyRead, Receive, HeaderReadFails, ParseGarbage, NeedsMore,
                ConnectionGone, parseVars, userVars
  <2>2. ~finished
    BY <2>1 DEF ReturnInv
  <2>3. pc' = "header" => read_header'
    BY <1>5 DEF Fill, HeaderAlreadyRead, Receive, HeaderReadFails, ParseGarbage, ReturnInv
  <2>4. pc' = "terminated" => pst = "start"
    BY <1>5, <2>1 DEF Fill, HeaderAlreadyRead, Receive, HeaderReadFails, ParseGarbage,
                      NeedsMore, ConnectionGone
  <2>5. "head" \notin resp_fields => pst = "start" \/ (pc' = "read" /\ read_header')
    BY <1>5, <2>1 DEF Fill, HeaderAlreadyRead, Receive, HeaderReadFails, ParseGarbage, ReturnInv
  <2> QED BY <2>1, <2>2, <2>3, <2>4, <2>5 DEF ReturnInv
<1>6. CASE ParseHeader
  <2>1. /\ UNCHANGED <<resp_fields, got, finished, read_header>> /\ pc = "header" /\ pc' = "read"
    BY <1>6 DEF ParseHeader, userVars
  <2> QED BY <2>1 DEF ReturnInv
<1>7. CASE ReadStep
  <2>1. /\ UNCHANGED <<resp_fields, got, finished, read_header, pc>> /\ pc = "read"
    BY <1>7 DEF ReadStep, ParseChunkHeader, ParseChunkPart, ParseLast, userVars
  <2> QED BY <2>1 DEF ReturnInv, ParserInv
<1>8. CASE BodyReadFails \/ ReadDone \/ ParseOverLimit \/ ParseUnexpectedBody \/ ParseChunkEnd
  <2>1. /\ pc = "read" /\ pc' = "test" /\ UNCHANGED got
        /\ resp_fields' = IF read_header THEN fields ELSE resp_fields
        /\ finished' = (ec' \notin {"ok", "end_of_chunk"})
    BY <1>8 DEF BodyReadFails, ReadDone, ParseOverLimit, ParseUnexpectedBody, ParseChunkEnd,
                Return, userVars
  <2>2. "head" \in fields
    BY <2>1 DEF ParserInv
  <2>3. "head" \in resp_fields'
    BY <2>1, <2>2 DEF ReturnInv, ParserInv
  <2> QED BY <2>1, <2>3 DEF ReturnInv
<1>9. CASE UNCHANGED vars
  BY <1>9 DEF vars, ReturnInv
<1> QED
  BY <1>1, <1>2, <1>3, <1>4, <1>5, <1>6, <1>7, <1>8, <1>9 DEF Next, Thread, Parse, ReadStep

-----------------------------------------------------------------------------
(* What the loop is given *)

\* The data of a chunk, as a sequence of tokens.
LEMMA PayloadProperties ==
  ASSUME TypeOK, NEW i \in 1 .. Len(sizes)
  PROVE  /\ Payload(i) \in Seq(Token) /\ Len(Payload(i)) = sizes[i]
         /\ \A j \in 1 .. sizes[i] : Payload(i)[j] = DataTok(i, j)
<1>1. i \in Nat /\ sizes[i] \in Nat
  BY Lengths
<1>2. \A j \in 1 .. sizes[i] : DataTok(i, j) \in Token
  BY <1>1 DEF DataTok, Token, Kinds
<1>3. Payload(i) \in [1 .. sizes[i] -> Token] /\ DOMAIN Payload(i) = 1 .. sizes[i]
  BY <1>2 DEF Payload
<1>4. Payload(i) \in Seq(Token)
  BY <1>1, <1>3, SeqDef
<1>5. Len(Payload(i)) = sizes[i]
  BY <1>1, <1>3, <1>4, LenProperties
<1> QED BY <1>4, <1>5 DEF Payload

\* When on_chunk_body_cb_ reports the end of the chunk, the storage is the chunk.
LEMMA ChunkComplete ==
  ASSUME TypeOK, StreamInv, ParserInv, ParseChunkEnd
  PROVE  filled + 1 \in 1 .. Len(sizes) /\ chunk_body' = Payload(filled + 1)
<1>1. pst = "chunk_body" /\ Piece = rem
      /\ chunk_body' = chunk_body \o SubSeq(stream, used + 1, used + Piece)
  BY DEF ParseChunkEnd
<1>2. PICK i, q : i = filled + 1 /\ q = sizes[i] - rem
  OBVIOUS
<1>3. i \in 1 .. Len(sizes) /\ sizes[i] \in Nat /\ q \in Nat /\ rem \in 1 .. sizes[i]
  BY <1>1, <1>2, InChunk
<1>4. /\ chunk_body' \in Seq(Token) /\ Len(chunk_body') = q + Piece
      /\ \A j \in 1 .. q + Piece : chunk_body'[j] = DataTok(i, j)
  BY <1>1, <1>2, PieceAppended, ZenonT(30)
<1>5. q + Piece = sizes[i]
  <2>1. PICK n \in Nat, r \in Nat : n = sizes[i] /\ r = rem
    <3>1. sizes[i] \in Nat /\ rem \in Nat
      BY <1>3 DEF TypeOK
    <3> QED BY <3>1, Zenon
  <2>2. q = n - r /\ Piece = r
    BY <1>1, <1>2, <2>1
  <2>3. q + Piece = n
    BY <2>1, <2>2
  <2> QED BY <2>1, <2>3
<1>6. /\ Payload(i) \in Seq(Token) /\ Len(Payload(i)) = sizes[i]
      /\ \A j \in 1 .. sizes[i] : Payload(i)[j] = DataTok(i, j)
  BY <1>3, PayloadProperties
<1>7. Len(chunk_body') = Len(Payload(i))
      /\ \A j \in 1 .. Len(chunk_body') : chunk_body'[j] = Payload(i)[j]
  BY <1>4, <1>5, <1>6
<1>8. chunk_body' = Payload(i)
  BY <1>4, <1>6, <1>7, SeqEqual
<1> QED BY <1>2, <1>3, <1>8

\* The loop keeps pace with the chunks, and is given each of them whole.
LEMMA LoopStep ==
  ASSUME ReaderInv, [Next]_vars
  PROVE  LoopInv' /\ WholeChunksInOrder'
<1>0. TypeOK /\ StreamInv /\ ParserInv /\ ReturnInv /\ LoopInv /\ WholeChunksInOrder
  BY DEF ReaderInv
<1> USE <1>0, Lengths
<1>1. CASE Server
  <2>1. /\ UNCHANGED <<got, base, pst, filled, pc, finished, chunk_body>>
        /\ Len(sizes') \in Nat /\ Len(sizes) <= Len(sizes')
        /\ \A i \in 1 .. Len(sizes) : sizes'[i] = sizes[i]
    BY <1>1, ServerKeeps DEF clientVars, parseVars, userVars
  <2>2. ASSUME NEW i \in 1 .. Len(sizes)
        PROVE  Payload(i)' = Payload(i) /\ i \in 1 .. Len(sizes')
    BY <2>1 DEF Payload, DataTok
  <2>3. LoopInv'
    <3>1. ASSUME filled \in 1 .. Len(sizes), chunk_body = Payload(filled)
          PROVE  (filled \in 1 .. Len(sizes) /\ chunk_body = Payload(filled))'
      <4>1. PICK i \in 1 .. Len(sizes) : i = filled
        BY <3>1
      <4>2. Payload(i)' = Payload(i) /\ i = filled' /\ i \in 1 .. Len(sizes')
        BY <2>1, <2>2, <4>1
      <4> QED BY <2>1, <3>1, <4>1, <4>2
    <3> QED BY <2>1, <3>1 DEF LoopInv
  <2>4. WholeChunksInOrder'
    <3> SUFFICES ASSUME NEW k \in 2 .. Len(got)
                 PROVE  (\/ base + k - 1 <= Len(sizes) /\ got[k] = Payload(base + k - 1)
                         \/ got[k] = <<>> /\ k = Len(got) /\ pst = "complete"
                            /\ filled = base + k - 2)'
      BY <2>1 DEF WholeChunksInOrder
    <3>1. CASE base + k - 1 <= Len(sizes) /\ got[k] = Payload(base + k - 1)
      <4>1. base + k - 1 \in 1 .. Len(sizes)
        BY <3>1 DEF TypeOK
      <4>2. PICK i \in 1 .. Len(sizes) : i = base + k - 1
        BY <4>1
      <4>3. Payload(i)' = Payload(i) /\ i = base' + k - 1 /\ i <= Len(sizes')
        BY <2>1, <2>2, <4>2
      <4> QED BY <2>1, <3>1, <4>2, <4>3
    <3>2. CASE got[k] = <<>> /\ k = Len(got) /\ pst = "complete" /\ filled = base + k - 2
      BY <2>1, <3>2
    <3> QED BY <3>1, <3>2 DEF WholeChunksInOrder
  <2> QED BY <2>3, <2>4
<1>2. CASE Begin \/ ChunkResponse
  <2>1. /\ got' = <<>> /\ Len(got') = 0
        /\ \/ pc' = "idle"
           \/ pc' = "test" /\ filled' = base'
    BY <1>2, EmptySeqs DEF Begin, ChunkResponse, parseVars
  <2> QED BY <2>1 DEF LoopInv, WholeChunksInOrder
<1>3. CASE Deref
  <2>1. /\ got' = Append(got, chunk_body) /\ pc' = "incr" /\ ~finished /\ pc = "test"
        /\ UNCHANGED <<sizes, filled, base, pst, chunk_body>>
    BY <1>3 DEF Deref, parseVars, srvVars
  <2>2. /\ Len(got') = Len(got) + 1 /\ got'[Len(got) + 1] = chunk_body
        /\ \A k \in 1 .. Len(got) : got'[k] = got[k]
    <3>1. got \in Seq(Seq(Token)) /\ chunk_body \in Seq(Token)
      BY DEF TypeOK
    <3> QED BY <2>1, <3>1, AppendProperties
  <2>3. \/ got = <<>> /\ filled = base
        \/ got # <<>> /\ pst = "chunk_header" /\ filled = base + Len(got)
             /\ filled \in 1 .. Len(sizes) /\ chunk_body = Payload(filled)
        \/ got # <<>> /\ pst = "complete" /\ filled = base + Len(got) - 1
    BY <2>1 DEF LoopInv
  <2>4. filled \in Nat /\ base \in Nat
    BY DEF TypeOK
  <2>5. LoopInv'
    <3>1. got' # <<>>
      BY <2>2, EmptySeqs
    <3> QED BY <2>1, <2>2, <2>3, <2>4, <3>1 DEF LoopInv
  <2>6. ASSUME NEW k \in 2 .. Len(got')
        PROVE  \/ base + k - 1 <= Len(sizes) /\ got'[k] = Payload(base + k - 1)
               \/ got'[k] = <<>> /\ k = Len(got') /\ pst = "complete" /\ filled = base + k - 2
    <3>1. CASE k \in 2 .. Len(got)
      <4>1. got'[k] = got[k] /\ got # <<>>
        BY <2>2, <3>1
      <4>2. ~(k = Len(got) /\ filled = base + k - 2)
        BY <2>3, <2>4, <4>1
      <4> QED BY <3>1, <4>1, <4>2 DEF WholeChunksInOrder
    <3>2. CASE k = Len(got) + 1
      <4>1. got'[k] = chunk_body /\ k = Len(got') /\ got # <<>>
        BY <2>2, <2>6, <3>2
      <4>2. CASE pst = "chunk_header"
        <5>1. filled = base + k - 1 /\ filled <= Len(sizes) /\ chunk_body = Payload(filled)
          BY <2>3, <2>4, <3>2, <4>1, <4>2
        <5> QED BY <4>1, <5>1
      <4>3. CASE pst = "complete"
        <5>1. filled = base + k - 2 /\ chunk_body = <<>>
          BY <2>3, <2>4, <3>2, <4>1, <4>3 DEF ParserInv
        <5> QED BY <4>1, <4>3, <5>1
      <4> QED BY <2>3, <4>1, <4>2, <4>3
    <3> QED BY <2>2, <2>6, <3>1, <3>2
  <2>7. \A k \in 2 .. Len(got') : Payload(base + k - 1)' = Payload(base + k - 1)
    BY <2>1 DEF Payload, DataTok
  <2>8. WholeChunksInOrder'
    BY <2>1, <2>6, <2>7 DEF WholeChunksInOrder
  <2> QED BY <2>5, <2>8
<1>4. ASSUME UNCHANGED <<sizes, got, base>>,
             UNCHANGED <<pst, filled>> \/ pst # "complete"
      PROVE  WholeChunksInOrder'
  <2>1. \A k \in 2 .. Len(got) : Payload(base + k - 1)' = Payload(base + k - 1)
    BY <1>4 DEF Payload, DataTok
  <2> QED BY <1>4, <2>1 DEF WholeChunksInOrder
<1>5. CASE LoopEnd \/ Break
  <2>1. UNCHANGED <<sizes, got, base, pst, filled>> /\ pc' = "idle"
    BY <1>5 DEF LoopEnd, Break, parseVars, userVars, srvVars
  <2> QED BY <1>4, <2>1 DEF LoopInv
<1>6. CASE FillWhenDone
  <2>1. UNCHANGED <<sizes, got, base, pst, filled>> /\ pc' = "test" /\ finished' /\ pc = "incr"
    BY <1>6 DEF FillWhenDone, parseVars, userVars, srvVars
  <2> QED BY <1>4, <2>1 DEF LoopInv
<1>7. CASE Fill \/ HeaderAlreadyRead \/ Receive \/ HeaderReadFails \/ ParseGarbage
  <2>1. /\ UNCHANGED <<sizes, got, base, pst, filled>>
        /\ pc \in {"header", "read"} \/ (pc = "incr" /\ pst # "complete")
        /\ pc' \in {"header", "read", "terminated"}
    BY <1>7 DEF Fill, HeaderAlreadyRead, Receive, HeaderReadFails, ParseGarbage, NeedsMore,
                ConnectionGone, parseVars, userVars, srvVars
  <2> QED BY <1>4, <2>1 DEF LoopInv
<1>8. CASE BodyReadFails \/ ReadDone \/ ParseOverLimit \/ ParseUnexpectedBody
  <2>1. /\ UNCHANGED <<sizes, got, base, pst, filled>> /\ pc = "read" /\ pc' = "test"
        /\ finished' \/ pst = "complete"
    BY <1>8 DEF BodyReadFails, ReadDone, ParseOverLimit, ParseUnexpectedBody, Return,
                parseVars, userVars, srvVars
  <2> QED BY <1>4, <2>1 DEF LoopInv
<1>9. CASE ParseHeader \/ ReadStep
  <2>1. /\ UNCHANGED <<sizes, got, base, filled>> /\ pst # "complete"
        /\ pc \in {"header", "read"} /\ pc' = "read"
    BY <1>9 DEF ParseHeader, ReadStep, ParseChunkHeader, ParseChunkPart, ParseLast, userVars, srvVars
  <2> QED BY <1>4, <2>1 DEF LoopInv
<1>10. CASE ParseChunkEnd
  <2>1. /\ UNCHANGED <<sizes, got, base>> /\ pst = "chunk_body" /\ pst' = "chunk_header"
        /\ pc = "read" /\ pc' = "test" /\ filled' = filled + 1
    BY <1>10 DEF ParseChunkEnd, Return, userVars, srvVars
  <2>2. filled + 1 \in 1 .. Len(sizes) /\ chunk_body' = Payload(filled + 1)
    BY <1>10, ChunkComplete
  <2>3. Payload(filled)' = Payload(filled + 1)
    BY <2>1 DEF Payload, DataTok
  <2>4. filled' = base + Len(got) /\ got # <<>>
    <3>1. filled = base + Len(got) - 1 /\ filled \in Nat /\ base \in Nat /\ got # <<>>
      BY <2>1 DEF LoopInv, TypeOK
    <3> QED BY <2>1, <3>1
  <2>5. LoopInv'
    BY <2>1, <2>2, <2>3, <2>4 DEF LoopInv
  <2> QED BY <1>4, <2>1, <2>5
<1>11. CASE UNCHANGED vars
  <2>1. UNCHANGED <<sizes, got, base, pst, filled, pc, finished, chunk_body>>
    BY <1>11 DEF vars
  <2> QED BY <1>4, <2>1 DEF LoopInv, Payload, DataTok
<1> QED
  BY <1>1, <1>2, <1>3, <1>5, <1>6, <1>7, <1>8, <1>9, <1>10, <1>11
  DEF Next, Thread, Parse, ReadStep

-----------------------------------------------------------------------------
(* The theorems *)

\* The invariant of the reader: where the parser is in the server's stream, what the
\* storage holds, and how far the loop is (fill_in_next_chunk and its callbacks).
THEOREM ReaderInvariant == Spec => []ReaderInv
<1>1. Init => ReaderInv
  <2> SUFFICES ASSUME Init PROVE ReaderInv
    OBVIOUS
  <2>1. TypeOK
    BY TypeInit
  <2>2. Len(stream) = 0 /\ Len(sizes) = 0 /\ Len(got) = 0
    BY EmptySeqs DEF Init
  <2>3. StreamInv
    BY <2>2 DEF Init, StreamInv
  <2>4. ParserInv
    BY DEF Init, ParserInv, BufferEmpty
  <2>5. ReturnInv /\ LoopInv
    BY <2>2 DEF Init, ReturnInv, LoopInv
  <2>6. WholeChunksInOrder
    BY <2>2 DEF WholeChunksInOrder
  <2> QED BY <2>1, <2>3, <2>4, <2>5, <2>6 DEF ReaderInv
<1>2. ReaderInv /\ [Next]_vars => ReaderInv'
  BY TypeStep, StreamStep, ParserStep, ReturnStep, LoopStep DEF ReaderInv
<1> QED BY <1>1, <1>2, PTL DEF Spec

\* However the bytes are segmented and wherever the connection is cut, a loop over
\* chunk_response() is given, from its second element on, the chunks of the server,
\* whole, in order and each once.
THEOREM ChunksWholeAndInOrder == Spec => []WholeChunksInOrder
<1>1. ReaderInv => WholeChunksInOrder
  BY DEF ReaderInv
<1> QED BY <1>1, ReaderInvariant, PTL

\* A loop that ends without an error code in ec_ was given everything.
THEOREM TruncationLeavesError == Spec => []NoSilentTruncation
<1>1. ReaderInv => NoSilentTruncation
  BY DEF ReaderInv, ReturnInv, ParserInv, NoSilentTruncation
<1> QED BY <1>1, ReaderInvariant, PTL

\* The noexcept operator++ ends the process only while it reads the response head.
THEOREM BodyNeverTerminates == Spec => []TerminateOnlyInHeader
<1>1. ReaderInv => TerminateOnlyInHeader
  BY DEF ReaderInv, ReturnInv, ParserInv, TerminateOnlyInHeader
<1> QED BY <1>1, ReaderInvariant, PTL

\* The parent response has its header before the loop body is given data.
THEOREM HeaderIsFirst == Spec => []HeaderBeforeData
<1>1. ReaderInv => HeaderBeforeData
  BY DEF ReaderInv, ReturnInv, HeaderBeforeData
<1> QED BY <1>1, ReaderInvariant, PTL
=============================================================================
