-------------------------- MODULE ChunkDeliveryProofs --------------------------
(***************************************************************************)
(* More proofs about ChunkedResponse, for every value of its constants:    *)
(* what the first element of a loop is, and that one loop over one         *)
(* chunk_response() implements ChunkDelivery.                              *)
(***************************************************************************)
EXTENDS ChunkedResponseProofs

-----------------------------------------------------------------------------
(* One loop over one chunk_response() *)

\* The invariant of a single loop holds at the start.
LEMMA OneLoopInit == Init => OneLoopInv
BY EmptySeqs DEF Init, OneLoopInv

\* The token that completed a message stays where it is: the server cannot take back
\* what the client has parsed.
LEMMA UsedKept ==
  ASSUME ReaderInv, Server
  PROVE  UNCHANGED clientVars /\ (used > 0 => stream'[used] = stream[used])
<1>1. TypeOK /\ StreamInv
  BY DEF ReaderInv
<1> QED BY <1>1, ServerKeeps, Lengths

\* Every step keeps the invariant of a single loop, if the caller calls
\* chunk_response() once and loops over it once.
LEMMA OneLoopStep ==
  ASSUME MaxOpens <= 1, MaxLoops <= 1, ReaderInv, OneLoopInv, [Next]_vars
  PROVE  OneLoopInv'
<1>0. TypeOK /\ StreamInv /\ ParserInv /\ ReturnInv /\ LoopInv
  BY DEF ReaderInv
<1> USE <1>0, Lengths, BoundsAssumption
<1>1. CASE Server
  <2>1. UNCHANGED <<opens, loops, base, pc, got, finished, filled, pst, used>>
    BY <1>1, UsedKept DEF clientVars, parseVars, userVars
  <2> QED BY <1>1, <2>1, UsedKept DEF OneLoopInv
<1>2. CASE ChunkResponse
  <2>1. /\ opens' = opens + 1 /\ opens < MaxOpens /\ pc = "idle" /\ pst' = "start"
        /\ finished' = FALSE /\ got' = <<>> /\ UNCHANGED <<pc, loops, filled, base>>
    BY <1>2 DEF ChunkResponse
  <2>2. opens = 0 /\ opens' = 1
    BY <2>1 DEF TypeOK
  <2> QED BY <2>1, <2>2 DEF OneLoopInv
<1>3. CASE Begin
  <2>1. /\ loops' = loops + 1 /\ loops < MaxLoops /\ finished' = FALSE /\ got' = <<>>
        /\ base' = filled /\ pc' = "test" /\ opens > 0
        /\ UNCHANGED <<stream, used, pst, opens, filled>>
    BY <1>3 DEF Begin, srvVars, parseVars
  <2>2. loops = 0 /\ loops' = 1 /\ opens # 0
    BY <2>1 DEF TypeOK
  <2> QED BY <2>1, <2>2 DEF OneLoopInv
<1>4. CASE Deref
  <2>1. /\ pc = "test" /\ ~finished /\ got' = Append(got, chunk_body) /\ pc' = "incr"
        /\ UNCHANGED <<stream, used, pst, opens, loops, base, finished, filled>>
    BY <1>4 DEF Deref, srvVars, parseVars
  <2>2. got' # <<>> /\ got'[1] = IF got = <<>> THEN chunk_body ELSE got[1]
    BY <2>1, AppendProperties DEF TypeOK
  <2>3. got = <<>> => chunk_body = <<>>
    BY <2>1 DEF OneLoopInv, ParserInv
  <2> QED BY <2>1, <2>2, <2>3 DEF OneLoopInv
<1>5. CASE LoopEnd \/ Break \/ FillWhenDone \/ Fill \/ HeaderAlreadyRead \/ Receive
           \/ HeaderReadFails \/ ParseGarbage
  <2>1. UNCHANGED <<stream, used, pst, opens, loops, base, got, filled>>
    BY <1>5 DEF LoopEnd, Break, FillWhenDone, Fill, HeaderAlreadyRead, Receive,
                HeaderReadFails, ParseGarbage, srvVars, parseVars, userVars
  <2>2. pc # "idle" /\ (pc' = "test" => pc = "incr")
    BY <1>5 DEF LoopEnd, Break, FillWhenDone, Fill, HeaderAlreadyRead, Receive, NeedsMore,
                HeaderReadFails, ConnectionGone, ParseGarbage
  <2>3. pc = "incr" => got # <<>>
    BY DEF LoopInv
  <2> QED BY <2>1, <2>2, <2>3 DEF OneLoopInv
<1>6. CASE ReadDone \/ BodyReadFails \/ ParseOverLimit \/ ParseUnexpectedBody
  <2>1. /\ UNCHANGED <<stream, used, pst, opens, loops, base, got, filled>>
        /\ pc = "read"
    BY <1>6 DEF ReadDone, BodyReadFails, ParseOverLimit, ParseUnexpectedBody, Return,
                srvVars, parseVars, userVars
  <2>2. got # <<>>
    BY <2>1 DEF LoopInv
  <2> QED BY <2>1, <2>2 DEF OneLoopInv
<1>7. CASE ParseHeader \/ ParseChunkHeader \/ ParseLast \/ ParseChunkPart \/ ParseChunkEnd
  <2>1. /\ UNCHANGED <<stream, opens, loops, base, got>> /\ pc \in {"header", "read"}
    BY <1>7 DEF ParseHeader, ParseChunkHeader, ParseLast, ParseChunkPart, ParseChunkEnd,
                Return, srvVars, userVars
  <2>2. got # <<>>
    BY <2>1 DEF LoopInv
  <2>3. pst' = "complete" => used' > 0 /\ stream[used'].kind \in {"last", "hdr_none"}
    <3>1. CASE ParseHeader \/ ParseLast
      <4>1. used' = used + 1 /\ ~BufferEmpty
        BY <3>1 DEF ParseHeader, ParseLast
      <4>2. pst' = "complete" => Next1.kind \in {"last", "hdr_none"}
        BY <3>1 DEF ParseHeader, ParseLast, ParserAfter, HeaderKinds
      <4> QED BY <4>1, <4>2 DEF Next1
    <3>2. CASE ParseChunkHeader \/ ParseChunkPart \/ ParseChunkEnd
      BY <3>2 DEF ParseChunkHeader, ParseChunkPart, ParseChunkEnd
    <3> QED BY <1>7, <3>1, <3>2
  <2> QED BY <2>1, <2>2, <2>3 DEF OneLoopInv
<1>8. CASE UNCHANGED vars
  BY <1>8 DEF vars, OneLoopInv
<1> QED
  BY <1>1, <1>2, <1>3, <1>4, <1>5, <1>6, <1>7, <1>8 DEF Next, Thread, Parse

-----------------------------------------------------------------------------
(* What the caller has been handed *)

\* The chunks handed over, read off what the loop was given: without the first element
\* and, once the loop was given the element of the last-chunk, without that one.
LEMMA Handed ==
  ASSUME ReaderInv, OneLoopInv
  PROVE  /\ got = <<>> => Delivered = <<>>
         /\ got # <<>> /\ filled # Len(got) - 2 => Delivered = SubSeq(got, 2, Len(got))
         /\ got # <<>> /\ filled = Len(got) - 2 /\ filled = Len(sizes) =>
              Delivered = SubSeq(got, 2, Len(got) - 1)
<1>0. TypeOK /\ StreamInv /\ ParserInv /\ LoopInv /\ WholeChunksInOrder /\ base = 0
  BY DEF ReaderInv, OneLoopInv
<1> USE <1>0, Lengths
<1>1. filled \in Nat /\ \A k \in 1 .. Len(got) : got[k] \in Seq(Token)
  BY ElementOfSeq DEF TypeOK
<1>2. ASSUME got = <<>> PROVE Delivered = <<>>
  BY <1>2, EmptySeqs, SubSeqProperties DEF Delivered, TypeOK
<1>3. ASSUME got # <<>>, filled # Len(got) - 2
      PROVE  Delivered = SubSeq(got, 2, Len(got))
  <2>1. CASE Len(got) = 1
    <3>1. got[Len(got)] = <<>> /\ Delivered = SubSeq(got, 2, 0)
      BY <1>3, <2>1 DEF Delivered, OneLoopInv
    <3> QED BY <2>1, <3>1, SubSeqProperties
  <2>2. CASE Len(got) >= 2
    <3>1. PICK k \in 2 .. Len(got) : k = Len(got)
      BY <2>2
    <3>2. k - 1 \in 1 .. Len(sizes) /\ got[k] = Payload(k - 1)
      BY <1>1, <1>3, <3>1 DEF WholeChunksInOrder
    <3>3. got[k] # <<>>
      BY <3>2, PayloadProperties, EmptySeqs
    <3> QED BY <1>3, <3>1, <3>3 DEF Delivered
  <2>3. Len(got) # 0 /\ Len(got) \in Nat
    BY <1>3
  <2>4. \A n \in Nat : n # 0 => n = 1 \/ n >= 2
    OBVIOUS
  <2> QED BY <2>1, <2>2, <2>3, <2>4
<1>4. ASSUME got # <<>>, filled = Len(got) - 2, filled = Len(sizes)
      PROVE  Delivered = SubSeq(got, 2, Len(got) - 1)
  <2>1. PICK k \in 2 .. Len(got) : k = Len(got)
    BY <1>1, <1>4
  <2>2. ~(base + k - 1 <= Len(sizes))
    BY <1>4, <2>1
  <2>3. got[k] = <<>>
    BY <2>1, <2>2 DEF WholeChunksInOrder
  <2> QED BY <1>4, <2>1, <2>3 DEF Delivered
<1> QED BY <1>2, <1>3, <1>4

-----------------------------------------------------------------------------
(* The refinement, step by step *)

\* Nothing shows of a message without an end while the server still has to write it.
LEMMA OpenWire ==
  ASSUME ReaderInv, srv \in {"start", "chunked", "length"}
  PROVE  /\ Wire = "open"
         /\ \A p \in 1 .. Len(stream) : stream[p].kind \notin {"last", "hdr_none"}
<1>0. TypeOK /\ StreamInv
  BY DEF ReaderInv
<1>1. ASSUME NEW p \in 1 .. Len(stream) PROVE stream[p].kind \notin {"last", "hdr_none"}
  <2>1. stream # <<>> /\ srv \in {"chunked", "length"}
    BY <1>0, <1>1, EmptySeqs DEF StreamInv
  <2>2. stream[1].kind \in {"hdr_chunked", "hdr_length"}
    BY <1>0, <2>1 DEF StreamInv
  <2>3. stream[p].kind \in HeaderKinds => p = 1
    BY <1>0 DEF StreamInv
  <2>4. stream[p].kind # "last"
    BY <1>0, <2>1 DEF StreamInv
  <2> QED BY <2>2, <2>3, <2>4 DEF HeaderKinds
<1> QED BY <1>1 DEF Wire

\* The same as an implication, for the state after a step.
LEMMA OpenWireAlways ==
  ReaderInv => (srv \in {"start", "chunked", "length"} => Wire = "open")
BY OpenWire

\* The server and the network write, end or cut the message (do_GET of
\* chunk_server_ex.py), or do nothing that shows.
LEMMA ServerImplements ==
  ASSUME ReaderInv, ReaderInv', Server
  PROVE  [Delivery!Next]_(Delivery!vars)
<1>0. TypeOK /\ StreamInv
  BY DEF ReaderInv
<1>01. srv' \in {"start", "chunked", "length"} => Wire' = "open"
  <2>1. (srv \in {"start", "chunked", "length"} => Wire = "open")'
    BY OpenWireAlways, PTL
  <2> QED BY <2>1
<1>1. UNCHANGED <<Delivered, Status>>
  BY <1>0, ServerKeeps DEF clientVars, parseVars, userVars, Delivered, Status
<1>2. CASE SendHeader
  <2>1. UNCHANGED sizes /\ Wire = "open"
    BY <1>2, OpenWire DEF SendHeader
  <2>2. Len(stream') = 1 /\ (stream'[1].kind = "hdr_none" \/ srv' \in {"chunked", "length"})
    BY <1>0, <1>2, SendHeaderEffect
  <2>3. CASE stream'[1].kind = "hdr_none"
    <3>1. 1 \in 1 .. Len(stream')
      BY <2>2
    <3>2. Wire' = "ended"
      BY <2>3, <3>1 DEF Wire
    <3> QED BY <1>1, <2>1, <3>2 DEF Delivery!Next, Delivery!End
  <2>4. CASE srv' \in {"chunked", "length"}
    <3>1. Wire' = "open"
      BY <1>01, <2>4
    <3> QED BY <1>1, <2>1, <3>1 DEF Delivery!vars
  <2> QED BY <2>2, <2>3, <2>4
<1>3. CASE WriteChunk
  <2>1. srv = "chunked" /\ srv' = "chunked" /\ \E n \in 1 .. MaxSize : sizes' = Append(sizes, n)
    BY <1>3 DEF WriteChunk
  <2>2. Wire = "open" /\ Wire' = "open"
    BY <1>01, <2>1, OpenWire
  <2> QED BY <1>1, <2>1, <2>2 DEF Delivery!Next, Delivery!Write
<1>4. CASE WriteLast
  <2>1. UNCHANGED sizes /\ Wire = "open"
    BY <1>4, OpenWire DEF WriteLast
  <2>2. Len(stream') = Len(stream) + 1 /\ stream'[Len(stream) + 1].kind = "last"
    BY <1>0, <1>4, WriteLastEffect
  <2>3. Len(stream) + 1 \in 1 .. Len(stream')
    BY <1>0, <2>2, Lengths
  <2>4. Wire' = "ended"
    BY <2>2, <2>3 DEF Wire
  <2> QED BY <1>1, <2>1, <2>4 DEF Delivery!Next, Delivery!End
<1>5. CASE WriteLengthBody
  <2>1. /\ UNCHANGED sizes /\ Wire = "open" /\ srv' = "finished"
        /\ \A p \in 1 .. Len(stream) : stream[p].kind \notin {"last", "hdr_none"}
    BY <1>5, OpenWire DEF WriteLengthBody
  <2>2. /\ Len(stream') = Len(stream) + 1 /\ stream'[Len(stream) + 1].kind = "data"
        /\ \A p \in 1 .. Len(stream) : stream'[p] = stream[p]
    BY <1>0, <1>5, WriteLengthBodyEffect
  <2>3. \A p \in 1 .. Len(stream') : stream'[p].kind \notin {"last", "hdr_none"}
    BY <1>0, <2>1, <2>2, Lengths
  <2>4. Wire' = "open"
    BY <2>1, <2>3 DEF Wire
  <2> QED BY <1>1, <2>1, <2>4 DEF Delivery!vars
<1>6. CASE CloseConnection
  <2>1. UNCHANGED sizes /\ srv # "closed" /\ srv' = "closed"
    BY <1>6 DEF CloseConnection
  <2>2. /\ Len(stream') \in rcvd .. Len(stream)
        /\ \A p \in 1 .. Len(stream') : stream'[p] = stream[p]
    BY <1>0, <1>6, CloseEffect
  <2>3. Wire \in {"ended", "open"} /\ Wire' \in {"ended", "cut"}
    BY <2>1 DEF Wire
  <2>4. ASSUME Wire' = "ended" PROVE Wire = "ended"
    <3>1. PICK p \in 1 .. Len(stream') : stream'[p].kind \in {"last", "hdr_none"}
      BY <2>1, <2>4 DEF Wire
    <3>2. p \in 1 .. Len(stream) /\ stream[p].kind \in {"last", "hdr_none"}
      BY <1>0, <2>2, <3>1, Lengths
    <3> QED BY <3>2 DEF Wire
  <2>5. CASE Wire' = "ended"
    BY <1>1, <2>1, <2>4, <2>5 DEF Delivery!vars
  <2>6. CASE Wire' = "cut"
    BY <1>1, <2>1, <2>3, <2>6 DEF Delivery!Next, Delivery!Cut
  <2> QED BY <2>3, <2>5, <2>6
<1> QED BY <1>2, <1>3, <1>4, <1>5, <1>6 DEF Server

\* Steps of the client that neither hand a chunk over nor end the loop do not show.
LEMMA Unseen ==
  ASSUME UNCHANGED <<srvVars, got>>, Status = "streaming", Status' = "streaming"
  PROVE  UNCHANGED Delivery!vars
BY DEF Delivery!vars, srvVars, Delivered, Wire

\* The elements from the second on, of a sequence and of the sequence with one more.
LEMMA FromSecond ==
  ASSUME NEW S, NEW s \in Seq(S), s # <<>>, NEW t \in Seq(S), Len(t) = Len(s) + 1,
         \A k \in 1 .. Len(s) : t[k] = s[k]
  PROVE  /\ SubSeq(s, 2, Len(s)) \in Seq(S) /\ Len(SubSeq(s, 2, Len(s))) = Len(s) - 1
         /\ SubSeq(t, 2, Len(s)) = SubSeq(s, 2, Len(s))
         /\ SubSeq(t, 2, Len(s) + 1) = Append(SubSeq(s, 2, Len(s)), t[Len(s) + 1])
<1>1. PICK n \in Nat : n = Len(s) /\ n # 0
  BY LenProperties, EmptySeq
<1>2. /\ \A k \in 1 .. n : s[k] \in S
      /\ \A k \in 1 .. n + 1 : t[k] \in S
  BY <1>1, ElementOfSeq
<1>3. PICK a : a = SubSeq(s, 2, n)
  OBVIOUS
<1>4. a \in Seq(S) /\ Len(a) = n - 1 /\ \A k \in 1 .. n - 1 : a[k] = s[k + 1]
  <2>1. \A k \in 2 .. n : s[k] \in S
    BY <1>2
  <2>2. /\ a \in Seq(S) /\ Len(a) = IF 2 <= n THEN n - 2 + 1 ELSE 0
        /\ \A k \in 1 .. n - 2 + 1 : a[k] = s[2 + k - 1]
    BY <1>1, <1>3, <2>1, SubSeqProperties
  <2>3. \A k \in 1 .. n - 1 : k \in 1 .. n - 2 + 1 /\ 2 + k - 1 = k + 1
    BY <1>1
  <2>4. (IF 2 <= n THEN n - 2 + 1 ELSE 0) = n - 1
    BY <1>1
  <2> QED BY <2>2, <2>3, <2>4
<1>5. PICK b : b = SubSeq(t, 2, n)
  OBVIOUS
<1>6. b \in Seq(S) /\ Len(b) = n - 1 /\ \A k \in 1 .. n - 1 : b[k] = t[k + 1]
  <2>1. \A k \in 2 .. n : t[k] \in S
    BY <1>2
  <2>2. /\ b \in Seq(S) /\ Len(b) = IF 2 <= n THEN n - 2 + 1 ELSE 0
        /\ \A k \in 1 .. n - 2 + 1 : b[k] = t[2 + k - 1]
    BY <1>1, <1>5, <2>1, SubSeqProperties
  <2>3. \A k \in 1 .. n - 1 : k \in 1 .. n - 2 + 1 /\ 2 + k - 1 = k + 1
    BY <1>1
  <2>4. (IF 2 <= n THEN n - 2 + 1 ELSE 0) = n - 1
    BY <1>1
  <2> QED BY <2>2, <2>3, <2>4
<1>7. a = b
  <2>1. \A k \in 1 .. Len(a) : a[k] = b[k]
    BY <1>1, <1>4, <1>6
  <2> QED BY <1>4, <1>6, <2>1, SeqEqual
<1>8. PICK c : c = SubSeq(t, 2, n + 1)
  OBVIOUS
<1>9. c \in Seq(S) /\ Len(c) = n /\ \A k \in 1 .. n : c[k] = t[k + 1]
  <2>1. \A k \in 2 .. n + 1 : t[k] \in S
    BY <1>2
  <2>2. /\ c \in Seq(S) /\ Len(c) = IF 2 <= n + 1 THEN n + 1 - 2 + 1 ELSE 0
        /\ \A k \in 1 .. n + 1 - 2 + 1 : c[k] = t[2 + k - 1]
    BY <1>1, <1>8, <2>1, SubSeqProperties
  <2>3. \A k \in 1 .. n : k \in 1 .. n + 1 - 2 + 1 /\ 2 + k - 1 = k + 1
    BY <1>1
  <2>4. (IF 2 <= n + 1 THEN n + 1 - 2 + 1 ELSE 0) = n
    BY <1>1
  <2> QED BY <2>2, <2>3, <2>4
<1>10. PICK d : d = Append(a, t[n + 1])
  OBVIOUS
<1>11. /\ d \in Seq(S) /\ Len(d) = n /\ \A k \in 1 .. n - 1 : d[k] = a[k]
       /\ d[n] = t[n + 1]
  <2>1. t[n + 1] \in S
    BY <1>1, <1>2
  <2>2. /\ d \in Seq(S) /\ Len(d) = n - 1 + 1 /\ \A k \in 1 .. n - 1 : d[k] = a[k]
        /\ d[n - 1 + 1] = t[n + 1]
    BY <1>4, <1>10, <2>1, AppendProperties
  <2> QED BY <1>1, <2>2
<1>12. c = d
  <2>1. \A k \in 1 .. n : c[k] = d[k]
    <3> TAKE k \in 1 .. n
    <3>1. CASE k = n
      BY <1>9, <1>11, <3>1
    <3>2. CASE k \in 1 .. n - 1
      <4>1. t[k + 1] = s[k + 1]
        BY <1>1, <3>2
      <4> QED BY <1>4, <1>9, <1>11, <3>2, <4>1
    <3> QED BY <1>1, <3>1, <3>2
  <2> QED BY <1>9, <1>11, <2>1, SeqEqual
<1> QED BY <1>1, <1>3, <1>4, <1>5, <1>7, <1>8, <1>10, <1>12

\* How many elements there are from the second on.
LEMMA FromStart ==
  ASSUME NEW S, NEW s \in Seq(S), NEW n \in 1 .. Len(s)
  PROVE  Len(SubSeq(s, 2, n)) = n - 1
<1>1. Len(s) \in Nat /\ \A k \in 2 .. n : s[k] \in S
  BY ElementOfSeq, LenProperties
<1>2. Len(SubSeq(s, 2, n)) = IF 2 <= n THEN n - 2 + 1 ELSE 0
  BY <1>1, SubSeqProperties
<1> QED BY <1>1, <1>2

\* Dereferencing the iterator hands over the chunk in the storage; the element before
\* the first chunk, and the one of the last-chunk, are not chunks (chunk_iterator::
\* operator*).
LEMMA DerefImplements ==
  ASSUME ReaderInv, OneLoopInv, Deref
  PROVE  [Delivery!Next]_(Delivery!vars)
<1>0. TypeOK /\ StreamInv /\ ParserInv /\ LoopInv /\ WholeChunksInOrder /\ base = 0
  BY DEF ReaderInv, OneLoopInv
<1>1. /\ pc = "test" /\ ~finished /\ got' = Append(got, chunk_body) /\ pc' = "incr"
      /\ UNCHANGED <<srv, sizes, stream, pst, finished, loops, filled>>
  BY DEF Deref, srvVars, parseVars
<1>2. Status = "streaming" /\ Status' = "streaming" /\ UNCHANGED <<sizes, Wire>>
  BY <1>1 DEF Status, Wire
<1>3. /\ Len(got) \in Nat /\ filled \in Nat /\ Len(sizes) \in Nat
      /\ \A i \in 1 .. Len(sizes) : sizes[i] \in Nat \ {0}
      /\ got = <<>> <=> Len(got) = 0
  BY <1>0, Lengths DEF TypeOK
<1>4. /\ got' \in Seq(Seq(Token)) /\ Len(got') = Len(got) + 1
      /\ \A k \in 1 .. Len(got) : got'[k] = got[k]
      /\ got'[Len(got) + 1] = chunk_body
  BY <1>0, <1>1, AppendProperties DEF TypeOK
<1>5. CASE got = <<>>
  <2>1. chunk_body = <<>> /\ got' = <<chunk_body>>
    BY <1>0, <1>1, <1>5 DEF OneLoopInv, ParserInv
  <2>2. Delivered = <<>> /\ Delivered' = <<>>
    BY <1>5, <2>1, Handed, EmptySeqs, SubSeqProperties DEF Delivered
  <2> QED BY <1>2, <2>2 DEF Delivery!vars
<1>6. CASE got # <<>> /\ pst = "chunk_header"
  <2>1. filled = Len(got) /\ filled \in 1 .. Len(sizes) /\ chunk_body = Payload(filled)
    BY <1>0, <1>1, <1>6 DEF LoopInv
  <2>2. chunk_body # <<>>
    BY <1>0, <1>3, <2>1, PayloadProperties, EmptySeqs
  <2>3. Delivered = SubSeq(got, 2, Len(got))
    BY <1>3, <1>6, <2>1, Handed
  <2>4. Delivered' = SubSeq(got', 2, Len(got) + 1)
    <3>1. got' # <<>> /\ got'[Len(got')] # <<>>
      BY <1>3, <1>4, <2>2, EmptySeqs
    <3> QED BY <1>4, <3>1 DEF Delivered
  <2>5. Delivered' = Append(Delivered, chunk_body) /\ Len(Delivered) = Len(got) - 1
    BY <1>0, <1>4, <1>6, <2>3, <2>4, FromSecond DEF TypeOK
  <2>6. chunk_body = Delivery!Chunk(Len(Delivered) + 1) /\ Len(Delivered) < Len(sizes)
    BY <1>3, <2>1, <2>5 DEF Delivery!Chunk, Payload
  <2> QED BY <1>2, <2>5, <2>6 DEF Delivery!Next, Delivery!Deliver
<1>7. CASE got # <<>> /\ pst = "complete"
  <2>1. filled = Len(got) - 1 /\ filled = Len(sizes) /\ chunk_body = <<>>
    BY <1>0, <1>1, <1>7 DEF LoopInv, ParserInv
  <2>2. Delivered = SubSeq(got, 2, Len(got))
    BY <1>3, <1>7, <2>1, Handed
  <2>3. Delivered' = SubSeq(got', 2, Len(got))
    <3>1. got' # <<>> /\ got'[Len(got')] = <<>> /\ Len(got') - 1 = Len(got)
      BY <1>3, <1>4, <2>1, EmptySeqs
    <3> QED BY <1>4, <3>1 DEF Delivered
  <2>4. Delivered' = Delivered
    BY <1>0, <1>4, <1>7, <2>2, <2>3, FromSecond DEF TypeOK
  <2> QED BY <1>2, <2>4 DEF Delivery!vars
<1> QED BY <1>0, <1>1, <1>5, <1>6, <1>7 DEF LoopInv

\* The steps of the caller and of the thread in the loop: they hand over a chunk,
\* complete, fail, leave, or do nothing that shows (fill_in_next_chunk and the loop).
LEMMA ClientImplements ==
  ASSUME MaxOpens <= 1, MaxLoops <= 1, ReaderInv, OneLoopInv, [Next]_vars, ~Server, ~Deref
  PROVE  [Delivery!Next]_(Delivery!vars)
<1>0. /\ TypeOK /\ StreamInv /\ ParserInv /\ ReturnInv /\ LoopInv /\ WholeChunksInOrder
      /\ base = 0
  BY DEF ReaderInv, OneLoopInv
<1>1. UNCHANGED srvVars
  BY ClientStep
<1>2. InLoop => loops > 0
  BY <1>0 DEF OneLoopInv, InLoop, TypeOK
<1>3. pc \in {"incr", "header", "read"} => ~finished /\ Status = "streaming"
  BY <1>0 DEF ReturnInv, Status
<1>4. UNCHANGED <<sizes, Wire>>
  BY <1>1 DEF Wire, srvVars
<1>5. ASSUME UNCHANGED got PROVE UNCHANGED Delivered
  BY <1>5 DEF Delivered
<1>6. CASE ChunkResponse \/ Begin
  <2>1. got' = <<>> /\ finished' = FALSE /\ pc = "idle" /\ pc' \in {"idle", "test"}
        /\ (pc' = "idle" => opens < MaxOpens /\ loops' = loops)
        /\ (pc' = "test" => loops < MaxLoops)
    BY <1>6 DEF ChunkResponse, Begin
  <2>2. loops = 0
    BY <1>0, <2>1, BoundsAssumption DEF OneLoopInv, TypeOK
  <2>3. got = <<>> /\ Status = "streaming" /\ Status' = "streaming"
    BY <2>1, <2>2 DEF OneLoopInv, Status
  <2> QED BY <1>1, <2>1, <2>3, Unseen
<1>7. CASE LoopEnd
  <2>1. UNCHANGED <<got, pst, finished>> /\ finished /\ pc = "test" /\ pc' = "idle"
    BY <1>7 DEF LoopEnd, userVars, parseVars
  <2>2. UNCHANGED Status
    BY <2>1 DEF Status
  <2> QED BY <1>4, <1>5, <2>1, <2>2 DEF Delivery!vars
<1>8. CASE Break
  <2>1. UNCHANGED <<got, loops, pst, finished>> /\ pc = "incr" /\ pc' = "idle"
    BY <1>8 DEF Break, userVars, parseVars
  <2>2. Status = "streaming" /\ Status' = "left"
    BY <1>2, <1>3, <2>1 DEF Status, InLoop
  <2> QED BY <1>4, <1>5, <2>1, <2>2 DEF Delivery!Next, Delivery!Leave
<1>9. CASE FillWhenDone
  <2>1. UNCHANGED got /\ UNCHANGED pst /\ finished' = TRUE /\ pc = "incr" /\ pc' = "test"
        /\ pst = "complete"
    BY <1>9 DEF FillWhenDone, userVars, parseVars
  <2>2. Status = "streaming" /\ Status' = "complete"
    BY <1>3, <2>1 DEF Status
  <2>3. Wire = "ended"
    <3>1. used \in 1 .. Len(stream) /\ stream[used].kind \in {"last", "hdr_none"}
      BY <1>0, <2>1, Lengths DEF OneLoopInv
    <3> QED BY <3>1 DEF Wire
  <2>4. Len(Delivered) = Len(sizes)
    <3>1. filled = Len(sizes) /\ got # <<>> /\ (filled = Len(got) - 1 \/ filled = Len(got) - 2)
      BY <1>0, <2>1 DEF ParserInv, LoopInv, TypeOK
    <3>2. Len(got) \in Nat /\ filled \in Nat /\ Len(got) # 0
      BY <1>0, <3>1, Lengths DEF TypeOK
    <3>3. CASE filled = Len(got) - 1
      <4>1. Delivered = SubSeq(got, 2, Len(got))
        BY <3>1, <3>2, <3>3, Handed
      <4>2. Len(SubSeq(got, 2, Len(got))) = Len(got) - 1
        <5>1. Len(got) \in 1 .. Len(got)
          BY <3>2
        <5> QED BY <1>0, <5>1, FromStart DEF TypeOK
      <4> QED BY <3>1, <3>3, <4>1, <4>2
    <3>4. CASE filled = Len(got) - 2
      <4>1. Delivered = SubSeq(got, 2, Len(got) - 1)
        BY <3>1, <3>4, Handed
      <4>2. Len(SubSeq(got, 2, Len(got) - 1)) = Len(got) - 2
        BY <1>0, <3>1, <3>2, <3>4, FromStart DEF TypeOK
      <4> QED BY <3>1, <3>4, <4>1, <4>2
    <3> QED BY <3>1, <3>3, <3>4
  <2> QED BY <1>4, <1>5, <2>1, <2>2, <2>3, <2>4 DEF Delivery!Next, Delivery!Complete
<1>10. CASE HeaderReadFails \/ ParseGarbage
  <2>1. UNCHANGED got /\ pc = "header" /\ pc' = "terminated"
    BY <1>10 DEF HeaderReadFails, ParseGarbage, userVars
  <2>2. Status = "streaming" /\ Status' = "failed"
    BY <1>3, <2>1 DEF Status
  <2> QED BY <1>4, <1>5, <2>1, <2>2 DEF Delivery!Next, Delivery!Fail
<1>11. CASE BodyReadFails \/ ParseOverLimit \/ ParseUnexpectedBody
  <2>1. UNCHANGED got /\ pc = "read" /\ pc' = "test" /\ finished' /\ pst' # "complete"
    BY <1>11 DEF BodyReadFails, ParseOverLimit, ParseUnexpectedBody, Return, userVars,
                 parseVars, ConnectionGone, NeedsMore
  <2>2. Status = "streaming" /\ Status' = "failed"
    BY <1>3, <2>1 DEF Status
  <2> QED BY <1>4, <1>5, <2>1, <2>2 DEF Delivery!Next, Delivery!Fail
<1>12. CASE Fill \/ HeaderAlreadyRead \/ Receive
  <2>1. /\ UNCHANGED <<got, finished>> /\ pc \in {"incr", "header", "read"}
        /\ pc' \in {"header", "read"}
    BY <1>12 DEF Fill, HeaderAlreadyRead, Receive, NeedsMore, userVars
  <2>2. Status = "streaming" /\ Status' = "streaming"
    BY <1>3, <2>1 DEF Status
  <2> QED BY <1>1, <2>1, <2>2, Unseen
<1>13. CASE ReadDone \/ ParseChunkEnd
  <2>1. UNCHANGED got /\ pc = "read" /\ pc' = "test" /\ finished' = FALSE
    BY <1>13 DEF ReadDone, ParseChunkEnd, Return, userVars
  <2>2. Status = "streaming" /\ Status' = "streaming"
    BY <1>3, <2>1 DEF Status
  <2> QED BY <1>1, <2>1, <2>2, Unseen
<1>14. CASE ParseHeader \/ ParseChunkHeader \/ ParseChunkPart \/ ParseLast
  <2>1. /\ UNCHANGED <<got, finished>> /\ pc \in {"header", "read"} /\ pc' \in {"header", "read"}
    BY <1>14 DEF ParseHeader, ParseChunkHeader, ParseChunkPart, ParseLast, userVars
  <2>2. Status = "streaming" /\ Status' = "streaming"
    BY <1>3, <2>1 DEF Status
  <2> QED BY <1>1, <2>1, <2>2, Unseen
<1>15. CASE UNCHANGED vars
  <2>1. UNCHANGED <<got, pst, finished, pc, loops>>
    BY <1>15 DEF vars
  <2>2. UNCHANGED Status
    BY <2>1 DEF Status
  <2> QED BY <1>4, <1>5, <2>1, <2>2 DEF Delivery!vars
<1> QED
  BY <1>6, <1>7, <1>8, <1>9, <1>10, <1>11, <1>12, <1>13, <1>14, <1>15 DEF Next, Thread, Parse

-----------------------------------------------------------------------------
(* The first element of a loop *)

\* The storage invariant holds at the start.
LEMMA StaleInit == Init => StaleInv
BY EmptySeqs DEF Init, StaleInv, InLoop

\* The part of a chunk in the storage is the beginning of that chunk.
LEMMA PartOfChunk ==
  ASSUME TypeOK, StreamInv, ParserInv, pst = "chunk_body"
  PROVE  /\ filled + 1 \in 1 .. Len(sizes)
         /\ chunk_body = SubSeq(Payload(filled + 1), 1, Len(chunk_body))
<1>1. PICK i \in 1 .. Len(sizes) : i = filled + 1
  BY DEF ParserInv
<1>2. PICK q : q = sizes[i] - rem
  OBVIOUS
<1>3. /\ sizes[i] \in Nat /\ q \in Nat /\ q <= sizes[i] /\ chunk_body \in Seq(Token)
      /\ Len(chunk_body) = q /\ \A j \in 1 .. q : chunk_body[j] = DataTok(i, j)
  <2>1. /\ sizes[i] \in Nat \ {0} /\ q \in Nat /\ rem \in 1 .. sizes[i] /\ Len(chunk_body) = q
        /\ \A j \in 1 .. q : chunk_body[j] = DataTok(i, j)
    BY <1>1, <1>2, InChunk
  <2> QED BY <1>2, <2>1, SMTT(30) DEF TypeOK
<1>4. /\ Payload(i) \in Seq(Token) /\ Len(Payload(i)) = sizes[i]
      /\ \A j \in 1 .. sizes[i] : Payload(i)[j] = DataTok(i, j)
  BY PayloadProperties
<1>5. PICK s : s = SubSeq(Payload(i), 1, q)
  OBVIOUS
<1>6. s \in Seq(Token) /\ Len(s) = q /\ \A j \in 1 .. q : s[j] = Payload(i)[j]
  <2>1. \A j \in 1 .. q : Payload(i)[j] \in Token
    BY <1>3, <1>4, ElementOfSeq
  <2>2. /\ s \in Seq(Token) /\ Len(s) = IF 1 <= q THEN q - 1 + 1 ELSE 0
        /\ \A j \in 1 .. q - 1 + 1 : s[j] = Payload(i)[1 + j - 1]
    BY <1>3, <1>5, <2>1, SubSeqProperties
  <2> QED BY <1>3, <2>2
<1>7. \A j \in 1 .. Len(chunk_body) : chunk_body[j] = s[j]
  BY <1>3, <1>4, <1>6
<1>8. chunk_body = s
  BY <1>3, <1>6, <1>7, SeqEqual
<1> QED BY <1>1, <1>3, <1>5, <1>8

\* Every step keeps what the storage may hold and what the first element of a loop is.
LEMMA StaleStep ==
  ASSUME ReaderInv, StaleInv, [Next]_vars
  PROVE  StaleInv'
<1>0. TypeOK /\ StreamInv /\ ParserInv /\ ReturnInv /\ LoopInv
  BY DEF ReaderInv
<1> USE <1>0, Lengths
<1>1. CASE Server
  <2>1. /\ UNCHANGED <<pc, pst, ec, used, rcvd, loops, base, filled, got, chunk_body>>
        /\ Len(sizes') \in Nat /\ Len(sizes) <= Len(sizes')
        /\ \A i \in 1 .. Len(sizes) : sizes'[i] = sizes[i]
    BY <1>1, ServerKeeps DEF clientVars, parseVars, userVars
  <2>2. ASSUME NEW i \in 1 .. Len(sizes)
        PROVE  Payload(i)' = Payload(i) /\ i \in 1 .. Len(sizes')
    BY <2>1 DEF Payload, DataTok
  <2>3. ~CutInChunk
    BY <1>1 DEF CutInChunk, Server, SendHeader, WriteChunk, WriteLast, WriteLengthBody,
                CloseConnection
  <2>4. ASSUME pst = "chunk_header", chunk_body # <<>>
        PROVE  filled' \in 1 .. Len(sizes') /\ chunk_body = Payload(filled)'
    <3>1. PICK i \in 1 .. Len(sizes) : i = filled /\ chunk_body = Payload(i)
      BY <2>4 DEF StaleInv
    <3>2. Payload(i)' = Payload(i) /\ i \in 1 .. Len(sizes') /\ filled' = i
      BY <2>1, <2>2, <3>1
    <3> QED BY <3>1, <3>2
  <2>5. ASSUME InLoop, got # <<>>, got[1] # <<>>
        PROVE  loops > 1 /\ base' \in 1 .. Len(sizes') /\ got[1] = Payload(base)'
    <3>1. loops > 1 /\ \E i \in 1 .. Len(sizes) : i = base /\ got[1] = Payload(i)
      BY <2>3, <2>5 DEF StaleInv
    <3>2. PICK i \in 1 .. Len(sizes) : i = base /\ got[1] = Payload(i)
      BY <3>1
    <3>3. Payload(i)' = Payload(i) /\ i \in 1 .. Len(sizes') /\ base' = i
      BY <2>1, <2>2, <3>2
    <3> QED BY <3>1, <3>2, <3>3
  <2> QED BY <2>1, <2>3, <2>4, <2>5 DEF StaleInv, InLoop
<1>2. CASE ChunkResponse
  BY <1>2 DEF ChunkResponse, StaleInv, InLoop
<1>3. CASE Begin
  <2>1. /\ pc = "idle" /\ pc' = "test" /\ got' = <<>> /\ loops' = loops + 1
        /\ UNCHANGED <<srv, sizes, stream, rcvd, used, pst, ec, filled, chunk_body>>
    BY <1>3 DEF Begin, srvVars, parseVars
  <2>2. UNCHANGED CutInChunk /\ (filled \in 1 .. Len(sizes) => UNCHANGED Payload(filled))
    BY <2>1 DEF CutInChunk, BufferEmpty, Payload, DataTok
  <2> QED BY <2>1, <2>2 DEF StaleInv, InLoop, TypeOK
<1>4. CASE Deref
  <2>1. /\ pc = "test" /\ ~finished /\ got' = Append(got, chunk_body) /\ pc' = "incr"
        /\ UNCHANGED <<srv, sizes, stream, rcvd, used, pst, ec, filled, base, loops, chunk_body>>
    BY <1>4 DEF Deref, srvVars, parseVars
  <2>2. /\ got' # <<>> /\ got'[1] = IF got = <<>> THEN chunk_body ELSE got[1]
    BY <2>1, AppendProperties DEF TypeOK
  <2>3. UNCHANGED CutInChunk /\ \A i \in 1 .. Len(sizes) : UNCHANGED Payload(i)
    BY <2>1 DEF CutInChunk, BufferEmpty, Payload, DataTok
  <2>4. CASE got = <<>> /\ chunk_body # <<>>
    <3>1. base = filled /\ loops > 1
      BY <2>1, <2>4 DEF LoopInv, StaleInv
    <3>2. CASE pst = "chunk_header"
      <4>1. PICK i \in 1 .. Len(sizes) : i = base /\ chunk_body = Payload(i)
        BY <2>4, <3>1, <3>2 DEF StaleInv
      <4>2. base' = i /\ Len(sizes') = Len(sizes) /\ Payload(i)' = Payload(i)
        BY <2>1, <2>3, <4>1
      <4>3. (base \in 1 .. Len(sizes) /\ got[1] = Payload(base))'
        BY <2>2, <2>4, <4>1, <4>2
      <4> QED BY <2>1, <2>2, <2>3, <2>4, <3>1, <3>2, <4>1, <4>2, <4>3 DEF StaleInv, InLoop
    <3>3. CASE pst = "chunk_body"
      <4>1. /\ base + 1 \in 1 .. Len(sizes)
            /\ chunk_body = SubSeq(Payload(base + 1), 1, Len(chunk_body))
        BY <3>1, <3>3, PartOfChunk
      <4>2. PICK i \in 1 .. Len(sizes) : i = base + 1
        BY <4>1
      <4>3. CutInChunk' /\ base' + 1 = i /\ base' < Len(sizes') /\ Payload(i)' = Payload(i)
        BY <2>1, <2>3, <3>3, <4>2 DEF StaleInv, TypeOK
      <4>4. got'[1] = SubSeq(Payload(base + 1)', 1, Len(got'[1]))
        BY <2>1, <2>2, <2>4, <4>1, <4>2, <4>3
      <4> QED BY <2>1, <2>2, <2>3, <2>4, <3>1, <3>3, <4>3, <4>4 DEF StaleInv, InLoop
    <3>4. pst \in {"chunk_header", "chunk_body"}
      BY <2>4 DEF StaleInv, ParserInv, TypeOK
    <3> QED BY <3>2, <3>3, <3>4
  <2>5. CASE got = <<>> /\ chunk_body = <<>>
    BY <2>1, <2>2, <2>3, <2>5 DEF StaleInv, InLoop
  <2>6. CASE got # <<>>
    <3>1. pst # "chunk_body"
      BY <2>1, <2>6 DEF LoopInv
    <3>2. ASSUME got[1] # <<>>
          PROVE  (loops > 1 /\ base \in 1 .. Len(sizes) /\ got[1] = Payload(base))'
      <4>1. loops > 1 /\ \E i \in 1 .. Len(sizes) : i = base /\ got[1] = Payload(i)
        BY <2>1, <2>6, <3>1, <3>2 DEF StaleInv, InLoop, CutInChunk
      <4>2. PICK i \in 1 .. Len(sizes) : i = base /\ got[1] = Payload(i)
        BY <4>1
      <4>3. base' = i /\ Len(sizes') = Len(sizes) /\ Payload(i)' = Payload(i)
        BY <2>1, <2>3, <4>2
      <4> QED BY <2>1, <2>2, <2>6, <4>1, <4>2, <4>3
    <3>3. pst = "chunk_header" /\ chunk_body # <<>> =>
            (filled \in 1 .. Len(sizes) /\ chunk_body = Payload(filled))'
      <4> SUFFICES ASSUME pst = "chunk_header", chunk_body # <<>>
                   PROVE  (filled \in 1 .. Len(sizes) /\ chunk_body = Payload(filled))'
        OBVIOUS
      <4>1. PICK i \in 1 .. Len(sizes) : i = filled /\ chunk_body = Payload(i)
        BY DEF StaleInv
      <4>2. filled' = i /\ Len(sizes') = Len(sizes) /\ Payload(i)' = Payload(i)
        BY <2>1, <2>3, <4>1
      <4> QED BY <2>1, <4>1, <4>2
    <3> QED BY <2>1, <2>2, <2>6, <3>1, <3>2, <3>3 DEF StaleInv, InLoop
  <2> QED BY <2>4, <2>5, <2>6
<1>5. ASSUME UNCHANGED <<srvVars, got, base, loops>>, InLoop, pc' = "test" => got # <<>>,
             CutInChunk => CutInChunk', pst' = "body" => chunk_body' = <<>>,
             pst' = "chunk_header" =>
               \/ chunk_body' = <<>>
               \/ filled' \in 1 .. Len(sizes) /\ chunk_body' = Payload(filled'),
             pst' = "chunk_body" /\ pc' # "read" => CutInChunk'
      PROVE  StaleInv'
  <2>1. UNCHANGED <<srv, sizes, stream, got, base, loops>>
    BY <1>5 DEF srvVars
  <2>2. pst' = "chunk_header" =>
          chunk_body' = <<>> \/ (filled \in 1 .. Len(sizes) /\ chunk_body = Payload(filled))'
    BY <1>5, <2>1 DEF Payload, DataTok
  <2>3. got # <<>> =>
          (\/ got[1] = <<>>
           \/ loops > 1 /\ base \in 1 .. Len(sizes) /\ got[1] = Payload(base)
           \/ /\ loops > 1 /\ base < Len(sizes) /\ CutInChunk
              /\ got[1] = SubSeq(Payload(base + 1), 1, Len(got[1])))'
    BY <1>5, <2>1 DEF StaleInv, Payload, DataTok
  <2> QED BY <1>5, <2>1, <2>2, <2>3 DEF StaleInv
<1>6. CASE LoopEnd \/ Break \/ FillWhenDone \/ Fill \/ HeaderAlreadyRead \/ Receive
           \/ HeaderReadFails \/ ParseGarbage
  <2>1. UNCHANGED <<srvVars, got, base, loops, used, pst, ec, filled, chunk_body>>
    BY <1>6 DEF LoopEnd, Break, FillWhenDone, Fill, HeaderAlreadyRead, Receive,
                HeaderReadFails, ParseGarbage, parseVars, userVars
  <2>2. /\ InLoop /\ (pc' = "test" => pc = "incr")
        /\ pc = "read" => pc' = "read"
        /\ \/ UNCHANGED rcvd
           \/ rcvd < Len(stream)
    BY <1>6 DEF LoopEnd, Break, FillWhenDone, Fill, HeaderAlreadyRead, Receive, NeedsMore,
                HeaderReadFails, ConnectionGone, ParseGarbage, InLoop
  <2>3. CutInChunk => CutInChunk'
    BY <2>1, <2>2 DEF CutInChunk, BufferEmpty, srvVars
  <2>4. pst = "chunk_header" =>
          chunk_body = <<>> \/ (filled' \in 1 .. Len(sizes) /\ chunk_body' = Payload(filled'))
    BY <2>1 DEF StaleInv
  <2>5. pc' = "test" => got # <<>>
    BY <2>2 DEF LoopInv
  <2>6. pst' = "chunk_body" /\ pc' # "read" => CutInChunk'
    BY <2>1, <2>2, <2>3 DEF StaleInv
  <2> QED BY <1>5, <2>1, <2>2, <2>3, <2>4, <2>5, <2>6 DEF StaleInv
<1>7. CASE ReadDone \/ ParseOverLimit \/ ParseUnexpectedBody \/ BodyReadFails
  <2>1. /\ UNCHANGED <<srvVars, got, base, loops, used, pst, rcvd, filled, chunk_body>>
        /\ pc = "read" /\ pc' = "test"
        /\ pst = "chunk_body" => /\ srv = "closed" /\ rcvd = Len(stream) /\ BufferEmpty
                                 /\ ec' = "partial_message"
    BY <1>7 DEF ReadDone, ParseOverLimit, ParseUnexpectedBody, BodyReadFails, ConnectionGone,
                NeedsMore, Return, parseVars, userVars
  <2>2. pst = "chunk_body" => CutInChunk'
    BY <2>1 DEF CutInChunk, BufferEmpty, srvVars
  <2>3. CutInChunk => CutInChunk'
    BY <2>2 DEF CutInChunk
  <2>4. pst = "chunk_header" =>
          chunk_body = <<>> \/ (filled' \in 1 .. Len(sizes) /\ chunk_body' = Payload(filled'))
    BY <2>1 DEF StaleInv
  <2>5. got # <<>> /\ InLoop
    BY <2>1 DEF LoopInv, InLoop
  <2> QED BY <1>5, <2>1, <2>2, <2>3, <2>4, <2>5 DEF StaleInv
<1>8. CASE ParseHeader \/ ParseChunkHeader \/ ParseChunkPart \/ ParseLast
  <2>1. /\ UNCHANGED <<srvVars, got, base, loops>> /\ ~BufferEmpty
        /\ pc \in {"header", "read"} /\ pc' = "read"
        /\ pst' \in {"body", "chunk_header"} => pst = "start" /\ UNCHANGED chunk_body
    BY <1>8 DEF ParseHeader, ParseChunkHeader, ParseChunkPart, ParseLast, userVars
  <2>2. ~CutInChunk /\ InLoop
    BY <2>1 DEF CutInChunk, InLoop
  <2>3. pst' \in {"body", "chunk_header"} => chunk_body' = <<>>
    BY <2>1 DEF ParserInv
  <2> QED BY <1>5, <2>1, <2>2, <2>3
<1>9. CASE ParseChunkEnd
  <2>1. /\ UNCHANGED <<srvVars, got, base, loops>> /\ ~BufferEmpty /\ pst' = "chunk_header"
        /\ pc = "read" /\ pc' = "test" /\ filled' = filled + 1
    BY <1>9 DEF ParseChunkEnd, Return, userVars
  <2>2. filled' \in 1 .. Len(sizes) /\ chunk_body' = Payload(filled')
    BY <1>9, <2>1, ChunkComplete
  <2>3. ~CutInChunk /\ InLoop /\ got # <<>>
    BY <2>1 DEF CutInChunk, InLoop, LoopInv
  <2> QED BY <1>5, <2>1, <2>2, <2>3
<1>10. CASE UNCHANGED vars
  BY <1>10 DEF vars, StaleInv, InLoop, CutInChunk, BufferEmpty, Payload, DataTok
<1> QED
  BY <1>1, <1>2, <1>3, <1>4, <1>6, <1>7, <1>8, <1>9, <1>10 DEF Next, Thread, Parse

\* The inductive invariant of what a loop begins with, for any number of requests and of
\* loops over their responses.
THEOREM StaleInvariant == Spec => []StaleInv
<1>1. Init => StaleInv
  BY StaleInit
<1>2. ReaderInv /\ StaleInv /\ [Next]_vars => StaleInv'
  BY StaleStep
<1> QED BY <1>1, <1>2, ReaderInvariant, PTL DEF Spec

\* The first element of a loop is empty in the first loop; in a later one it may be the
\* chunk the loop before it stopped at, or the part of the next chunk that had arrived
\* when the connection was cut, and nothing else.
THEOREM FirstElement == Spec => []FirstElementIsStale
<1>1. StaleInv => FirstElementIsStale
  BY DEF StaleInv, FirstElementIsStale, CutInChunk
<1> QED BY <1>1, StaleInvariant, PTL

-----------------------------------------------------------------------------
(* The theorems *)

\* The inductive invariant of one range-for loop over one chunk_response(): it begins with a
\* block nobody has read from, its first element is empty, and the parser is only done once
\* it has read the end of the message.
THEOREM OneLoopInvariant ==
  ASSUME MaxOpens <= 1, MaxLoops <= 1
  PROVE  Spec => []OneLoopInv
<1>1. Init => OneLoopInv
  BY OneLoopInit
<1>2. ReaderInv /\ OneLoopInv /\ [Next]_vars => OneLoopInv'
  BY OneLoopStep
<1> QED BY <1>1, <1>2, ReaderInvariant, PTL DEF Spec

\* A range-for loop over one chunk_response() hands over the chunks of the server,
\* completes only if the server ended the message and every chunk was handed over, and
\* otherwise tells the caller of a failure: it implements ChunkDelivery.
THEOREM OneLoopDelivers ==
  ASSUME MaxOpens <= 1, MaxLoops <= 1
  PROVE  Spec => Delivers
<1>1. Init => Delivery!Init
  <2> SUFFICES ASSUME Init PROVE Delivery!Init
    OBVIOUS
  <2>1. Wire = "open" /\ Status = "streaming" /\ sizes = <<>>
    BY EmptySeqs DEF Init, Wire, Status
  <2>2. Delivered = <<>>
    BY EmptySeqs, SubSeqEmpty DEF Init, Delivered
  <2> QED BY <2>1, <2>2 DEF Delivery!Init
<1>2. ReaderInv /\ ReaderInv' /\ OneLoopInv /\ [Next]_vars => [Delivery!Next]_(Delivery!vars)
  <2> SUFFICES ASSUME ReaderInv, ReaderInv', OneLoopInv, [Next]_vars
               PROVE  [Delivery!Next]_(Delivery!vars)
    OBVIOUS
  <2>1. CASE Server
    BY <2>1, ServerImplements
  <2>2. CASE Deref
    BY <2>2, DerefImplements
  <2>3. CASE ~Server /\ ~Deref
    BY <2>3, ClientImplements
  <2> QED BY <2>1, <2>2, <2>3
<1> QED BY <1>1, <1>2, ReaderInvariant, OneLoopInvariant, PTL DEF Spec, Delivers, Delivery!Spec

=============================================================================
