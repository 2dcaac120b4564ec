-------------------------- MODULE AsioTransportProofs --------------------------
(***************************************************************************)
(* Proofs about AsioTransport, for every value of its constants.           *)
(***************************************************************************)
EXTENDS AsioTransport, SequenceTheorems, TLAPS

ToServerKinds == {"hello", "req", "alert"}
Outgoing == Messages(ToServerKinds)

-----------------------------------------------------------------------------
(* Messages and records *)

\* The messages of both directions are of their types, and so are short sequences of them
\* (what send_secure, send_impl and the peer put on the connection).
LEMMA MessageTypes ==
  ASSUME NEW i \in 0 .. MaxCalls, NEW enc \in BOOLEAN
  PROVE  /\ \A k \in ToServerKinds : ToServer(k, enc, i) \in Outgoing
         /\ \A k \in {"hello", "head", "rest", "bighead", "interim", "junk"} :
              ToClient(k, enc, i) \in Incoming
BY DEF ToServerKinds, Outgoing, Messages, Incoming, ToServer, ToClient

\* Every kind of response is a sequence of messages to the client.
LEMMA ResponseType ==
  ASSUME NEW i \in 0 .. MaxCalls, NEW enc \in BOOLEAN, NEW kind \in Replies
  PROVE  Response(enc, i)[kind] \in Seq(Incoming)
<1> DEFINE head == ToClient("head", enc, i)
           rest == ToClient("rest", enc, i)
           interim == ToClient("interim", enc, i)
           big == ToClient("bighead", enc, i)
<1>1. head \in Incoming /\ rest \in Incoming /\ interim \in Incoming /\ big \in Incoming
  BY MessageTypes
<1>2. kind \in {"normal", "interim", "big"}
  BY CallsAssumption
<1>3. /\ <<head, rest>> \in Seq(Incoming)
      /\ <<interim, head, rest>> \in Seq(Incoming)
      /\ <<big, rest>> \in Seq(Incoming)
  <2> HIDE DEF head, rest, interim, big
  <2> QED BY <1>1
<1>4. /\ Response(enc, i)["normal"] = <<head, rest>>
      /\ Response(enc, i)["interim"] = <<interim, head, rest>>
      /\ Response(enc, i)["big"] = <<big, rest>>
  BY DEF Response
<1> QED
  <2> HIDE DEF head, rest, interim, big
  <2> QED BY <1>2, <1>3, <1>4

\* The record of a new call (the arguments of send and send_secure).
LEMMA NewCallType ==
  ASSUME NEW h \in Hosts, NEW secure \in BOOLEAN, NEW stream \in BOOLEAN
  PROVE  NewCall(h, secure, stream) \in CallRecords
<1>1. AllRead \in BOOLEAN
  BY DEF AllRead
<1>2. <<>> \in Seq(Incoming) /\ 0 \in 0 .. MaxCalls
  BY EmptySeq, CallsAssumption
<1> QED BY <1>1, <1>2 DEF NewCall, CallRecords

\* Changing one record of `calls' keeps its type, its length and the other records.
LEMMA CallsUpdate ==
  ASSUME calls \in Seq(CallRecords), NEW i, NEW r \in CallRecords,
         calls' = [calls EXCEPT ![i] = r]
  PROVE  /\ calls' \in Seq(CallRecords) /\ Len(calls') = Len(calls)
         /\ \A j \in 1 .. Len(calls) : calls'[j] = IF j = i THEN r ELSE calls[j]
<1>1. DOMAIN calls = 1 .. Len(calls) /\ Len(calls) \in Nat
  BY LenProperties
<1>2. \A j \in 1 .. Len(calls) : calls[j] \in CallRecords
  BY ElementOfSeq
<1>3. calls' \in [1 .. Len(calls) -> CallRecords]
  BY <1>1, <1>2, LenProperties
<1>4. calls' \in Seq(CallRecords)
  BY <1>1, <1>3, SeqDef
<1>5. Len(calls') = Len(calls)
  BY <1>1, <1>3, <1>4, LenProperties
<1> QED BY <1>1, <1>4, <1>5

-----------------------------------------------------------------------------
(* The call the thread is in *)

\* What TypeOK says of the call a thread in send, send_secure or a loop is in.
LEMMA Current ==
  ASSUME TypeOK, pc # "idle"
  PROVE  /\ cur \in 1 .. Len(calls) /\ cur \in 0 .. MaxCalls
         /\ calls[cur] \in CallRecords
         /\ Len(calls) \in Nat
<1>1. calls \in Seq(CallRecords) /\ Len(calls) \in Nat /\ cur \in 0 .. Len(calls) /\ cur # 0
  BY LenProperties DEF TypeOK
<1>2. cur \in 1 .. Len(calls)
  BY <1>1
<1>3. calls[cur] \in CallRecords
  BY <1>1, <1>2, ElementOfSeq
<1>4. cur \in 0 .. MaxCalls
  BY <1>2, CallsAssumption DEF TypeOK
<1> QED BY <1>1, <1>2, <1>3, <1>4

\* A step that changes the record of the current call to r.
LEMMA CurrentBecomes ==
  ASSUME TypeOK, pc # "idle", NEW r \in CallRecords, Becomes(r)
  PROVE  /\ calls' \in Seq(CallRecords) /\ Len(calls') = Len(calls)
         /\ \A j \in 1 .. Len(calls) : calls'[j] = IF j = cur THEN r ELSE calls[j]
BY CallsUpdate DEF TypeOK, Becomes

\* The exception out of send and send_secure.
LEMMA FailsType ==
  ASSUME TypeOK, pc # "idle", Fails
  PROVE  /\ calls' \in Seq(CallRecords) /\ Len(calls') = Len(calls)
         /\ pc' = "idle" /\ cur' = 0
         /\ \A j \in 1 .. Len(calls) : calls'[j].served = calls[j].served
<1> DEFINE r == [calls[cur] EXCEPT !.outcome = "error", !.buf = <<>>]
<1>1. r \in CallRecords
  BY Current, EmptySeq DEF CallRecords
<1>2. r.served = calls[cur].served
  BY Current DEF CallRecords
<1>3. Becomes(r) /\ pc' = "idle" /\ cur' = 0
  BY DEF Fails
<1> HIDE DEF r
<1> QED BY <1>1, <1>2, <1>3, CurrentBecomes

\* The buffer of the current call is a sequence of messages, and what is left of it too.
LEMMA BufType ==
  ASSUME TypeOK, pc # "idle"
  PROVE  /\ Buf \in Seq(Incoming)
         /\ Buf # <<>> => Head(Buf) \in Incoming /\ Tail(Buf) \in Seq(Incoming)
BY Current, HeadTailProperties DEF Buf, CallRecords

\* The end of a message (the return of send_impl, or of a loop).
LEMMA CompleteType ==
  ASSUME TypeOK, pc # "idle", Buf # <<>>, NEW rst \in {"done", "interim"}, Complete(rst)
  PROVE  /\ calls' \in Seq(CallRecords) /\ Len(calls') = Len(calls)
         /\ pc' = "idle" /\ cur' = 0
         /\ UNCHANGED <<adapterVars, wireVars>>
         /\ \A j \in 1 .. Len(calls) : calls'[j].served = calls[j].served
<1> DEFINE r == [calls[cur] EXCEPT
                   !.buf = <<>>,
                   !.answer = IF rst = "interim" THEN Head(Buf).id ELSE @,
                   !.body = Head(Buf).id, !.rst = rst, !.outcome = "ok"]
<1>1. Head(Buf).id \in 0 .. MaxCalls
  BY BufType DEF Incoming, Messages, Buf
<1>2. r \in CallRecords
  BY <1>1, Current, EmptySeq DEF CallRecords
<1>3. r.served = calls[cur].served
  BY Current DEF CallRecords
<1>4. Becomes(r) /\ pc' = "idle" /\ cur' = 0 /\ UNCHANGED <<adapterVars, wireVars>>
  BY DEF Complete
<1> HIDE DEF r
<1> QED BY <1>2, <1>3, <1>4, CurrentBecomes

\* What write leaves on the connection.
LEMMA WrittenType ==
  ASSUME TypeOK, NEW msgs \in Seq(Outgoing)
  PROVE  Written(msgs) \in Seq(Outgoing)
BY ConcatProperties DEF TypeOK, Written, Outgoing, ToServerKinds

-----------------------------------------------------------------------------
(* Type correctness *)

\* No call is added, and none is served.
ServedKept ==
  /\ Len(calls') = Len(calls)
  /\ \A j \in 1 .. Len(calls) : calls'[j].served = calls[j].served

\* A step that leaves the calls alone serves none.
LEMMA SameCalls ==
  ASSUME UNCHANGED calls PROVE ServedKept
BY DEF ServedKept

\* The steps of send and send_secure up to the read of the response.
LEMMA SendSteps ==
  ASSUME TypeOK, Connect \/ ConnectFails \/ Hello \/ SetupFails \/ HandshakeDone
                 \/ HandshakeRefused \/ HandshakeFails \/ Write \/ WriteFails
  PROVE  TypeOK' /\ ServedKept
<1> USE DEF TypeOK, adapterVars, wireVars
<1>0. /\ Len(calls) \in Nat
      /\ <<>> \in Seq(Outgoing) /\ <<>> \in Seq(Incoming)
      /\ s2c # <<>> => Tail(s2c) \in Seq(Incoming) /\ Head(s2c) \in Incoming
      /\ Outgoing = Messages({"hello", "req", "alert"})
  BY LenProperties, EmptySeq, HeadTailProperties DEF Outgoing, ToServerKinds
<1>1. CASE Connect
  <2>1. calls[cur].host \in Hosts /\ calls[cur].secure \in BOOLEAN
    BY <1>1, Current DEF Connect, CallRecords
  <2> QED BY <1>0, <1>1, <2>1, SameCalls DEF Connect, Connected
<1>2. CASE ConnectFails
  BY <1>0, <1>2, FailsType DEF ConnectFails, ServedKept
<1>3. CASE Hello
  <2>1. ToServer("hello", FALSE, cur) \in Outgoing
    BY <1>3, Current, MessageTypes DEF Hello, ToServerKinds
  <2>2. c2s' \in Seq(Outgoing)
    BY <1>0, <1>3, <2>1, AppendProperties DEF Hello
  <2> QED BY <1>0, <1>3, <2>2, SameCalls DEF Hello
<1>4. CASE SetupFails
  BY <1>0, <1>4, FailsType DEF SetupFails, ServedKept
<1>5. CASE HandshakeDone
  BY <1>0, <1>5, SameCalls DEF HandshakeDone
<1>6. CASE HandshakeRefused
  <2>1. ToServer("alert", FALSE, cur) \in Outgoing
    BY <1>6, Current, MessageTypes DEF HandshakeRefused, ToServerKinds
  <2>2. c2s' \in Seq(Outgoing)
    BY <1>0, <1>6, <2>1, AppendProperties DEF HandshakeRefused
  <2>3. s2c' \in Seq(Incoming) /\ UNCHANGED <<adapterVars, conn>>
    BY <1>0, <1>6 DEF HandshakeRefused
  <2>4. /\ calls' \in Seq(CallRecords) /\ Len(calls') = Len(calls)
        /\ pc' = "idle" /\ cur' = 0
        /\ \A j \in 1 .. Len(calls) : calls'[j].served = calls[j].served
    BY <1>6, FailsType DEF HandshakeRefused
  <2> QED BY <1>0, <2>2, <2>3, <2>4 DEF ServedKept
<1>7. CASE HandshakeFails
  <2>1. s2c' \in Seq(Incoming) /\ UNCHANGED <<adapterVars, conn, c2s>>
    BY <1>0, <1>7 DEF HandshakeFails
  <2>2. /\ calls' \in Seq(CallRecords) /\ Len(calls') = Len(calls)
        /\ pc' = "idle" /\ cur' = 0
        /\ \A j \in 1 .. Len(calls) : calls'[j].served = calls[j].served
    BY <1>7, FailsType DEF HandshakeFails
  <2> QED BY <1>0, <2>1, <2>2 DEF ServedKept
<1>8. CASE Write
  <2> DEFINE r == Marked(calls[cur])
             m == ToServer("req", calls[cur].secure, cur)
  <2>1. pc = "write" /\ Becomes(r) /\ c2s' = Written(<<m>>)
    BY <1>8 DEF Write
  <2>2. r \in CallRecords /\ r.served = calls[cur].served
        /\ (~calls[cur].stream => r.outcome = calls[cur].outcome)
    BY <2>1, Current DEF CallRecords, Marked
  <2>3. m \in Outgoing
    <3>1. calls[cur].secure \in BOOLEAN
      BY <2>1, Current DEF CallRecords
    <3> QED BY <2>1, <3>1, Current, MessageTypes DEF ToServerKinds
  <2>4. c2s' \in Seq(Outgoing)
    <3> HIDE DEF m, TypeOK
    <3>1. <<m>> \in Seq(Outgoing)
      BY <2>3
    <3> QED BY <2>1, <3>1, WrittenType
  <2>5. /\ calls' \in Seq(CallRecords) /\ Len(calls') = Len(calls)
        /\ \A j \in 1 .. Len(calls) : calls'[j] = IF j = cur THEN r ELSE calls[j]
    <3> HIDE DEF r
    <3> QED BY <2>1, <2>2, CurrentBecomes
  <2>6. ServedKept
    <3> HIDE DEF r
    <3> QED BY <2>2, <2>5 DEF ServedKept
  <2>7. /\ UNCHANGED <<is_connected, peer, ssl, conn, s2c>>
        /\ pc' = IF calls[cur].stream THEN "idle" ELSE "read"
        /\ cur' = IF calls[cur].stream THEN 0 ELSE cur
    BY <1>8 DEF Write
  <2>8. cur \in 1 .. Len(calls) /\ cur = Len(calls) /\ calls[cur].outcome = "pending"
    BY <2>1, Current
  <2>9. pc' = "read" => cur' = Len(calls') /\ calls'[cur'].outcome = "pending"
    <3> HIDE DEF r
    <3> QED BY <2>2, <2>5, <2>7, <2>8
  <2> HIDE DEF r, m
  <2> QED BY <1>0, <2>4, <2>5, <2>6, <2>7, <2>8, <2>9
<1>9. CASE WriteFails
  BY <1>0, <1>9, FailsType DEF WriteFails, ServedKept
<1> QED BY <1>1, <1>2, <1>3, <1>4, <1>5, <1>6, <1>7, <1>8, <1>9

\* The reads of send_impl and of a loop, and the caller who begins and leaves one.
LEMMA ReadSteps ==
  ASSUME TypeOK, Receive \/ ParseHead \/ ParseRest \/ ParseInterim \/ ReadFails
                 \/ StreamFails \/ StreamTerminates \/ StreamOpen \/ StreamBegin \/ StreamLeave
  PROVE  TypeOK' /\ ServedKept
<1>0. Len(calls) \in Nat
  BY LenProperties DEF TypeOK
<1>1. CASE Receive
  <2>1. PICK k \in 1 .. Len(s2c) :
          /\ Becomes([calls[cur] EXCEPT !.buf = [n \in 1 .. k |-> Received(s2c[n])]])
          /\ ssl' = IF \E n \in 1 .. k : s2c[n].enc # ThroughSsl THEN "raw" ELSE ssl
          /\ s2c' = SubSeq(s2c, k + 1, Len(s2c))
    BY <1>1 DEF Receive
  <2> DEFINE b == [n \in 1 .. k |-> Received(s2c[n])]
             r == [calls[cur] EXCEPT !.buf = b]
  <2>2. pc \in {"read", "stream"} /\ UNCHANGED <<is_connected, peer, pc, cur, conn, c2s>>
    BY <1>1 DEF Receive, Reading
  <2>3. s2c \in Seq(Incoming) /\ Len(s2c) \in Nat /\ k \in Nat
    BY LenProperties DEF TypeOK
  <2>4. \A n \in 1 .. k : Received(s2c[n]) \in Incoming
    <3> SUFFICES ASSUME NEW n \in 1 .. k PROVE Received(s2c[n]) \in Incoming
      OBVIOUS
    <3>1. n \in 1 .. Len(s2c)
      BY <2>3
    <3>2. s2c[n] \in Incoming
      BY <2>3, <3>1, ElementOfSeq
    <3> QED BY <3>2 DEF Received, Incoming, Messages
  <2>5. b \in Seq(Incoming)
    <3>1. b \in [1 .. k -> Incoming]
      BY <2>4
    <3> HIDE DEF b
    <3> QED BY <2>3, <3>1, SeqDef
  <2>6. r \in CallRecords /\ r.served = calls[cur].served /\ r.outcome = calls[cur].outcome
    <3> HIDE DEF b
    <3> QED BY <2>2, <2>5, Current DEF CallRecords
  <2>7. /\ calls' \in Seq(CallRecords) /\ Len(calls') = Len(calls)
        /\ \A j \in 1 .. Len(calls) : calls'[j] = IF j = cur THEN r ELSE calls[j]
    <3>1. Becomes(r)
      BY <2>1
    <3> HIDE DEF r
    <3> QED BY <2>2, <2>6, <3>1, CurrentBecomes
  <2>8. s2c' \in Seq(Incoming)
    BY <2>1, <2>3, SubSeqProperties
  <2>9. ssl' \in {"none", "raw", "up"}
    BY <2>1 DEF TypeOK
  <2>10. pc = "read" => calls'[cur].outcome = "pending" /\ cur = Len(calls)
    <3> HIDE DEF r
    <3> QED BY <2>2, <2>6, <2>7, Current DEF TypeOK
  <2>11. ServedKept
    <3> HIDE DEF r
    <3> QED BY <2>6, <2>7 DEF ServedKept
  <2> HIDE DEF r, b
  <2> QED BY <1>0, <2>2, <2>7, <2>8, <2>9, <2>10, <2>11 DEF TypeOK
<1>2. CASE ParseHead
  <2> DEFINE r == [calls[cur] EXCEPT !.buf = Tail(@), !.answer = Head(Buf).id, !.rst = "body"]
  <2>1. /\ pc \in {"read", "stream"} /\ Becomes(r) /\ Buf # <<>>
        /\ UNCHANGED <<adapterVars, pc, cur, wireVars>>
    BY <1>2 DEF ParseHead, Reading
  <2>2. Head(Buf).id \in 0 .. MaxCalls /\ Tail(calls[cur].buf) \in Seq(Incoming)
    BY <2>1, BufType DEF Incoming, Messages, Buf
  <2>3. r \in CallRecords /\ r.served = calls[cur].served /\ r.outcome = calls[cur].outcome
    BY <2>1, <2>2, Current DEF CallRecords
  <2> HIDE DEF r
  <2>4. /\ calls' \in Seq(CallRecords) /\ Len(calls') = Len(calls)
        /\ \A j \in 1 .. Len(calls) : calls'[j] = IF j = cur THEN r ELSE calls[j]
    BY <2>1, <2>3, CurrentBecomes
  <2>5. pc = "read" => calls'[cur].outcome = "pending" /\ cur = Len(calls)
    BY <2>1, <2>3, <2>4, Current DEF TypeOK
  <2>6. ServedKept
    BY <2>3, <2>4 DEF ServedKept
  <2> QED BY <1>0, <2>1, <2>4, <2>5, <2>6 DEF TypeOK, adapterVars, wireVars
<1>3. CASE ParseRest
  <2>1. pc # "idle" /\ Buf # <<>> /\ Complete("done")
    BY <1>3 DEF ParseRest, Reading
  <2> QED BY <1>0, <2>1, CompleteType DEF TypeOK, ServedKept, adapterVars, wireVars
<1>4. CASE ParseInterim
  <2>1. pc # "idle" /\ Buf # <<>> /\ Complete("interim")
    BY <1>4 DEF ParseInterim, Reading
  <2> QED BY <1>0, <2>1, CompleteType DEF TypeOK, ServedKept, adapterVars, wireVars
<1>5. CASE ReadFails
  BY <1>0, <1>5, FailsType DEF ReadFails, TypeOK, ServedKept, adapterVars, wireVars
<1>6. CASE StreamFails
  <2> DEFINE r == [calls[cur] EXCEPT !.outcome = "error", !.buf = <<>>, !.rst = "failed"]
  <2>1. /\ pc = "stream" /\ Becomes(r) /\ pc' = "idle" /\ cur' = 0
        /\ UNCHANGED <<adapterVars, wireVars>>
    BY <1>6 DEF StreamFails
  <2>2. r \in CallRecords /\ r.served = calls[cur].served
    BY <2>1, Current, EmptySeq DEF CallRecords
  <2> HIDE DEF r
  <2>3. /\ calls' \in Seq(CallRecords) /\ Len(calls') = Len(calls)
        /\ \A j \in 1 .. Len(calls) : calls'[j] = IF j = cur THEN r ELSE calls[j]
    BY <2>1, <2>2, CurrentBecomes
  <2> QED BY <1>0, <2>1, <2>2, <2>3 DEF TypeOK, ServedKept, adapterVars, wireVars
<1>7. CASE StreamTerminates
  BY <1>0, <1>7, SameCalls DEF StreamTerminates, TypeOK, adapterVars, wireVars
<1>8. CASE StreamBegin
  BY <1>0, <1>8, SameCalls DEF StreamBegin, TypeOK, adapterVars, wireVars
<1>9. CASE StreamLeave
  BY <1>0, <1>9, SameCalls DEF StreamLeave, TypeOK, adapterVars, wireVars
<1>10. CASE StreamOpen
  <2>1. PICK i \in 1 .. Len(calls) :
          cur' = i /\ calls' = [calls EXCEPT ![i] = Reopened(calls[i])]
    BY <1>10 DEF StreamOpen
  <2> DEFINE r == Reopened(calls[i])
  <2>2. calls[i] \in CallRecords
    BY ElementOfSeq DEF TypeOK
  <2>3. r \in CallRecords /\ r.served = calls[i].served
    <3>1. 0 \in 0 .. MaxCalls /\ calls[i].readers + 1 \in Nat
      BY <2>2, CallsAssumption DEF CallRecords
    <3>2. <<>> \in Seq(Incoming)
      BY EmptySeq
    <3> DEFINE Q == Seq(Incoming)
    <3>3. <<>> \in Q /\ CallRecords =
            [host : Hosts, secure : BOOLEAN, stream : BOOLEAN,
             outcome : {"pending", "streaming", "ok", "error"}, chunked : BOOLEAN,
             readers : Nat, answer : 0 .. MaxCalls, body : 0 .. MaxCalls,
             served : Hosts \cup {NoHost}, buf : Q,
             rst : {"start", "body", "done", "interim", "failed"}, clean : BOOLEAN]
      BY <3>2 DEF CallRecords
    <3> HIDE DEF Q
    <3> QED BY <2>2, <3>1, <3>3 DEF Reopened
  <2>4. calls' = [calls EXCEPT ![i] = r]
    BY <2>1
  <2> HIDE DEF r
  <2>5. /\ calls' \in Seq(CallRecords) /\ Len(calls') = Len(calls)
        /\ \A j \in 1 .. Len(calls) : calls'[j] = IF j = i THEN r ELSE calls[j]
    BY <2>3, <2>4, CallsUpdate DEF TypeOK
  <2>6. pc' = "stream" /\ UNCHANGED <<adapterVars, wireVars>>
    BY <1>10 DEF StreamOpen
  <2>7. ServedKept
    BY <2>3, <2>5 DEF ServedKept
  <2>8. cur' \in 0 .. Len(calls') /\ cur' # 0
    BY <1>0, <2>1, <2>5
  <2>9. Len(calls') <= MaxCalls
    BY <2>5 DEF TypeOK
  <2> QED BY <2>5, <2>6, <2>7, <2>8, <2>9 DEF TypeOK, adapterVars, wireVars
<1> QED BY <1>1, <1>2, <1>3, <1>4, <1>5, <1>6, <1>7, <1>8, <1>9, <1>10

\* A new call is added at the end, not yet served.
LEMMA SendStep ==
  ASSUME TypeOK, Send
  PROVE  /\ TypeOK' /\ Len(calls') = Len(calls) + 1
         /\ \A j \in 1 .. Len(calls) : calls'[j].served = calls[j].served
         /\ calls'[Len(calls) + 1].served = NoHost
<1>1. PICK h \in Hosts, secure \in BOOLEAN, stream \in BOOLEAN :
        /\ calls' = Append(calls, NewCall(h, secure, stream))
        /\ pc' = IF is_connected THEN Connected(secure) ELSE "connect"
  BY DEF Send
<1> DEFINE r == NewCall(h, secure, stream)
<1>2. r \in CallRecords /\ r.served = NoHost /\ r.outcome = "pending"
  BY NewCallType DEF NewCall
<1> HIDE DEF r
<1>3. calls \in Seq(CallRecords) /\ Len(calls) \in Nat /\ calls' = Append(calls, r)
  BY <1>1, LenProperties DEF TypeOK, r
<1>4. /\ calls' \in Seq(CallRecords) /\ Len(calls') = Len(calls) + 1
      /\ \A j \in 1 .. Len(calls) : calls'[j] = calls[j]
      /\ calls'[Len(calls) + 1] = r
  BY <1>2, <1>3, AppendProperties
<1>5. pc' \in {"hello", "write", "connect"}
  BY <1>1 DEF Connected
<1>6. /\ Len(calls) < MaxCalls /\ cur' = Len(calls) + 1
      /\ UNCHANGED <<adapterVars, wireVars>>
  BY DEF Send
<1>7. Len(calls') <= MaxCalls
  BY <1>3, <1>4, <1>6, CallsAssumption
<1> QED BY <1>2, <1>3, <1>4, <1>5, <1>6, <1>7 DEF TypeOK, adapterVars, wireVars

\* The peer that answers a request: the record of that call gets its host.
LEMMA ServeRequestStep ==
  ASSUME TypeOK, ServeRequest
  PROVE  /\ TypeOK' /\ Len(calls') = Len(calls)
         /\ \A j \in 1 .. Len(calls) : calls'[j].served \in {calls[j].served, peer}
<1> DEFINE i == Head(c2s).id
           r == [calls[i] EXCEPT !.served = peer]
<1>1. /\ c2s # <<>> /\ c2s' = Tail(c2s) /\ calls' = [calls EXCEPT ![i] = r]
      /\ conn' \in {"tls", "plain"}
      /\ UNCHANGED <<adapterVars, pc, cur>>
  BY DEF ServeRequest
<1>2. Head(c2s) \in Outgoing /\ Tail(c2s) \in Seq(Outgoing)
  BY <1>1, HeadTailProperties DEF TypeOK, Outgoing, ToServerKinds
<1>3. i \in 0 .. MaxCalls /\ Head(c2s).enc \in BOOLEAN
  BY <1>2 DEF Outgoing, Messages
<1>4. s2c' \in Seq(Incoming)
  <2>1. PICK kind \in Replies : s2c' = s2c \o Response(Head(c2s).enc, i)[kind]
    BY DEF ServeRequest
  <2>2. Response(Head(c2s).enc, i)[kind] \in Seq(Incoming)
    BY <1>3, ResponseType
  <2>3. s2c \in Seq(Incoming)
    BY DEF TypeOK
  <2> HIDE DEF i
  <2> QED BY <2>1, <2>2, <2>3, ConcatProperties
<1> HIDE DEF i
<1>5. calls \in Seq(CallRecords) /\ Len(calls) \in Nat /\ peer \in Hosts \cup {NoHost}
  BY LenProperties DEF TypeOK
<1>6. /\ calls' \in Seq(CallRecords) /\ Len(calls') = Len(calls)
      /\ \A j \in 1 .. Len(calls) :
           calls'[j].served \in {calls[j].served, peer} /\ calls'[j].outcome = calls[j].outcome
  <2>1. CASE i \in 1 .. Len(calls)
    <3>1. calls[i] \in CallRecords
      BY <1>5, <2>1, ElementOfSeq
    <3>2. r \in CallRecords /\ r.served = peer /\ r.outcome = calls[i].outcome
      BY <1>5, <3>1 DEF CallRecords
    <3> HIDE DEF r
    <3>3. /\ calls' \in Seq(CallRecords) /\ Len(calls') = Len(calls)
          /\ \A j \in 1 .. Len(calls) : calls'[j] = IF j = i THEN r ELSE calls[j]
      <4>1. calls' = [calls EXCEPT ![i] = r]
        BY <1>1
      <4> QED BY <1>5, <3>2, <4>1, CallsUpdate
    <3> QED BY <3>2, <3>3
  <2>2. CASE i \notin 1 .. Len(calls)
    <3>1. DOMAIN calls = 1 .. Len(calls)
      BY <1>5, LenProperties
    <3>2. calls' = calls
      BY <1>1, <1>5, <2>2, <3>1
    <3> QED BY <1>5, <3>2
  <2> QED BY <2>1, <2>2
<1>7. cur' = cur /\ pc' = pc
  BY <1>1
<1> QED
  <2>1. pc \in {"connect", "hello", "handshake", "write", "read"} => cur \in 1 .. Len(calls)
    BY Current
  <2> QED BY <1>1, <1>2, <1>4, <1>5, <1>6, <2>1
        DEF TypeOK, adapterVars, Outgoing, ToServerKinds

\* The other steps of the peer.
LEMMA ServerSteps ==
  ASSUME TypeOK, ServeHello \/ ServeJunk \/ ServerCloses
  PROVE  TypeOK' /\ UNCHANGED <<calls, adapterVars, pc>>
<1>0. /\ <<>> \in Seq(Outgoing) /\ <<>> \in Seq(Incoming)
      /\ c2s \in Seq(Outgoing) /\ s2c \in Seq(Incoming)
      /\ Outgoing = Messages({"hello", "req", "alert"})
  BY EmptySeq DEF TypeOK, Outgoing, ToServerKinds
<1>1. CASE ServeHello
  <2>1. c2s # <<>> /\ c2s' = Tail(c2s) /\ s2c' = Append(s2c, ToClient("hello", FALSE, Head(c2s).id))
    BY <1>1 DEF ServeHello
  <2>2. Head(c2s) \in Outgoing /\ c2s' \in Seq(Outgoing)
    BY <1>0, <2>1, HeadTailProperties
  <2>3. ToClient("hello", FALSE, Head(c2s).id) \in Incoming
    BY <2>2, MessageTypes DEF Outgoing, Messages
  <2>4. s2c' \in Seq(Incoming)
    BY <1>0, <2>1, <2>3, AppendProperties
  <2> QED BY <1>0, <1>1, <2>2, <2>4 DEF ServeHello, TypeOK, adapterVars
<1>2. CASE ServeJunk
  <2>1. 0 \in 0 .. MaxCalls /\ FALSE \in BOOLEAN
    BY CallsAssumption
  <2>2. ToClient("junk", FALSE, 0) \in Incoming
    BY <2>1, MessageTypes
  <2>3. s2c' \in {s2c, Append(s2c, ToClient("junk", FALSE, 0))} /\ c2s' = <<>>
    BY <1>2 DEF ServeJunk
  <2>4. s2c' \in Seq(Incoming)
    <3> DEFINE m == ToClient("junk", FALSE, 0)
    <3>1. m \in Incoming /\ s2c' \in {s2c, Append(s2c, m)}
      BY <2>2, <2>3
    <3> HIDE DEF m
    <3> QED BY <1>0, <3>1, AppendProperties
  <2> QED BY <1>0, <1>2, <2>3, <2>4 DEF ServeJunk, TypeOK, adapterVars
<1>3. CASE ServerCloses
  BY <1>0, <1>3 DEF ServerCloses, TypeOK, adapterVars
<1> QED BY <1>1, <1>2, <1>3

\* The initial state.
LEMMA TypeInit == Init => TypeOK
<1>1. /\ <<>> \in Seq(Messages({"hello", "req", "alert"})) /\ <<>> \in Seq(Incoming)
      /\ <<>> \in Seq(CallRecords) /\ Len(<<>>) = 0
  BY EmptySeq
<1>2. 0 \in 0 .. 0 /\ 0 <= MaxCalls /\ 0 \in Nat
  BY CallsAssumption
<1>3. ASSUME Init PROVE TypeOK
  <2>1. /\ is_connected = FALSE /\ peer = NoHost /\ ssl = "none" /\ pc = "idle" /\ cur = 0
        /\ conn = "none" /\ c2s = <<>> /\ s2c = <<>> /\ calls = <<>>
    BY <1>3 DEF Init
  <2> QED BY <1>1, <1>2, <2>1 DEF TypeOK
<1> QED BY <1>3

\* The types hold in every step.
LEMMA TypeStep ==
  ASSUME TypeOK, [Next]_vars PROVE TypeOK'
<1>1. CASE Send
  BY <1>1, SendStep
<1>2. CASE StreamOpen \/ StreamBegin \/ StreamLeave
  BY <1>2, ReadSteps
<1>3. CASE Client
  BY <1>3, SendSteps, ReadSteps DEF Client
<1>4. CASE Serve
  BY <1>4, ServeRequestStep, ServerSteps DEF Serve
<1>5. CASE ServerCloses
  BY <1>5, ServerSteps
<1>6. CASE UNCHANGED vars
  BY <1>6 DEF vars, TypeOK
<1> QED BY <1>1, <1>2, <1>3, <1>4, <1>5, <1>6 DEF Next

\* The variables of asio_transport, of its peer and of its calls keep their types, and the
\* thread is in a call exactly when it is not idle.
THEOREM TypeCorrect == Spec => []TypeOK
<1>1. Init => TypeOK
  BY TypeInit
<1>2. TypeOK /\ [Next]_vars => TypeOK'
  BY TypeStep
<1> QED BY <1>1, <1>2, PTL DEF Spec

-----------------------------------------------------------------------------
(* One host *)

\* A step that keeps the connection, begins none and serves no call keeps HostInv.
LEMMA HostKept ==
  ASSUME HostInv, ServedKept, UNCHANGED <<is_connected, peer>>,
         pc' = "connect" => pc = "connect"
  PROVE  HostInv'
BY DEF HostInv, ServedKept

\* connect_to_peer chooses the peer while nothing was served, and no other step does.
LEMMA HostStep ==
  ASSUME TypeOK, HostInv, [Next]_vars PROVE HostInv'
<1> USE DEF adapterVars, wireVars
<1>1. CASE Send
  <2>1. UNCHANGED <<is_connected, peer>> /\ (pc' = "connect" => ~is_connected)
    BY <1>1 DEF Send, Connected
  <2>2. Len(calls) \in Nat
    BY LenProperties DEF TypeOK
  <2> QED BY <1>1, <2>1, <2>2, SendStep DEF HostInv
<1>2. CASE Connect
  <2>1. /\ pc = "connect" /\ is_connected' = TRUE /\ peer' = calls[cur].host
        /\ pc' \in {"hello", "write"} /\ calls' = calls
    BY <1>2 DEF Connect, Connected
  <2>2. peer = NoHost /\ peer' \in Hosts
    BY <2>1, Current DEF HostInv, CallRecords
  <2> QED BY <2>1, <2>2, CallsAssumption DEF HostInv
<1>3. CASE ConnectFails \/ Hello \/ SetupFails \/ HandshakeDone \/ HandshakeRefused
           \/ HandshakeFails \/ Write \/ WriteFails
  <2>1. ServedKept
    BY <1>3, SendSteps
  <2>2. UNCHANGED <<is_connected, peer>> /\ pc' # "connect"
    BY <1>3 DEF ConnectFails, Hello, SetupFails, HandshakeDone, HandshakeRefused,
                HandshakeFails, Write, WriteFails, Fails
  <2> QED BY <2>1, <2>2, HostKept
<1>4. CASE Receive \/ ParseHead \/ ParseRest \/ ParseInterim \/ ReadFails
           \/ StreamFails \/ StreamTerminates \/ StreamOpen \/ StreamBegin \/ StreamLeave
  <2>1. ServedKept
    BY <1>4, ReadSteps
  <2>2. UNCHANGED <<is_connected, peer>> /\ pc' # "connect"
    BY <1>4 DEF Receive, ParseHead, ParseRest, ParseInterim, Complete, ReadFails, Fails,
                StreamFails, StreamTerminates, StreamOpen, StreamBegin, StreamLeave, Reading
  <2> QED BY <2>1, <2>2, HostKept
<1>5. CASE ServeRequest
  <2>1. UNCHANGED <<is_connected, peer, pc>>
    BY <1>5 DEF ServeRequest
  <2> QED BY <1>5, <2>1, ServeRequestStep DEF HostInv
<1>6. CASE ServeHello \/ ServeJunk \/ ServerCloses
  BY <1>6, ServerSteps, SameCalls, HostKept
<1>7. CASE UNCHANGED vars
  BY <1>7 DEF vars, HostInv
<1> QED BY <1>1, <1>2, <1>3, <1>4, <1>5, <1>6, <1>7 DEF Next, Client, Serve

\* connect_to_peer is called at most once for an adapter, and only its host serves calls.
THEOREM AdapterInvariant == Spec => []AdapterInv
<1>1. Init => AdapterInv
  <2>1. Init => HostInv
    BY CallsAssumption DEF Init, HostInv
  <2> QED BY <2>1, TypeInit DEF AdapterInv
<1>2. AdapterInv /\ [Next]_vars => AdapterInv'
  BY TypeStep, HostStep DEF AdapterInv
<1> QED BY <1>1, <1>2, PTL DEF Spec

\* The flag, the peer and the hosts of the served calls agree.
THEOREM FlagAndPeer == Spec => []HostInv
<1>1. AdapterInv => HostInv
  BY DEF AdapterInv
<1> QED BY <1>1, AdapterInvariant, PTL

\* All calls of one adapter are served by one host, whatever hosts they name.
THEOREM OneHostOnly == Spec => []OneHost
<1>1. AdapterInv => OneHost
  BY DEF AdapterInv, HostInv, OneHost
<1> QED BY <1>1, AdapterInvariant, PTL

=============================================================================
