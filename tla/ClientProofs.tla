------------------------------ MODULE ClientProofs ------------------------------
(***************************************************************************)
(* Proofs about Client, for every value of its constants: what holds of a  *)
(* session and of its transport, each proved of its own module, holds of   *)
(* the two together, and ties the requests of the one to the calls of the  *)
(* other.                                                                  *)
(***************************************************************************)
EXTENDS Client, TLAPS

\* The modules of the proofs, over the variables of Client.
R == INSTANCE AsioTransportResponses
SP == INSTANCE SessionProofs WITH calls <- asked

-----------------------------------------------------------------------------
(* The definitions of the two pairs of instances are the same *)

\* The transport's initial state, and what Client says of its calls.
LEMMA SameStart ==
  /\ T!Init <=> R!Init
  /\ T!NoHost = R!NoHost
  /\ \A i : T!Shaken(i) <=> R!Shaken(i)
  /\ T!AllRead <=> R!AllRead
BY DEF T!Init, R!Init, T!NoHost, R!NoHost, T!Shaken, R!Shaken, T!Carries, R!Carries, T!AllRead,
       R!AllRead

\* Its send ...
LEMMA SameSend ==
  T!Send <=> R!Send
BY DEF T!Send, R!Send, T!NewCall, R!NewCall, T!AllRead, R!AllRead, T!Connected, R!Connected,
       T!NoHost, R!NoHost, T!adapterVars, R!adapterVars, T!wireVars, R!wireVars

\* ... the steps of the thread ...
LEMMA SameSteps ==
  /\ T!Client <=> R!Client
  /\ T!StreamOpen <=> R!StreamOpen
  /\ T!StreamBegin <=> R!StreamBegin
  /\ T!StreamLeave <=> R!StreamLeave
<1>1. T!Client <=> R!Client
  BY DEF T!Client, R!Client, T!Marked, R!Marked, T!Connect,
         R!Connect, T!Connected, R!Connected, T!ConnectFails, R!ConnectFails, T!Hello, R!Hello,
         T!SetupFails, R!SetupFails, T!HandshakeDone, R!HandshakeDone, T!HandshakeRefused,
         R!HandshakeRefused, T!HandshakeFails, R!HandshakeFails, T!Write, R!Write, T!Written,
         R!Written, T!WriteFails, R!WriteFails, T!Receive, R!Receive, T!Received, R!Received,
         T!ParseHead, R!ParseHead, T!ParseRest, R!ParseRest, T!ParseInterim, R!ParseInterim,
         T!Complete, R!Complete, T!Reading, R!Reading, T!Buf, R!Buf, T!ThroughSsl, R!ThroughSsl,
         T!Stuck, R!Stuck, T!Becomes, R!Becomes, T!Fails, R!Fails, T!ReadFails, R!ReadFails,
         T!StreamFails, R!StreamFails, T!StreamTerminates, R!StreamTerminates, T!ToServer, R!ToServer,
         T!ToClient, R!ToClient, T!adapterVars, R!adapterVars, T!wireVars, R!wireVars
<1>2. T!Opens = R!Opens
  BY DEF T!Opens, R!Opens, T!Cardinality, R!Cardinality
<1>3. T!StreamOpen <=> R!StreamOpen
  BY <1>2 DEF T!StreamOpen, R!StreamOpen, T!Reopened, R!Reopened, T!adapterVars, R!adapterVars, T!wireVars,
              R!wireVars
<1>4. (T!StreamBegin <=> R!StreamBegin) /\ (T!StreamLeave <=> R!StreamLeave)
  BY DEF T!StreamBegin, R!StreamBegin, T!StreamLeave, R!StreamLeave, T!adapterVars, R!adapterVars, T!wireVars,
         R!wireVars
<1> QED BY <1>1, <1>3, <1>4

\* ... and those of the server.
LEMMA SameServer ==
  /\ T!Serve <=> R!Serve
  /\ T!ServerCloses <=> R!ServerCloses
BY DEF T!Serve, R!Serve, T!ServerCloses, R!ServerCloses, T!ServeHello, R!ServeHello, T!ServeRequest,
       R!ServeRequest, T!ServeJunk, R!ServeJunk, T!Understood, R!Understood, T!Response, R!Response,
       T!ToClient, R!ToClient, T!adapterVars, R!adapterVars, T!wireVars, R!wireVars

\* The parameters of a call of the session, and its fields.
LEMMA SameParameters ==
  /\ \A c : S!Parameters(c) = SP!Parameters(c)
  /\ \A r : S!Fields(r) = SP!Fields(r)
  /\ S!Default = SP!Default
  /\ S!Init <=> SP!Init
BY DEF S!Parameters, SP!Parameters, S!RequestParameters, SP!RequestParameters, S!FoldLeft,
       SP!FoldLeft, S!MapThenFoldSet, SP!MapThenFoldSet, S!Max, SP!Max, S!NoParameters,
       SP!NoParameters, S!ParamKinds, SP!ParamKinds, S!Fields, SP!Fields, S!EmptyDictionary,
       SP!EmptyDictionary, S!HeadersOf, SP!HeadersOf, S!AddAll, SP!AddAll, S!SetField, SP!SetField,
       S!With, SP!With, S!Default, SP!Default, S!KnownFields, SP!KnownFields, S!Value, SP!Value,
       S!Init, SP!Init

\* What it makes of them ...
LEMMA SamePreparation ==
  /\ \A h, r, n : S!Prepared(h, r, n) = SP!Prepared(h, r, n)
  /\ \A r : S!Body(r) = SP!Body(r)
BY DEF S!Fields, SP!Fields, S!EmptyDictionary, SP!EmptyDictionary, S!HeadersOf, SP!HeadersOf,
       S!AddAll, SP!AddAll, S!SetField, SP!SetField, S!With, SP!With, S!FoldLeft, SP!FoldLeft,
       S!MapThenFoldSet, SP!MapThenFoldSet, S!Max, SP!Max, S!ParamsOf, SP!ParamsOf, S!CString,
       SP!CString, S!Emplace, SP!Emplace, S!WithGiven, SP!WithGiven, S!WithHost, SP!WithHost,
       S!WithAuth, SP!WithAuth, S!Insert, SP!Insert, S!Prepared, SP!Prepared, S!Value, SP!Value,
       S!Given, SP!Given, S!KnownFields, SP!KnownFields, S!Body, SP!Body, S!Data, SP!Data,
       S!ValueOr, SP!ValueOr

\* ... with their targets ...
LEMMA SameTarget ==
  \A path, r : S!Target(path, r) = SP!Target(path, r)
BY DEF S!Target, SP!Target, S!EmptyDictionary, SP!EmptyDictionary, S!Last, SP!Last, S!Front,
       SP!Front, S!ParamsOf, SP!ParamsOf, S!CString, SP!CString, S!AddAll, SP!AddAll, S!Emplace,
       SP!Emplace, S!With, SP!With, S!FoldLeft, SP!FoldLeft, S!MapThenFoldSet, SP!MapThenFoldSet,
       S!Max, SP!Max

\* ... and how they can end.
LEMMA SameEnds ==
  \A r :
    /\ S!Aborts(r) <=> SP!Aborts(r)
    /\ S!UrlThrows(r) <=> SP!UrlThrows(r)
    /\ S!Throws(r) <=> SP!Throws(r)
BY SameParameters DEF S!Aborts, SP!Aborts, S!UrlThrows, SP!UrlThrows, S!Throws, SP!Throws, S!UrlStatus,
       SP!UrlStatus, S!KnownFields, SP!KnownFields

\* Its calls.
LEMMA SameCalls ==
  \A c :
    /\ S!Request(c) <=> SP!Request(c)
    /\ S!RequestRefused(c) <=> SP!RequestRefused(c)
    /\ S!RequestThrows(c) <=> SP!RequestThrows(c)
    /\ S!RequestAborts(c) <=> SP!RequestAborts(c)
    /\ S!EditHeaders(c) <=> SP!EditHeaders(c)
BY SameParameters, SamePreparation, SameTarget, SameEnds, ZenonT(30)
   DEF S!Request, SP!Request, S!RequestRefused, SP!RequestRefused, S!RequestThrows,
       SP!RequestThrows, S!RequestAborts, SP!RequestAborts, S!EditHeaders, SP!EditHeaders, S!This,
       SP!This, S!Goes, SP!Goes, S!AfterPost, SP!AfterPost, S!Insert, SP!Insert, S!Value, SP!Value,
       S!EncodedStr, SP!EncodedStr, S!Base64, SP!Base64

-----------------------------------------------------------------------------
(* The inductive invariant *)

\* What holds of the transport, of the session, and between the two.
Inv ==
  /\ TypeOK /\ CompositionInv
  /\ R!ResponseInv /\ R!PeerInv
  /\ SP!HeadersInv

\* The assumptions of the three modules.
LEMMA Assumptions ==
  /\ R!CallsAssumption
  /\ MaxCalls \in Nat /\ MaxSessions \in Nat /\ \A c \in Calls : SP!IsCall(c)
  /\ \A c \in Calls : IsCall(c)
<1>1. R!CallsAssumption
  BY ClientAssumption DEF R!CallsAssumption, R!NoHost, T!NoHost
<1>2. \A c : IsCall(c) <=> SP!IsCall(c)
  BY DEF IsCall, SP!IsCall, Typed, SP!Typed, IsList, SP!IsList, ParamKinds, SP!ParamKinds,
         KnownFields, SP!KnownFields, Call, SP!Call, Edit, SP!Edit, Range, SP!Range
<1> QED BY <1>1, <1>2, ClientAssumption

\* What is proved of the transport alone holds of it here ...
LEMMA TransportStep ==
  ASSUME R!ResponseInv, R!PeerInv, [R!Next]_(R!vars)
  PROVE  R!ResponseInv' /\ R!PeerInv'
<1>1. R!ResponseInv'
  BY R!ResponseStep, Assumptions DEF R!CallsAssumption, R!NoHost
<1> QED BY <1>1, R!PeerStep, Assumptions DEF R!CallsAssumption, R!NoHost

\* ... and so does what is proved of the session.
LEMMA SessionStep ==
  ASSUME SP!HeadersInv, [SP!Next]_(SP!vars)
  PROVE  SP!HeadersInv'
BY SP!HeadersStep, Assumptions

\* The requests and the calls.
LEMMA Requests ==
  ASSUME Inv
  PROVE  /\ DOMAIN calls = 1 .. Len(calls) /\ DOMAIN sent = 1 .. Len(calls) /\ Len(calls) \in Nat
         /\ DOMAIN asked = 1 .. Len(asked) /\ Len(asked) \in Nat
         /\ \A n \in DOMAIN asked : asked[n] \in Calls
         /\ \A i \in DOMAIN calls : sent[i].call \in DOMAIN asked
<1>1. SP!TypeOK
  BY DEF Inv, SP!HeadersInv
<1>2. asked \in Seq(Calls) /\ sent \in Seq(SP!Range(sent))
  BY <1>1 DEF SP!TypeOK, SP!IsList
<1>3. calls \in Seq(R!CallRecords)
  BY DEF Inv, R!ResponseInv, R!PlacesInv, R!AdapterInv, R!TypeOK
<1>4. DOMAIN calls = 1 .. Len(calls) /\ DOMAIN sent = 1 .. Len(calls) /\ Len(calls) \in Nat
  BY <1>2, <1>3 DEF Inv, TypeOK
<1>5. \A i \in DOMAIN calls : sent[i].call \in DOMAIN asked
  BY <1>1, <1>4 DEF SP!TypeOK
<1> QED BY <1>2, <1>4, <1>5

-----------------------------------------------------------------------------
(* The steps of the transport *)

Moves == Transports \/ Serves \/ Closes \/ Reads

\* They are steps of the transport, the session does not change, and a handshake is done where
\* the two ends agree.
LEMMA MovesAre ==
  ASSUME Moves
  PROVE  /\ R!Later /\ UNCHANGED <<sessionVars, clientVars>>
         /\ R!StreamOpen \/ R!StreamBegin => owner = "caller"
         /\ R!HandshakeDone => Agree /\ UNCHANGED <<peer, cur>>
<1>1. /\ R!Client \/ R!Serve \/ R!ServerCloses \/ R!StreamOpen \/ R!StreamBegin \/ R!StreamLeave
      /\ UNCHANGED <<sessionVars, clientVars>>
  BY SameSteps, SameServer DEF Moves, Transports, Serves, Closes, Reads
<1>2. R!Later
  BY <1>1 DEF R!Later
<1>3. ASSUME R!StreamOpen \/ R!StreamBegin PROVE owner = "caller"
  <2>1. pc = "idle" /\ pc' = "stream"
    BY <1>3 DEF R!StreamOpen, R!StreamBegin
  <2>2. ~R!Client /\ ~R!Serve /\ ~R!ServerCloses
    BY <2>1 DEF R!Client, R!Connect, R!ConnectFails, R!Hello, R!SetupFails, R!HandshakeDone,
                R!HandshakeRefused, R!HandshakeFails, R!Write, R!WriteFails, R!Receive, R!Reading,
                R!ParseHead, R!ParseRest, R!ParseInterim, R!ReadFails, R!StreamFails,
                R!StreamTerminates, R!Serve, R!ServeHello, R!ServeRequest, R!ServeJunk, R!ServerCloses
  <2> QED BY <2>2, SameSteps, SameServer DEF Moves, Transports, Serves, Closes, Reads
<1>4. ASSUME R!HandshakeDone PROVE Agree /\ UNCHANGED <<peer, cur>>
  <2>1. /\ pc = "handshake" /\ s2c # <<>> /\ Head(s2c).kind = "hello" /\ pc' = "write"
        /\ UNCHANGED <<peer, cur>>
    BY <1>4 DEF R!HandshakeDone
  <2>2. ~R!Serve /\ ~R!ServerCloses /\ ~R!StreamOpen /\ ~R!StreamBegin /\ ~R!StreamLeave
    BY <2>1 DEF R!Serve, R!ServeHello, R!ServeRequest, R!ServeJunk, R!ServerCloses, R!StreamOpen,
                R!StreamBegin, R!StreamLeave
  <2>3. Transports
    BY <2>2, SameSteps, SameServer DEF Moves, Serves, Closes, Reads
  <2> QED BY <2>1, <2>3 DEF Transports
<1> QED BY <1>1, <1>2, <1>3, <1>4

\* The peer is good for the verify(...) of the call that is in its handshake, if the client agrees.
LEMMA AgreeGood ==
  ASSUME Agree PROVE GoodFor(Current.verify, peer)
<1> DEFINE v == Current.verify[1]
<1>1. SUFFICES ASSUME Current.verify # <<>>, v.on
               PROVE  v.kind = "path" /\ Disk[v.path] = Signer[peer]
  BY DEF GoodFor
<1>2. ValueOr(Current.verify, NotGiven) = v
  BY <1>1 DEF ValueOr
<1> HIDE DEF v
<1>3. Stream.verifies = v.on
  BY <1>2 DEF Stream, Prepared, SetVerifyMode, NewStream
<1>4. Stream.trusted = IF v.kind = "path" /\ Disk[v.path] # "nothing" THEN {Disk[v.path]} ELSE {}
  BY <1>2 DEF Stream, Prepared, UseCertificateFile, LoadVerifyFile, NewContext
<1>5. Signer[peer] \in Stream.trusted
  BY <1>1, <1>3 DEF Agree
<1> QED BY <1>4, <1>5

\* A handshake made in such a step is one for a host that is good.
LEMMA MovesShaken ==
  ASSUME Inv, Moves, R!ResponseInv'
  PROVE  ShakenInv'
<1>0. R!Later /\ UNCHANGED <<sent, asked>> /\ (R!HandshakeDone => Agree /\ UNCHANGED <<peer, cur>>)
  BY MovesAre DEF sessionVars
<1>1. /\ Len(calls') = Len(calls) /\ DOMAIN calls' = 1 .. Len(calls') /\ DOMAIN calls = 1 .. Len(calls)
      /\ \A i \in 1 .. Len(calls) : R!Shaken(i)' => R!Shaken(i) \/ (R!HandshakeDone /\ i = cur)
      /\ peer' = peer \/ R!Connect
  <2>1. R!ArgumentsKept
    BY <1>0, R!CallsKept, Assumptions DEF Inv, R!CallsAssumption, R!NoHost
  <2>2. calls' \in Seq(R!CallRecords)
    BY DEF R!ResponseInv, R!PlacesInv, R!AdapterInv, R!TypeOK
  <2>3. \A i \in 1 .. Len(calls) : R!Shaken(i)' => R!Shaken(i) \/ (R!HandshakeDone /\ i = cur)
    BY <1>0, R!AskedKept, Assumptions DEF Inv, R!CallsAssumption, R!NoHost
  <2>4. peer' = peer \/ R!Connect
    BY <1>0, R!PeerKept, Assumptions DEF Inv, R!CallsAssumption, R!NoHost
  <2> QED BY <2>1, <2>2, <2>3, <2>4, Requests DEF R!ArgumentsKept
<1>2. ASSUME NEW i \in 1 .. Len(calls), R!Shaken(i)'
      PROVE  GoodFor(S!Parameters(asked[sent[i].call]).verify, peer')
  <2>1. CASE R!Connect
    <3>1. conn' = "fresh"
      BY <2>1 DEF R!Connect
    <3>2. ~R!Shaken(i)'
      BY <1>1, <3>1 DEF R!ResponseInv, R!PlacesInv, R!HelloInv
    <3> QED BY <1>2, <3>2
  <2>2. CASE R!Shaken(i) /\ peer' = peer
    BY <1>1, <2>2, SameStart DEF Inv, CompositionInv, ShakenInv
  <2>3. CASE R!HandshakeDone /\ i = cur
    BY <1>0, <2>3, AgreeGood DEF Current
  <2> QED BY <1>1, <1>2, <2>1, <2>2, <2>3
<1>3. (\A i : T!Shaken(i) <=> R!Shaken(i))'
  BY SameStart, PTL
<1> QED BY <1>0, <1>1, <1>2, <1>3 DEF ShakenInv

\* They keep the invariant.
LEMMA MovesKeep ==
  ASSUME Inv, Moves PROVE Inv'
<1>0. /\ R!Later /\ UNCHANGED <<sessionVars, clientVars>>
      /\ R!StreamOpen \/ R!StreamBegin => owner = "caller"
      /\ R!ResponseInv /\ R!PeerInv /\ SP!HeadersInv /\ TypeOK /\ CompositionInv
  BY MovesAre DEF Inv
<1>1. R!ResponseInv' /\ R!PeerInv'
  <2>1. [R!Next]_(R!vars)
    BY <1>0 DEF R!Later, R!Next
  <2> QED BY <1>0, <2>1, TransportStep
<1>2. SP!HeadersInv'
  BY <1>0, SessionStep DEF sessionVars, SP!vars
<1>3. /\ R!ArgumentsKept
      /\ \A i \in 1 .. Len(calls) :
           /\ calls'[i].outcome = "ok" =>
                calls[i].outcome = "ok" \/ (i = cur /\ pc \in {"read", "stream"})
           /\ calls'[i].readers = calls[i].readers \/ R!StreamOpen
  BY <1>0, <1>1, R!CallsKept, Assumptions DEF R!CallsAssumption, R!NoHost
<1>4. /\ Len(calls') = Len(calls) /\ Len(calls) \in Nat
      /\ DOMAIN calls = 1 .. Len(calls) /\ DOMAIN calls' = 1 .. Len(calls)
  <2>1. calls' \in Seq(R!CallRecords)
    BY <1>1 DEF R!ResponseInv, R!PlacesInv, R!AdapterInv, R!TypeOK
  <2> QED BY <1>3, <2>1, Requests DEF R!ArgumentsKept
<1>5. UNCHANGED <<headers, sent, asked, aborted, owner, sessions, held, undefined>>
  BY <1>0 DEF sessionVars, clientVars
<1>6. TypeOK'
  <2>1. pc = "idle" /\ calls = <<>> => pc' = "idle" /\ calls' = <<>>
    <3>1. ASSUME pc = "idle", calls = <<>> PROVE pc' = "idle"
      <4>1. ~R!StreamOpen /\ ~R!StreamBegin
        <5>1. \A i \in 1 .. Len(calls) : FALSE
          BY <3>1
        <5> QED BY <5>1 DEF R!StreamOpen, R!StreamBegin
      <4> QED BY <1>0, <3>1, <4>1 DEF R!Later, R!Client, R!Connect, R!ConnectFails, R!Hello, R!SetupFails,
                R!HandshakeDone, R!HandshakeRefused, R!HandshakeFails, R!Write, R!WriteFails, R!Receive,
                R!Reading, R!ParseHead, R!ParseRest, R!ParseInterim, R!ReadFails, R!StreamFails,
                R!StreamTerminates, R!StreamLeave, R!Serve, R!ServeHello, R!ServeRequest, R!ServeJunk,
                R!ServerCloses, R!vars
    <3>2. ASSUME calls = <<>> PROVE calls' = <<>>
      <4>1. calls' \in Seq(R!CallRecords) /\ Len(calls') = 0
        BY <1>1, <1>4, <3>2 DEF R!ResponseInv, R!PlacesInv, R!AdapterInv, R!TypeOK
      <4> QED BY <4>1
    <3> QED BY <3>1, <3>2
  <2> QED BY <1>0, <1>4, <1>5, <2>1 DEF TypeOK
<1>7. HandedOver'
  <2>1. \A i \in 1 .. Len(calls) :
          LET r == S!Parameters(asked[sent[i].call])
          IN  /\ r.url # <<>> /\ r.url[1].status = "parsed"
              /\ calls'[i].host = r.url[1].host /\ calls'[i].secure = r.url[1].secure
              /\ calls'[i].stream = Streamed(r)
    BY <1>0, <1>3, <1>4, SMTT(30) DEF CompositionInv, HandedOver, R!ArgumentsKept
  <2> QED BY <1>4, <1>5, <2>1 DEF HandedOver, S!Parameters
<1>8. AloneInv'
  <2>1. ASSUME owner = "function"
        PROVE  /\ pc' \notin {"stream", "terminated"} /\ (pc' = "read" => ~calls'[cur'].stream)
               /\ \A i \in DOMAIN calls' : calls'[i].readers = 0
               /\ \A i \in DOMAIN calls' :
                    calls'[i].clean /\ (calls'[i].outcome = "ok" => ~calls'[i].stream)
    <3>1. /\ pc \notin {"stream", "terminated"} /\ (pc = "read" => ~calls[cur].stream)
          /\ \A i \in 1 .. Len(calls) : calls[i].readers = 0
          /\ \A i \in 1 .. Len(calls) : calls[i].clean /\ (calls[i].outcome = "ok" => ~calls[i].stream)
      BY <1>0, <1>4, <2>1 DEF CompositionInv, AloneInv
    <3>2. /\ pc' = "read" => UNCHANGED cur /\ (pc = "read" \/ (pc = "write" /\ ~calls[cur].stream))
          /\ pc' \in {"stream", "terminated"} => pc \in {"stream", "terminated"} \/ R!StreamOpen \/ R!StreamBegin
      BY <1>0, R!ReadersAre, Assumptions DEF R!CallsAssumption, R!NoHost
    <3>3. pc # "idle" => cur \in 1 .. Len(calls)
      BY <1>0, R!Current, Assumptions DEF R!CallsAssumption, R!NoHost, R!ResponseInv, R!PlacesInv, R!AdapterInv
    <3>4. pc' = "read" => ~calls'[cur'].stream
      BY <1>3, <3>1, <3>2, <3>3 DEF R!ArgumentsKept
    <3>5. \A i \in 1 .. Len(calls) : calls'[i].clean /\ (calls'[i].outcome = "ok" => ~calls'[i].stream)
      BY <1>3, <3>1 DEF R!ArgumentsKept
    <3>6. ~R!StreamOpen /\ ~R!StreamBegin
      BY <1>0, <2>1
    <3>7. \A i \in 1 .. Len(calls) : calls'[i].readers = 0
      BY <1>3, <3>1, <3>6
    <3> QED BY <1>4, <3>1, <3>2, <3>4, <3>5, <3>6, <3>7
  <2> QED BY <1>0, <1>4, <1>5, <2>1 DEF CompositionInv, AloneInv
<1> QED BY <1>1, <1>2, <1>6, <1>7, <1>8, MovesShaken DEF Inv, CompositionInv

-----------------------------------------------------------------------------
(* The calls of the session *)

\* One more call is known, and those before it are as they were.
LEMMA AskedOneMore ==
  ASSUME Inv, NEW c \in Calls, Asks(c)
  PROVE  /\ Len(asked') = Len(asked) + 1 /\ asked'[Len(asked) + 1] = c
         /\ \A n \in DOMAIN asked : asked'[n] = asked[n]
         /\ [SP!Next]_(SP!vars)
         /\ [R!Next]_(R!vars)
<1>1. \/ SP!Request(c) /\ T!Send
      \/ /\ SP!RequestRefused(c) \/ SP!RequestThrows(c) \/ SP!RequestAborts(c) \/ SP!EditHeaders(c)
         /\ UNCHANGED transportVars
  BY SameCalls DEF Asks, Sends
<1>2. asked' = Append(asked, c) /\ SP!Next
  BY <1>1 DEF SP!Request, SP!RequestRefused, SP!RequestThrows, SP!RequestAborts, SP!EditHeaders, SP!Next
<1>3. asked \in Seq(Calls)
  BY DEF Inv, SP!HeadersInv, SP!TypeOK
<1>4. R!Send \/ UNCHANGED transportVars
  BY <1>1, SameSend
<1> QED BY <1>2, <1>3, <1>4 DEF R!Next, R!vars, transportVars

\* A request is handed over with what its parameters say.
LEMMA RequestHanded ==
  ASSUME Inv, NEW c \in Calls, S!Request(c), Sends(S!Parameters(c))
  PROVE  LET n == Len(calls)
             r == S!Parameters(c)
         IN  /\ n \in Nat /\ Len(sent') = n + 1 /\ Len(calls') = n + 1
             /\ DOMAIN calls' = 1 .. n + 1
             /\ \A i \in 1 .. n : sent'[i] = sent[i] /\ calls'[i] = calls[i]
             /\ sent'[n + 1].call = Len(asked) + 1
             /\ r.url # <<>> /\ r.url[1].status = "parsed"
             /\ calls'[n + 1].host = r.url[1].host /\ calls'[n + 1].secure = r.url[1].secure
             /\ calls'[n + 1].stream = Streamed(r)
<1> DEFINE r == S!Parameters(c)
<1>1. SP!Request(c) /\ SP!TypeOK /\ R!Send /\ R!ResponseInv /\ Len(sent) = Len(calls)
  BY SameCalls, SameSend DEF Inv, TypeOK, SP!HeadersInv, Sends
<1>2. PICK n \in Nat : n = Len(calls)
  BY Requests
<1>3. /\ Len(calls') = n + 1 /\ \A i \in 1 .. n : calls'[i] = calls[i]
      /\ DOMAIN calls' = 1 .. n + 1
  <2>1. Len(calls') = n + 1 /\ \A i \in 1 .. n : calls'[i] = calls[i]
    BY <1>1, <1>2, R!SendLeaves, Assumptions DEF R!CallsAssumption, R!NoHost
  <2>2. [R!Next]_(R!vars)
    BY <1>1 DEF R!Next
  <2>3. calls' \in Seq(R!CallRecords)
    BY <2>2, TransportStep DEF Inv, R!ResponseInv, R!PlacesInv, R!AdapterInv, R!TypeOK
  <2> QED BY <1>2, <2>1, <2>3
<1>4. /\ Len(sent') = n + 1 /\ \A i \in 1 .. n : sent'[i] = sent[i]
      /\ sent'[n + 1].call = Len(asked) + 1
  <2> DEFINE h == SP!Prepared(headers, SP!Parameters(c), SP!This)
  <2>1. /\ DOMAIN sent = 1 .. Len(sent) /\ DOMAIN sent' = 1 .. n + 1
        /\ \A i \in DOMAIN sent : sent'[i] = sent[i]
        /\ sent'[n + 1] = SP!Handed(c, SP!This, h) /\ SP!IsList(sent')
    BY <1>1, <1>2, SP!RequestStep, Assumptions
  <2>2. sent'[n + 1].call = Len(asked) + 1
    BY <2>1 DEF SP!Handed, SP!This
  <2>3. Len(sent') = n + 1
    BY <1>2, <2>1 DEF SP!IsList
  <2> QED BY <1>1, <1>2, <2>1, <2>2, <2>3
<1>5. r.url # <<>> /\ r.url[1].status = "parsed"
  BY <1>1, SP!GoodParameters, SameParameters, Assumptions DEF SP!Request
<1>6. /\ calls'[n + 1].host = r.url[1].host /\ calls'[n + 1].secure = r.url[1].secure
      /\ calls'[n + 1].stream = Streamed(r)
  BY <1>3 DEF Sends, Last
<1> QED BY <1>2, <1>3, <1>4, <1>5, <1>6

\* A call of the session, by the caller or by a free function, keeps the invariant.
LEMMA AsksKeep ==
  ASSUME Inv, NEW c \in Calls, Asks(c),
         owner' \in {"caller", "function"}, owner' = "function" => owner = "nobody",
         sessions' \in 0 .. MaxSessions, UNCHANGED <<held, undefined>>
  PROVE  Inv'
<1>0. /\ R!ResponseInv /\ R!PeerInv /\ SP!HeadersInv /\ TypeOK /\ CompositionInv
      /\ Len(asked') = Len(asked) + 1 /\ asked'[Len(asked) + 1] = c
      /\ \A n \in DOMAIN asked : asked'[n] = asked[n]
      /\ [SP!Next]_(SP!vars) /\ [R!Next]_(R!vars)
  BY AskedOneMore DEF Inv
<1>1. R!ResponseInv' /\ R!PeerInv' /\ SP!HeadersInv'
  BY <1>0, TransportStep, SessionStep
<1>2. PICK n \in Nat : n = Len(calls)
  BY Requests
<1>3. /\ DOMAIN calls = 1 .. n /\ Len(asked) \in Nat
      /\ \A i \in 1 .. n : asked'[sent[i].call] = asked[sent[i].call]
  BY <1>0, <1>2, Requests
<1>4. owner = "nobody" => asked = <<>> /\ calls = <<>> /\ pc = "idle"
  BY <1>0 DEF TypeOK, CompositionInv, AloneInv
<1>5. \A i \in 1 .. n :
        LET r == S!Parameters(asked'[sent[i].call])
        IN  /\ r.url # <<>> /\ r.url[1].status = "parsed"
            /\ calls[i].host = r.url[1].host /\ calls[i].secure = r.url[1].secure
            /\ calls[i].stream = Streamed(r)
            /\ R!Shaken(i) => GoodFor(r.verify, peer)
  BY <1>0, <1>3, SameStart DEF CompositionInv, HandedOver, ShakenInv
<1>6. (\A i : T!Shaken(i) <=> R!Shaken(i))'
  BY SameStart, PTL
<1>7. CASE S!Request(c) /\ Sends(S!Parameters(c))
  <2>1. LET r == S!Parameters(c)
        IN  /\ Len(sent') = n + 1 /\ Len(calls') = n + 1 /\ DOMAIN calls' = 1 .. n + 1
            /\ \A i \in 1 .. n : sent'[i] = sent[i] /\ calls'[i] = calls[i]
            /\ sent'[n + 1].call = Len(asked) + 1
            /\ r.url # <<>> /\ r.url[1].status = "parsed"
            /\ calls'[n + 1].host = r.url[1].host /\ calls'[n + 1].secure = r.url[1].secure
            /\ calls'[n + 1].stream = Streamed(r)
    BY <1>2, <1>7, RequestHanded
  <2>2. R!Send
    BY <1>7, SameSend DEF Sends
  <2>3. /\ calls'[n + 1].outcome = "pending" /\ calls'[n + 1].clean = R!AllRead
        /\ calls'[n + 1].readers = 0
        /\ pc' \in {"connect", "hello", "write"} /\ peer' = peer
        /\ \A i \in 1 .. n + 1 : R!Shaken(i)' => i \in 1 .. n /\ R!Shaken(i)
    BY <1>0, <1>2, <2>2, R!SendLeaves, Assumptions
       DEF R!CallsAssumption, R!NoHost, R!Send, R!adapterVars
  <2>4. TypeOK'
    BY <1>0, <2>1 DEF TypeOK
  <2>5. \A i \in 1 .. n + 1 : i \in 1 .. n \/ i = n + 1
    OBVIOUS
  <2>6. HandedOver'
    <3>1. ASSUME NEW i \in 1 .. n + 1
          PROVE  LET r == S!Parameters(asked'[sent'[i].call])
                 IN  /\ r.url # <<>> /\ r.url[1].status = "parsed"
                     /\ calls'[i].host = r.url[1].host /\ calls'[i].secure = r.url[1].secure
                     /\ calls'[i].stream = Streamed(r)
      BY <1>0, <1>5, <2>1, <2>5, ZenonT(30)
    <3> QED BY <2>1, <3>1 DEF HandedOver, S!Parameters
  <2>7. ShakenInv'
    <3>1. ASSUME NEW i \in 1 .. n + 1, R!Shaken(i)'
          PROVE  GoodFor(S!Parameters(asked'[sent'[i].call]).verify, peer')
      BY <1>5, <2>1, <2>3, <3>1
    <3> QED BY <1>6, <2>1, <3>1 DEF ShakenInv, S!Parameters
  <2>8. AloneInv'
    <3>1. SUFFICES ASSUME owner' = "function"
                   PROVE  /\ Len(asked') <= 1 /\ Len(calls') <= 1
                          /\ \A i \in 1 .. n + 1 : calls'[i].readers = 0
                          /\ \A i \in 1 .. n + 1 :
                               calls'[i].clean /\ (calls'[i].outcome = "ok" => ~calls'[i].stream)
      BY <2>1, <2>3 DEF AloneInv
    <3>2. asked = <<>> /\ calls = <<>> /\ n = 0
      BY <1>2, <1>4, <3>1
    <3>3. R!AllRead
      BY <3>2 DEF R!AllRead
    <3>4. \A i \in 1 .. n + 1 : i = n + 1
      BY <3>2
    <3>5. calls'[n + 1].clean
      BY <2>3, <3>3
    <3>6. calls'[n + 1].outcome # "ok" /\ calls'[n + 1].readers = 0
      BY <2>3
    <3>7. Len(asked') <= 1 /\ Len(calls') <= 1
      BY <1>0, <2>1, <3>2
    <3> QED BY <3>4, <3>5, <3>6, <3>7
  <2> QED BY <1>1, <2>4, <2>6, <2>7, <2>8 DEF Inv, CompositionInv
<1>8. CASE /\ S!RequestRefused(c) \/ S!RequestThrows(c) \/ S!RequestAborts(c) \/ S!EditHeaders(c)
           /\ UNCHANGED transportVars
  <2>1. UNCHANGED <<sent, calls, pc, peer, cur, c2s>>
    BY <1>8 DEF S!RequestRefused, S!RequestThrows, S!RequestAborts, S!EditHeaders, transportVars
  <2>2. TypeOK'
    BY <1>0, <2>1 DEF TypeOK
  <2>3. HandedOver'
    BY <1>2, <1>3, <1>5, <2>1 DEF HandedOver, S!Parameters
  <2>4. ShakenInv'
    <3>1. \A i \in 1 .. n : R!Shaken(i)' <=> R!Shaken(i)
      BY <2>1 DEF R!Shaken
    <3> QED BY <1>2, <1>3, <1>5, <1>6, <2>1, <3>1 DEF ShakenInv, S!Parameters
  <2>5. AloneInv'
    BY <1>0, <1>4, <2>1 DEF AloneInv
  <2> QED BY <1>1, <2>2, <2>3, <2>4, <2>5 DEF Inv, CompositionInv
<1> QED BY <1>7, <1>8 DEF Asks

-----------------------------------------------------------------------------
(* The life of a session *)

\* A session that is new, or gone, has the invariant.
LEMMA NewKeeps ==
  /\ R!Init /\ SP!Init /\ owner = "nobody" /\ sessions \in 0 .. MaxSessions
  /\ held \subseteq [call : Calls, chunked : BOOLEAN] /\ undefined \in BOOLEAN
  => Inv
<1> SUFFICES ASSUME R!Init, SP!Init, owner = "nobody", sessions \in 0 .. MaxSessions,
                    held \subseteq [call : Calls, chunked : BOOLEAN], undefined \in BOOLEAN
             PROVE  Inv
  OBVIOUS
<1>1. R!ResponseInv /\ R!PeerInv
  <2>1. R!ResponseInv
    BY R!ResponseInit, Assumptions DEF R!CallsAssumption, R!NoHost
  <2> QED BY <2>1 DEF R!Init, R!PeerInv
<1>2. SP!HeadersInv
  BY SP!HeadersInit, Assumptions
<1>3. sent = <<>> /\ asked = <<>> /\ calls = <<>> /\ pc = "idle"
  BY DEF R!Init, SP!Init
<1>4. TypeOK
  BY <1>3 DEF TypeOK
<1>5. CompositionInv
  BY <1>3 DEF CompositionInv, HandedOver, ShakenInv, AloneInv
<1> QED BY <1>1, <1>2, <1>4, <1>5 DEF Inv

\* What comes after the end of a session is as at the start, but for the results that are held.
LEMMA EndKeeps ==
  ASSUME Inv, End PROVE Inv'
<1>1. pc = "idle" /\ aborted = FALSE
  <2>1. aborted \in BOOLEAN
    BY DEF Inv, SP!HeadersInv, SP!TypeOK
  <2> QED BY <2>1 DEF End, Runs
<1>2. cur = 0
  BY <1>1 DEF Inv, R!ResponseInv, R!PlacesInv, R!AdapterInv, R!TypeOK
<1>3. R!Init' /\ SP!Init'
  BY <1>1, <1>2, SameParameters DEF End, R!Init, SP!Init, T!NoHost, R!NoHost
<1>4. Returned \subseteq [call : Calls, chunked : BOOLEAN]
  <2>1. \A i \in DOMAIN calls : calls[i].chunked \in BOOLEAN
    BY Requests, R!QueueTypes, Assumptions
       DEF R!CallsAssumption, R!NoHost, R!CallRecords, Inv, R!ResponseInv, R!PlacesInv, R!AdapterInv
  <2>2. \A i \in DOMAIN calls : asked[sent[i].call] \in Calls
    BY Requests
  <2> QED BY <2>1, <2>2 DEF Returned
<1>5. (/\ R!Init /\ SP!Init /\ owner = "nobody" /\ sessions \in 0 .. MaxSessions
       /\ held \subseteq [call : Calls, chunked : BOOLEAN] /\ undefined \in BOOLEAN)'
  BY <1>3, <1>4 DEF End, Inv, TypeOK
<1> QED BY <1>5, NewKeeps, PTL

\* The invariant holds initially: there is no session, and what the next one starts with is new.
LEMMA InvInit == Init => Inv
<1> SUFFICES ASSUME Init PROVE Inv
  OBVIOUS
<1>1. R!Init /\ SP!Init
  BY SameStart, SameParameters DEF Init
<1>2. /\ owner = "nobody" /\ sessions \in 0 .. MaxSessions
      /\ held \subseteq [call : Calls, chunked : BOOLEAN] /\ undefined \in BOOLEAN
  <2>1. owner = "nobody" /\ held \subseteq [call : Calls, chunked : BOOLEAN] /\ sessions = 0
    BY DEF Init
  <2>2. undefined \in BOOLEAN
    BY DEF Init
  <2>3. sessions \in 0 .. MaxSessions
    BY <2>1, Assumptions
  <2> QED BY <2>1, <2>2, <2>3
<1> QED BY <1>1, <1>2, NewKeeps

\* Every step of the program keeps it.
LEMMA InvStep == Inv /\ [Next]_vars => Inv'
<1> SUFFICES ASSUME Inv, [Next]_vars PROVE Inv'
  OBVIOUS
<1>1. CASE Moves
  BY <1>1, MovesKeep
<1>2. CASE Ask
  BY <1>2, AsksKeep DEF Ask, clientVars, Inv, TypeOK
<1>3. CASE Function
  <2>1. sessions' \in 0 .. MaxSessions
    BY <1>3, ClientAssumption DEF Function, Inv, TypeOK
  <2> QED BY <1>3, <2>1, AsksKeep DEF Function
<1>4. CASE End
  BY <1>4, EndKeeps
<1>5. CASE Open \/ UseHeld \/ UNCHANGED vars
  <2>1. UNCHANGED <<sessionVars, transportVars>> /\ UNCHANGED held
    BY <1>5 DEF Open, UseHeld, vars, clientVars
  <2>2. R!ResponseInv' /\ R!PeerInv' /\ SP!HeadersInv'
    BY <2>1, TransportStep, SessionStep DEF Inv, transportVars, sessionVars, R!vars, SP!vars
  <2>3. TypeOK'
    <3>1. /\ TypeOK /\ MaxSessions \in Nat
          /\ UNCHANGED <<sent, calls, pc>> /\ UNCHANGED held
      BY <2>1, Assumptions DEF Inv, transportVars, sessionVars
    <3>2. CASE Open
      BY <3>1, <3>2 DEF TypeOK, Open
    <3>3. CASE UseHeld
      BY <3>1, <3>3 DEF TypeOK, UseHeld
    <3>4. CASE UNCHANGED vars
      BY <3>1, <3>4 DEF TypeOK, vars, clientVars
    <3> QED BY <1>5, <3>2, <3>3, <3>4
  <2>4. HandedOver' /\ ShakenInv'
    <3>1. (\A i : T!Shaken(i) <=> R!Shaken(i))'
      BY SameStart, PTL
    <3>2. \A i : R!Shaken(i)' <=> R!Shaken(i)
      BY <2>1 DEF R!Shaken, transportVars
    <3> QED BY <2>1, <3>1, <3>2, SameStart DEF Inv, CompositionInv, HandedOver, ShakenInv, S!Parameters,
                                transportVars, sessionVars
  <2>5. AloneInv'
    BY <1>5, <2>1 DEF Inv, CompositionInv, AloneInv, Open, UseHeld, vars, clientVars, transportVars,
                      sessionVars
  <2> QED BY <2>2, <2>3, <2>4, <2>5 DEF Inv, CompositionInv
<1> QED BY <1>1, <1>2, <1>3, <1>4, <1>5 DEF Next, Moves

\* The types are right, and a session and its transport stay what they are to each other through all
\* calls, failures and ends of sessions.
THEOREM ClientInvariant == Spec => []CompositionInv
<1>1. Inv => CompositionInv
  BY DEF Inv
<1> QED BY <1>1, InvInit, InvStep, PTL DEF Spec

\* The requests of a session and the calls of its transport are as many, and when no session is
\* there, there are none (Client.TypeOK).
THEOREM ClientTypes == Spec => []TypeOK
<1>1. Inv => TypeOK
  BY DEF Inv
<1> QED BY <1>1, InvInit, InvStep, PTL DEF Spec

-----------------------------------------------------------------------------
(* What the two together do *)

\* A request that was to be verified by the authorities in a file is served over TLS only by a host
\* one of them signed (send_secure and the order in which it sets up its stream).
THEOREM VerifiedHosts == Spec => []VerifiedByFile
<1>1. ASSUME Inv PROVE VerifiedByFile
  <2>1. SUFFICES ASSUME NEW i \in DOMAIN calls, calls[i].secure, calls[i].served # T!NoHost
                 PROVE  GoodFor(S!Parameters(asked[sent[i].call]).verify, calls[i].served)
    BY DEF VerifiedByFile
  <2>2. T!Shaken(i)
    BY <2>1 DEF T!Shaken
  <2>3. calls[i].served = peer
    BY <1>1, <2>1, Requests, SameStart DEF Inv, R!ResponseInv, R!PlacesInv, R!AdapterInv, R!HostInv
  <2> QED BY <1>1, <2>2, <2>3 DEF Inv, CompositionInv, ShakenInv
<1> QED BY <1>1, InvInit, InvStep, PTL DEF Spec

\* Whether a call asks for a stream is what its parameters say.
LEMMA StreamAsked ==
  ASSUME NEW c \in Calls
  PROVE  /\ Streamed(S!Parameters(c)) \in BOOLEAN
         /\ Streamed(S!Parameters(c)) <=> AsksForStream(c)
<1> DEFINE n == SP!LastIn(c, "stream")
<1>1. SP!Parameters(c)["stream"] = IF n = 0 THEN <<>> ELSE <<c.params[n].arg>>
  BY SP!ParameterOf, Assumptions DEF SP!ParamKinds
<1>2. n = SelectLastInSeq(c.params, LAMBDA p : p.kind = "stream")
  BY DEF SP!LastIn, SP!SelectLastInSeq, SelectLastInSeq, SP!Max, Max
<1>3. n # 0 => c.params[n].arg \in BOOLEAN
  <2>1. n # 0 => SP!Typed(c.params[n]) /\ c.params[n].kind = "stream"
    BY SP!ParameterOf, Assumptions DEF SP!ParamKinds
  <2>2. \A p : SP!Typed(p) /\ p.kind = "stream" => p.arg \in BOOLEAN
    BY DEF SP!Typed
  <2> HIDE DEF n
  <2> QED BY <2>1, <2>2
<1> HIDE DEF n
<1>4. S!Parameters(c).stream = IF n = 0 THEN <<>> ELSE <<c.params[n].arg>>
  BY <1>1, SameParameters
<1>5. CASE n = 0
  <2>1. Streamed(S!Parameters(c)) = FALSE
    BY <1>4, <1>5 DEF Streamed, ValueOr
  <2> QED BY <1>2, <1>5, <2>1 DEF AsksForStream
<1>6. CASE n # 0
  <2>1. Streamed(S!Parameters(c)) = c.params[n].arg
    <3>1. S!Parameters(c).stream = <<c.params[n].arg>>
      BY <1>4, <1>6
    <3>2. S!Parameters(c).stream # <<>> /\ S!Parameters(c).stream[1] = c.params[n].arg
      BY <3>1
    <3> QED BY <3>2, Zenon DEF Streamed, ValueOr
  <2> QED BY <1>2, <1>3, <1>6, <2>1 DEF AsksForStream
<1> QED BY <1>5, <1>6

\* A result that is returned is marked to be read through its transport exactly when its call asked
\* for a stream.
LEMMA MarkedAsAsked ==
  ASSUME Inv, NEW h \in Returned
  PROVE  h.chunked <=> AsksForStream(h.call)
<1>1. PICK i \in DOMAIN calls :
        /\ calls[i].outcome \in {"ok", "streaming"} \/ calls[i].rst = "failed"
        /\ h = [call |-> asked[sent[i].call], chunked |-> calls[i].chunked]
  BY DEF Returned
<1>2. i \in 1 .. Len(calls) /\ asked[sent[i].call] \in Calls
  BY Requests
<1>3. R!Consistent(calls[i])
  BY <1>2 DEF Inv, R!ResponseInv, R!PlacesInv, R!RecordInv
<1>4. calls[i].chunked <=> calls[i].stream
  BY <1>1, <1>3 DEF R!Consistent
<1>5. calls[i].stream = Streamed(S!Parameters(asked[sent[i].call]))
  BY DEF Inv, CompositionInv, HandedOver
<1>6. calls[i].stream <=> AsksForStream(asked[sent[i].call])
  BY <1>2, <1>5, StreamAsked
<1> QED BY <1>1, <1>4, <1>6

\* A result that is held is marked to be read through its transport exactly when the last stream() of
\* its call asked for that, whatever became of the call, its readers and its session; so that a
\* transport that is gone is used only for one of these (session::request, send_impl, response and its
\* operator<<).
THEOREM ResultsOutliveSessions == Spec => []WholeResultsOutliveSessions
<1>1. Init => WholeResultsOutliveSessions
  BY DEF Init, WholeResultsOutliveSessions
<1>2. ASSUME Inv, WholeResultsOutliveSessions, [Next]_vars
      PROVE  WholeResultsOutliveSessions'
  <2>1. \A h \in held' : h.chunked <=> AsksForStream(h.call)
    <3>1. CASE End
      <4>1. held' = held \cup Returned
        BY <3>1 DEF End
      <4> QED BY <1>2, <4>1, MarkedAsAsked DEF WholeResultsOutliveSessions
    <3>2. CASE ~End
      <4>1. UNCHANGED held
        BY <1>2, <3>2 DEF Next, Open, Ask, Function, UseHeld, Transports, Serves, Closes, Reads, vars,
                          clientVars
      <4> QED BY <1>2, <4>1 DEF WholeResultsOutliveSessions
    <3> QED BY <3>1, <3>2
  <2>2. undefined' => \E h \in held' : AsksForStream(h.call)
    <3>1. CASE UseHeld
      <4>1. \E h \in held : h.chunked /\ held' = held
        BY <3>1 DEF UseHeld
      <4> QED BY <2>1, <4>1
    <3>2. CASE ~UseHeld
      <4>1. undefined' = undefined /\ held \subseteq held'
        BY <1>2, <3>2 DEF Next, Open, Ask, Function, End, Transports, Serves, Closes, Reads, vars,
                          clientVars
      <4> QED BY <1>2, <4>1 DEF WholeResultsOutliveSessions
    <3> QED BY <3>1, <3>2
  <2>3. (/\ \A h \in held : h.chunked <=> AsksForStream(h.call)
         /\ undefined => \E h \in held : AsksForStream(h.call))'
    BY <2>1, <2>2
  <2> QED BY <2>3 DEF WholeResultsOutliveSessions
<1> QED BY <1>1, <1>2, InvInit, InvStep, PTL DEF Spec

\* The values of the Host field of request i, of call n: after what the last call that named the field
\* put there, one for every call from there to n whose URL was parsed.
LEMMA HostValues ==
  ASSUME Inv, NEW i \in DOMAIN calls
  PROVE  LET n == sent[i].call
             h == sent[i].headers["Host"]
             last == SP!LastReset("Host", n)
             base == SP!LeftBy("Host", last)
             added == Len(base) + 1 .. Len(h)
         IN  /\ n \in DOMAIN asked /\ n \in Nat /\ last \in 0 .. n
             /\ SP!IsList(h) /\ SP!IsPrefix(base, h)
             /\ last = 0 => base = <<>>
             /\ last # 0 => NamesHost(last) /\ base = SP!LeftIn("Host", asked[last], last)
             /\ \A j \in added : h[j].from = "url" /\ h[j].call \in 1 .. n /\ h[j].call >= last
             /\ \A j, k \in added : j < k => h[j].call < h[k].call
             /\ \A k \in 1 .. n : k >= last /\ SP!PreparesIn(asked[k]) =>
                  \E j \in added : h[j].call = k
<1> DEFINE n == sent[i].call
           h == sent[i].headers["Host"]
           last == SP!LastReset("Host", n)
           base == SP!LeftBy("Host", last)
           added == Len(base) + 1 .. Len(h)
<1>1. /\ SP!TypeOK /\ SP!HeadersAccumulate
  BY DEF Inv, SP!HeadersInv
<1>2. n \in DOMAIN asked /\ n \in Nat /\ i \in DOMAIN sent
  BY Requests
<1>3. SP!Accumulated(h, "Host", n, n)
  <2>1. "Host" \in SP!KnownFields /\ "Host" # "Content-Type"
    BY DEF SP!KnownFields
  <2> QED BY <1>1, <1>2, <2>1 DEF SP!HeadersAccumulate
<1>4. last \in 0 .. n /\ (last # 0 => SP!Resets("Host", last))
  BY <1>2, SP!LastResetIs, Assumptions
<1>5. \A k : SP!ByNumber("Host", k)
  BY SP!SaidByNumber, Assumptions
<1>6. last # 0 => last \in DOMAIN asked /\ asked[last] \in Calls
  BY <1>2, <1>4, Requests
<1>7. SP!FollowedBy(h, base, {k \in 1 .. n : k >= last /\ SP!Inserted("Host", k)}, "url")
  BY <1>3 DEF SP!Accumulated, SP!Source
<1>8. SP!IsList(h)
  <2>1. h \in Seq(SP!Values)
    BY <1>1, <1>2 DEF SP!TypeOK, SP!Headers, SP!KnownFields
  <2> QED BY <2>1, SP!SequencesAreLists, Assumptions
<1>9. last = 0 => base = <<>>
  BY <1>5 DEF SP!ByNumber, SP!Default, SP!KnownFields
<1>10. last # 0 => base = SP!LeftIn("Host", asked[last], last)
  BY <1>5 DEF SP!ByNumber
<1>11. last # 0 => NamesHost(last)
  <2>1. SUFFICES ASSUME last # 0, asked[last].field # "Host"
                 PROVE  "Host" \in DOMAIN S!Fields(S!Parameters(asked[last]))
    BY DEF NamesHost
  <2>2. SP!ResetsIn("Host", asked[last])
    BY <1>4, <1>5, <2>1 DEF SP!ByNumber
  <2>3. "Host" \in SP!Range(SP!KeysIn(asked[last], "headers"))
    BY <2>1, <2>2 DEF SP!ResetsIn
  <2>4. DOMAIN SP!Fields(SP!Parameters(asked[last])) = SP!Range(SP!KeysIn(asked[last], "headers"))
    BY <1>6, <2>1, SP!FieldsAre, Assumptions
  <2> QED BY <2>3, <2>4, SameParameters
<1>12. \A k : SP!Inserted("Host", k) <=> SP!PreparesIn(asked[k])
  BY <1>5 DEF SP!ByNumber
<1> HIDE DEF last, base
<1>13. /\ SP!IsPrefix(base, h)
       /\ {h[j].call : j \in added} = {k \in 1 .. n : k >= last /\ SP!Inserted("Host", k)}
       /\ \A j, k \in added : j < k => h[j].call < h[k].call
       /\ \A j \in added : h[j].from = "url"
  BY <1>7 DEF SP!FollowedBy
<1>14. \A j \in added : h[j].call \in 1 .. n /\ h[j].call >= last
  <2>1. TAKE j \in added
  <2>2. h[j].call \in {k \in 1 .. n : k >= last /\ SP!Inserted("Host", k)}
    BY <1>13
  <2> QED BY <1>2, <1>4, <2>2
<1>15. ASSUME NEW k \in 1 .. n, k >= last, SP!PreparesIn(asked[k])
       PROVE  \E j \in added : h[j].call = k
  <2>1. k \in {h[j].call : j \in added}
    BY <1>12, <1>13, <1>15
  <2> QED BY <2>1
<1>16. SP!LeftBy("Host", SP!LastReset("Host", n)) = base
  BY DEF base, last
<1> QED BY <1>2, <1>4, <1>8, <1>9, <1>10, <1>11, <1>13, <1>14, <1>15, <1>16 DEF last

\* A call whose URL was parsed prepares its request.
LEMMA HandedPrepares ==
  ASSUME Inv, NEW i \in DOMAIN calls
  PROVE  SP!PreparesIn(asked[sent[i].call])
<1> DEFINE c == asked[sent[i].call]
<1>1. c \in Calls
  BY Requests
<1>2. S!Parameters(c).url # <<>> /\ S!Parameters(c).url[1].status = "parsed"
  BY DEF Inv, CompositionInv, HandedOver
<1> HIDE DEF c
<1>3. SP!Parameters(c)["url"] # <<>> /\ SP!Parameters(c)["url"][1].status = "parsed"
  BY <1>2, SameParameters
<1>4. SP!LastIn(c, "url") # 0 /\ SP!Parameters(c)["url"][1] = SP!ArgIn(c, "url")
  BY <1>1, <1>3, SP!ParameterAt, Assumptions DEF SP!ParamKinds
<1>5. SP!PreparesIn(c)
  BY <1>3, <1>4 DEF SP!PreparesIn
<1> QED BY <1>5 DEF c

\* The host that serves a request is named in one of its Host fields, unless the caller has put its
\* own Host there: the connection is that of the first call, and so is a Host field, which has stayed in
\* the session (prepare_request, connect_to_peer).
THEOREM PeersAreNamed == Spec => []PeerIsNamed
<1>1. ASSUME Inv PROVE PeerIsNamed
  <2>1. SUFFICES ASSUME NEW i \in DOMAIN calls, calls[i].served # T!NoHost,
                        \A n \in 1 .. sent[i].call : ~NamesHost(n)
                 PROVE  \E k \in DOMAIN sent[i].headers["Host"] :
                          LET v == sent[i].headers["Host"][k]
                          IN  v.from = "url" /\ Url(v.call).host = calls[i].served
    BY DEF PeerIsNamed
  <2> DEFINE n == sent[i].call
             h == sent[i].headers["Host"]
  <2>2. calls[i].served = peer /\ peer # R!NoHost
    BY <1>1, <2>1, Requests, SameStart DEF Inv, R!ResponseInv, R!PlacesInv, R!AdapterInv, R!HostInv
  <2>3. PICK j \in 1 .. Len(calls) :
          /\ calls[j].host = peer
          /\ \A k \in 1 .. j - 1 : calls[k].served = R!NoHost /\ ~R!Asked(k)
    BY <1>1, <2>2 DEF Inv, R!PeerInv
  <2>4. j <= i /\ j \in DOMAIN calls
    BY <1>1, <2>2, <2>3, Requests
  <2>5. sent[j].call \in 1 .. n
    <3>1. /\ sent[j].call \in DOMAIN asked /\ n \in DOMAIN asked
          /\ DOMAIN asked = 1 .. Len(asked) /\ Len(asked) \in Nat
          /\ i \in DOMAIN sent /\ i \in Nat /\ j \in Nat /\ 1 <= j
      BY <1>1, <2>4, Requests
    <3>2. j < i => sent[j].call < n
      <4>1. \A l \in 1 .. i - 1 : sent[l].call < n
        BY <1>1, <3>1 DEF Inv, SP!HeadersInv, SP!TypeOK
      <4> QED BY <3>1, <4>1
    <3> QED BY <2>4, <3>1, <3>2
  <2>6. /\ SP!IsList(h)
        /\ \A l \in 1 .. Len(h) : h[l].from = "url"
        /\ \E l \in 1 .. Len(h) : h[l].call = sent[j].call
    <3> DEFINE last == SP!LastReset("Host", n)
               base == SP!LeftBy("Host", last)
               added == Len(base) + 1 .. Len(h)
    <3>1. /\ last \in 0 .. n /\ SP!IsList(h) /\ n \in Nat
          /\ last = 0 => base = <<>>
          /\ last # 0 => NamesHost(last)
          /\ \A l \in added : h[l].from = "url"
          /\ \A k \in 1 .. n : k >= last /\ SP!PreparesIn(asked[k]) => \E l \in added : h[l].call = k
      BY <1>1, HostValues
    <3> HIDE DEF last, base
    <3>2. last = 0
      BY <2>1, <3>1
    <3>3. Len(base) = 0
      BY <3>1, <3>2
    <3>4. sent[j].call >= last /\ SP!PreparesIn(asked[sent[j].call])
      BY <1>1, <2>4, <2>5, <3>1, <3>2, HandedPrepares
    <3>5. added = 1 .. Len(h)
      BY <3>3
    <3>6. \E l \in added : h[l].call = sent[j].call
      BY <2>5, <3>1, <3>4
    <3> QED BY <3>1, <3>5, <3>6
  <2>7. PICK l \in 1 .. Len(h) : h[l].call = sent[j].call /\ h[l].from = "url"
    BY <2>6
  <2>8. l \in DOMAIN h
    BY <2>6, <2>7 DEF SP!IsList
  <2>9. Url(sent[j].call).host = peer
    BY <1>1, <2>3, <2>4 DEF Inv, CompositionInv, HandedOver, Url
  <2> QED BY <2>2, <2>7, <2>8, <2>9
<1> QED BY <1>1, InvInit, InvStep, PTL DEF Spec

\* get and post make one call on a connection of its own, which goes to the host of its URL, with no
\* Host but that one and those it gave; if they return, other than a stream, it is with the response to
\* this call (get, post, and the session and the transport they make for it).
THEOREM FunctionsAlone == Spec => []FunctionsAreAlone
<1>1. ASSUME Inv PROVE FunctionsAreAlone
  <2>1. SUFFICES ASSUME owner = "function", NEW i \in DOMAIN calls
                 PROVE  /\ i = 1 /\ calls[i].served \in {T!NoHost, Url(sent[i].call).host}
                        /\ \A k \in DOMAIN sent[i].headers["Host"] :
                             sent[i].headers["Host"][k].call = sent[i].call
                        /\ ~NamesHost(sent[i].call) => Len(sent[i].headers["Host"]) = 1
                        /\ calls[i].outcome = "ok" => calls[i].answer = 1 /\ calls[i].body = 1
    BY DEF FunctionsAreAlone
  <2>2. /\ Len(asked) <= 1 /\ Len(calls) <= 1
        /\ calls[i].clean /\ (calls[i].outcome = "ok" => ~calls[i].stream)
    BY <1>1, <2>1 DEF Inv, CompositionInv, AloneInv
  <2>3. i = 1 /\ sent[i].call = 1 /\ Len(calls) = 1
    <3>1. /\ DOMAIN calls = 1 .. Len(calls) /\ Len(calls) \in Nat
          /\ DOMAIN asked = 1 .. Len(asked) /\ Len(asked) \in Nat /\ sent[i].call \in DOMAIN asked
      BY <1>1, <2>1, Requests
    <3> QED BY <2>1, <2>2, <3>1
  <2>4. calls[i].served \in {T!NoHost, Url(sent[i].call).host}
    <3>1. SUFFICES ASSUME calls[i].served # R!NoHost PROVE calls[i].served = Url(sent[i].call).host
      BY SameStart
    <3>2. calls[i].served = peer /\ peer # R!NoHost
      BY <1>1, <2>1, <2>3, <3>1 DEF Inv, R!ResponseInv, R!PlacesInv, R!AdapterInv, R!HostInv
    <3>3. \E j \in 1 .. Len(calls) : calls[j].host = peer
      BY <1>1, <3>2 DEF Inv, R!PeerInv
    <3>4. calls[i].host = peer
      BY <2>3, <3>3
    <3> QED BY <1>1, <2>1, <3>2, <3>4 DEF Inv, CompositionInv, HandedOver, Url
  <2>5. /\ \A k \in DOMAIN sent[i].headers["Host"] : sent[i].headers["Host"][k].call = 1
        /\ ~NamesHost(1) => Len(sent[i].headers["Host"]) = 1
    <3> DEFINE n == sent[i].call
               h == sent[i].headers["Host"]
               last == SP!LastReset("Host", n)
               base == SP!LeftBy("Host", last)
               added == Len(base) + 1 .. Len(h)
    <3>1. /\ 1 \in DOMAIN asked /\ last \in 0 .. 1
          /\ SP!IsList(h) /\ SP!IsPrefix(base, h)
          /\ last = 0 => base = <<>>
          /\ last # 0 => NamesHost(last) /\ base = SP!LeftIn("Host", asked[last], last)
          /\ \A j \in added : h[j].call \in 1 .. 1
          /\ \A j, k \in added : j < k => h[j].call < h[k].call
          /\ \A k \in 1 .. 1 : k >= last /\ SP!PreparesIn(asked[k]) => \E j \in added : h[j].call = k
      <4>1. /\ n \in DOMAIN asked /\ last \in 0 .. n
            /\ SP!IsList(h) /\ SP!IsPrefix(base, h)
            /\ last = 0 => base = <<>>
            /\ last # 0 => NamesHost(last) /\ base = SP!LeftIn("Host", asked[last], last)
            /\ \A j \in added : h[j].call \in 1 .. n
            /\ \A j, k \in added : j < k => h[j].call < h[k].call
            /\ \A k \in 1 .. n : k >= last /\ SP!PreparesIn(asked[k]) => \E j \in added : h[j].call = k
        BY <1>1, <2>1, HostValues
      <4> HIDE DEF h, base, last, n
      <4>2. n = 1
        BY <2>3 DEF n
      <4> QED BY <4>1, <4>2
    <3>2. SP!PreparesIn(asked[1])
      BY <1>1, <2>1, <2>3, HandedPrepares
    <3>3. asked[1].does = "request" /\ asked[1] \in Calls
      <4>1. asked[1] \in Calls /\ SP!LastIn(asked[1], "url") # 0
        BY <1>1, <3>1, <3>2, Requests DEF SP!PreparesIn
      <4>2. SP!LastIn(asked[1], "url") \in 0 .. Len(asked[1].params)
        BY <4>1, SP!ParameterOf, Assumptions DEF SP!ParamKinds
      <4>3. asked[1].params # <<>>
        BY <4>1, <4>2
      <4> QED BY <4>1, <4>3, SP!CallList, Assumptions
    <3>4. last = 1 => \E v : base = <<v>> /\ v.call = 1
      BY <3>1, <3>3 DEF SP!LeftIn, SP!Given
    <3>5. DOMAIN h = 1 .. Len(h) /\ Len(h) \in Nat
      BY <3>1 DEF SP!IsList
    <3> HIDE DEF last, base, h
    <3>6. PICK j \in added : h[j].call = 1
      BY <3>1, <3>2
    <3>7. CASE last = 0
      <4>1. added = 1 .. Len(h)
        BY <3>1, <3>7
      <4>2. \A k \in added : h[k].call = 1
        BY <3>1
      <4>3. \A k \in 1 .. Len(h) : k = j
        BY <3>1, <3>5, <3>6, <4>1, <4>2
      <4>4. Len(h) = 1
        BY <3>5, <3>6, <4>1, <4>3
      <4> QED BY <3>5, <4>1, <4>2, <4>4 DEF h
    <3>8. CASE last = 1
      <4>1. PICK v : base = <<v>> /\ v.call = 1
        BY <3>4, <3>8
      <4>2. Len(base) = 1 /\ base[1] = v
        BY <4>1
      <4>3. h[1] = v
        BY <3>1, <3>5, <3>6, <4>2 DEF SP!IsPrefix
      <4>4. \A k \in added : h[k].call = 1
        BY <3>1, <3>8
      <4>5. \A k \in DOMAIN h : k = 1 \/ k \in added
        BY <3>5, <4>2
      <4> QED BY <3>1, <3>8, <4>1, <4>3, <4>4, <4>5 DEF h
    <3> QED BY <3>1, <3>7, <3>8
  <2>6. ASSUME calls[i].outcome = "ok" PROVE calls[i].answer = 1 /\ calls[i].body = 1
    <3>0. R!ReadOnce
      <4>1. \A j \in DOMAIN calls : calls[j].readers = 0
        BY <1>1, <2>1 DEF Inv, CompositionInv, AloneInv
      <4> QED BY <1>1, <4>1, Requests DEF R!ReadOnce
    <3>1. R!OwnResponse /\ R!RecordInv
      BY <1>1 DEF Inv, R!ResponseInv, R!PlacesInv
    <3>2. {calls[i].answer, calls[i].body} \subseteq {0, 1}
      BY <2>2, <2>3, <2>6, <3>0, <3>1 DEF R!OwnResponse
    <3>3. R!Consistent(calls[i])
      BY <2>3, <3>1 DEF R!RecordInv
    <3>4. calls[i].answer # 0 /\ calls[i].body # 0
      BY <2>6, <3>3 DEF R!Consistent
    <3> QED BY <3>2, <3>4
  <2> QED BY <2>3, <2>4, <2>5, <2>6
<1> QED BY <1>1, InvInit, InvStep, PTL DEF Spec

=============================================================================
