----------------------------- MODULE DownloadProofs -----------------------------
(***************************************************************************)
(* Proofs about Download, for every set of URLs and every number of calls  *)
(* and of buffers in a response.                                           *)
(***************************************************************************)
EXTENDS Download, SequenceTheorems, TLAPS

\* The least and the greatest of a set of numbers.
Numbers == INSTANCE ParametersProofs

-----------------------------------------------------------------------------
(* What the types rest on *)

\* A short has enough numbers for the ports that stand for a scheme.
LEMMA SomePorts ==
  /\ Width \in Nat /\ Width > 0
  /\ 0 \in Ports /\ 80 \in Ports /\ 443 \in Ports
<1>1. Width \in Nat /\ Width > 443
  BY DEF Width
<1> QED BY <1>1 DEF Ports

\* A port fits sixteen bits: a number read by short_ is kept in an unsigned short, and the
\* defaults are 80 and 443 (url_view::port).
LEMMA PortType ==
  ASSUME NEW u, Parse(u).status = "parsed"
  PROVE  Port(u) \in Ports
<1>1. 0 \in Ports /\ 80 \in Ports /\ 443 \in Ports
  BY SomePorts
<1>2. ASSUME NEW v \in Int PROVE v % Width \in Ports
  BY SomePorts DEF Ports
<1>3. \A s : Short(s).ok => Short(s).value \in Int
  <2>1. \A v \in Shorts : v \in Int
    BY SomePorts DEF Shorts
  <2> QED BY <2>1 DEF Short
<1>4. \/ Parse(u).port = <<>>
      \/ \E s : Short(s).ok /\ Parse(u).port = <<Short(s).value % Width>>
  BY DEF Parse, Failed, Throws, Url
<1>5. CASE Parse(u).port = <<>>
  BY <1>1, <1>5 DEF Port
<1>6. CASE \E s : Short(s).ok /\ Parse(u).port = <<Short(s).value % Width>>
  <2>1. PICK s : Short(s).ok /\ Parse(u).port = <<Short(s).value % Width>>
    BY <1>6
  <2>2. Parse(u).port[1] \in Ports /\ Parse(u).port # <<>>
    BY <1>2, <1>3, <2>1
  <2> QED BY <2>2 DEF Port
<1> QED BY <1>4, <1>5, <1>6

\* The buffers of a response are a sequence of buffers.
LEMMA BodyType ==
  ASSUME NEW m \in 1 .. MaxCalls, NEW k \in 0 .. MaxBuffers
  PROVE  Body(m, k) \in Seq(Buffers) /\ Len(Body(m, k)) = k
<1>1. Body(m, k) \in [1 .. k -> Buffers]
  BY DownloadAssumption DEF Body, Buffers
<1>2. k \in Nat
  BY DownloadAssumption
<1> QED BY <1>1, <1>2, SeqDef, LenProperties

\* The values of the variables, and the invariant of the files, at the start.
LEMMA FilesInit == Init => TypeOK /\ FileInv
<1> SUFFICES ASSUME Init PROVE TypeOK /\ FileInv
  OBVIOUS
<1>1. DOMAIN files = {} /\ DOMAIN last = {}
  BY DEF Init
<1>2. body \in Seq(Buffers) /\ request.port = 0
  BY EmptySeq DEF Init, NoRequest
<1>3. 0 \in Ports
  BY SomePorts
<1>4. pc = "idle" /\ n = 0 /\ given = FALSE /\ good = TRUE
  BY DEF Init
<1>5. TypeOK
  <2>1. given \in BOOLEAN /\ good \in BOOLEAN
    BY Zenon, <1>4
  <2>2. request.port \in Ports
    BY Zenon, <1>2, <1>3
  <2>3. n \in 0 .. MaxCalls
    BY <1>4, DownloadAssumption
  <2> QED BY <1>1, <1>2, <1>4, <2>1, <2>2, <2>3 DEF TypeOK
<1>6. FileInv
  BY <1>1, <1>4 DEF FileInv
<1> QED BY <1>5, <1>6

\* What an exception or the return leaves behind is of the right types.
LEMMA LeavesTypes ==
  ASSUME Leaves
  PROVE  /\ pc' = "idle" /\ body' = <<>> /\ body' \in Seq(Buffers) /\ good' = TRUE
         /\ request'.port \in Ports
<1>1. 0 \in Ports
  BY SomePorts
<1> QED BY <1>1, EmptySeq DEF Leaves, NoRequest

\* Every step keeps the types.
LEMMA FileTypes ==
  ASSUME TypeOK, FileInv, [Next]_vars
  PROVE  TypeOK'
<1> USE DEF TypeOK
<1>1. CASE DownloadFile
  <2>1. /\ n' \in 0 .. MaxCalls /\ given' \in BOOLEAN /\ UNCHANGED files
        /\ \/ Leaves
           \/ ~given' /\ FromUrl
           \/ NotAssigned
    BY <1>1, DownloadAssumption DEF DownloadFile
  <2>2. CASE Leaves
    BY <2>1, <2>2, LeavesTypes
  <2>3. CASE ~given' /\ FromUrl
    <3>1. Leaves \/ (/\ fname' # <<>> /\ pc' = "named" /\ UNCHANGED <<request, body, good>>)
      BY <2>3 DEF FromUrl
    <3> QED BY <2>1, <2>2, <2>3, <3>1
  <2>4. CASE NotAssigned
    BY <2>1, <2>4 DEF NotAssigned
  <2> QED BY <2>1, <2>2, <2>3, <2>4
<1>2. CASE Request
  <2>1. request'.port \in Ports
    <3>1. Parse(url).status = "parsed" /\ request'.port = Port(url)
      BY <1>2 DEF Request
    <3> QED BY <3>1, PortType
  <2> QED BY <1>2, <2>1 DEF Request
<1>3. CASE RequestAborts
  BY <1>3 DEF RequestAborts
<1>4. CASE RequestFails \/ OpenFails \/ Return
  BY <1>4, LeavesTypes DEF RequestFails, OpenFails, Return
<1>5. CASE Answered
  <2>1. n \in 1 .. MaxCalls
    BY <1>5 DEF Answered, FileInv
  <2>2. body' \in Seq(Buffers)
    BY <1>5, <2>1, BodyType DEF Answered
  <2> QED BY <1>5, <2>2 DEF Answered
<1>6. CASE Open
  <2>1. <<>> \in Seq(Buffers)
    BY EmptySeq
  <2>2. /\ UNCHANGED <<given, fname, request, body, good, n>> /\ pc = "answered" /\ pc' = "writing"
        /\ DOMAIN files' = DOMAIN files \cup {fname}
        /\ \A f \in DOMAIN files' : files'[f] = IF f = fname THEN <<>> ELSE files[f]
    BY <1>6 DEF Open, Truncated, With
  <2> QED BY <2>1, <2>2
<1>7. CASE Write
  <2>1. Head(body) \in Buffers /\ Tail(body) \in Seq(Buffers)
    BY <1>7, HeadTailProperties DEF Write
  <2>2. Append(files[fname], Head(body)) \in Seq(Buffers)
    BY <1>7, <2>1, AppendProperties DEF Write
  <2>3. /\ UNCHANGED <<pc, given, fname, request, good, n>> /\ pc = "writing"
        /\ body' = Tail(body)
        /\ DOMAIN files' = DOMAIN files
        /\ \A f \in DOMAIN files :
             files'[f] = IF f = fname THEN Append(files[fname], Head(body)) ELSE files[f]
    BY <1>7 DEF Write
  <2> QED BY <2>1, <2>2, <2>3
<1>8. CASE WriteFails \/ WriteIgnored
  <2>1. Tail(body) \in Seq(Buffers)
    BY <1>8, HeadTailProperties DEF WriteFails, WriteIgnored
  <2>2. /\ UNCHANGED <<files, pc, given, fname, request, n>> /\ body' = Tail(body)
        /\ good' \in BOOLEAN
    BY <1>8 DEF WriteFails, WriteIgnored
  <2> QED BY <2>1, <2>2
<1>9. CASE UNCHANGED vars
  BY <1>9 DEF vars
<1> QED BY <1>1, <1>2, <1>3, <1>4, <1>5, <1>6, <1>7, <1>8, <1>9 DEF Next

-----------------------------------------------------------------------------
(* What is in the files *)

\* A sequence is a prefix of itself, and of itself with more after it.
LEMMA PrefixOfMore ==
  ASSUME NEW S, NEW s \in Seq(S), NEW t \in Seq(S)
  PROVE  IsPrefix(s, s) /\ IsPrefix(s, s \o t)
<1>1. Len(s) \in Nat /\ Len(t) \in Nat /\ Len(s \o t) = Len(s) + Len(t)
  BY LenProperties, ConcatProperties
<1>2. SubSeq(s, 1, Len(s)) = SubSeq(s \o t, 1, Len(s))
  <2>1. CASE Len(s) = 0
    BY <2>1, SubSeqEmpty
  <2>2. CASE Len(s) # 0
    <3>1. 1 \in 1 .. Len(s) /\ Len(s) \in 1 .. Len(s)
      BY <1>1, <2>2
    <3> QED BY <3>1, SubSeqOfConcat1
  <2> QED BY <2>1, <2>2
<1> QED BY <1>1, <1>2 DEF IsPrefix

\* Writing the next buffer moves it from what is to be written to what is in the file.
LEMMA WriteMoves ==
  ASSUME NEW S, NEW s \in Seq(S), NEW t \in Seq(S), t # <<>>
  PROVE  Append(s, Head(t)) \o Tail(t) = s \o t
<1>1. Head(t) \in S /\ Tail(t) \in Seq(S) /\ <<Head(t)>> \in Seq(S)
  BY HeadTailProperties
<1>2. Append(s, Head(t)) = s \o <<Head(t)>>
  BY <1>1, AppendIsConcat
<1>3. (s \o <<Head(t)>>) \o Tail(t) = s \o (<<Head(t)>> \o Tail(t))
  BY <1>1, ConcatAssociative
<1>4. <<Head(t)>> \o Tail(t) = t
  <2>1. Len(t) \in Nat /\ Len(t) # 0
    BY LenProperties, EmptySeq
  <2>2. 1 \in 1 .. Len(t) /\ Len(t) \in 1 .. Len(t)
    BY <2>1
  <2>3. SubSeq(t, 1, Len(t)) = <<t[1]>> \o SubSeq(t, 1 + 1, Len(t))
    BY <2>2, SubSeqRecursiveFirst
  <2>4. SubSeq(t, 1, Len(t)) = t /\ Tail(t) = SubSeq(t, 1 + 1, Len(t)) /\ Head(t) = t[1]
    BY <2>1, SubSeqFull, TailIsSubSeq
  <2> QED BY <2>3, <2>4
<1> QED BY <1>2, <1>3, <1>4

\* A file that is not being written, and none that is being written goes on, holds what it
\* held.
LEMMA HoldsKept ==
  ASSUME NEW f, files'[f] = files[f], last'[f] = last[f],
         ~(pc = "writing" /\ f = fname /\ good), ~(pc' = "writing" /\ f = fname' /\ good'),
         Holds(f)
  PROVE  Holds(f)'
BY DEF Holds, LastAnswer, Body

\* Every step keeps the invariant of the files: opening one empties it for an answer,
\* writing moves that answer to it, and nothing else touches it (download_file_impl).
LEMMA FileStep ==
  ASSUME TypeOK, FileInv, [Next]_vars
  PROVE  FileInv'
<1> USE DEF TypeOK
<1>1. CASE DownloadFile
  <2>1. /\ pc = "idle" /\ UNCHANGED <<files, last>> /\ n' > 0 /\ n \in Nat
        /\ \/ Leaves
           \/ FromUrl
           \/ NotAssigned
    BY <1>1, DownloadAssumption DEF DownloadFile
  <2>2. pc' \in {"idle", "named", "aborted"} /\ good'
    <3>1. good
      BY <2>1 DEF FileInv
    <3>2. CASE Leaves
      BY <3>2, LeavesTypes
    <3>3. CASE FromUrl
      <4>1. Leaves \/ (pc' = "named" /\ UNCHANGED good)
        BY <3>3 DEF FromUrl
      <4> QED BY <3>1, <3>2, <4>1
    <3>4. CASE NotAssigned
      BY <3>1, <3>4 DEF NotAssigned
    <3> QED BY <2>1, <3>2, <3>3, <3>4
  <2>3. \A f \in DOMAIN files : Holds(f)'
    BY <2>1, <2>2, HoldsKept DEF FileInv
  <2> QED BY <2>1, <2>2, <2>3 DEF FileInv
<1>2. CASE Request \/ RequestAborts \/ RequestFails \/ OpenFails \/ Answered
  <2>1. /\ pc # "writing" /\ pc # "idle" /\ pc' # "writing" /\ UNCHANGED <<files, last, n>>
        /\ good' = good \/ good' = TRUE
    BY <1>2, LeavesTypes DEF Request, RequestAborts, RequestFails, OpenFails, Answered
  <2>2. \A f \in DOMAIN files : Holds(f)'
    BY <2>1, HoldsKept DEF FileInv
  <2>3. pc' = "answered" => body' = Body(n', Len(body')) /\ Len(body') <= MaxBuffers
    <3>1. CASE Answered
      <4>1. PICK k \in 0 .. MaxBuffers : body' = Body(n, k)
        BY <3>1 DEF Answered
      <4>2. n \in 1 .. MaxCalls
        BY <3>1 DEF Answered, FileInv
      <4>3. Len(body') = k /\ k <= MaxBuffers
        BY <4>1, <4>2, BodyType, DownloadAssumption
      <4> QED BY <2>1, <4>1, <4>3
    <3>2. CASE Request \/ RequestAborts \/ RequestFails \/ OpenFails
      BY <3>2, LeavesTypes DEF Request, RequestAborts, RequestFails, OpenFails
    <3> QED BY <1>2, <3>1, <3>2
  <2>4. good'
    <3>1. good
      BY <2>1 DEF FileInv
    <3> QED BY <2>1, <3>1
  <2>5. n' > 0
    BY <2>1 DEF FileInv
  <2> QED BY <2>1, <2>2, <2>3, <2>4, <2>5 DEF FileInv
<1>3. CASE Open
  <2>1. /\ UNCHANGED <<fname, body, good, n>> /\ pc = "answered" /\ pc' = "writing"
        /\ DOMAIN files' = DOMAIN files \cup {fname} /\ DOMAIN last' = DOMAIN last \cup {fname}
        /\ \A f \in DOMAIN files' : files'[f] = IF f = fname THEN <<>> ELSE files[f]
        /\ \A f \in DOMAIN last' : last'[f] = IF f = fname
                                              THEN [call |-> n, size |-> Len(body), whole |-> TRUE]
                                              ELSE last[f]
    BY <1>3 DEF Open, Truncated, With
  <2>2. /\ good /\ n \in 1 .. MaxCalls /\ Len(body) \in 0 .. MaxBuffers
        /\ body = Body(n, Len(body))
    BY <2>1, LenProperties, DownloadAssumption DEF FileInv
  <2>3. last'[fname] = [call |-> n, size |-> Len(body), whole |-> TRUE]
    BY <2>1
  <2>4. Holds(fname)'
    <3>1. LastAnswer(fname)' = body
      BY <2>1, <2>2, <2>3 DEF LastAnswer, Body
    <3>2. files'[fname] \o body' = body
      BY <2>1, ConcatEmptySeq
    <3> QED BY <2>1, <2>2, <3>1, <3>2 DEF Holds
  <2>5. ASSUME NEW f \in DOMAIN files, f # fname PROVE Holds(f)'
    BY <2>1, <2>5, HoldsKept DEF FileInv
  <2>6. last'[fname'].whole = good' /\ n' > 0
    BY <2>1, <2>2, <2>3 DEF FileInv
  <2>7. \A f \in DOMAIN last' :
          last'[f] \in [call : 1 .. MaxCalls, size : 0 .. MaxBuffers, whole : BOOLEAN]
    <3>1. last'[fname] \in [call : 1 .. MaxCalls, size : 0 .. MaxBuffers, whole : BOOLEAN]
      BY <2>2, <2>3
    <3> QED BY <2>1, <3>1 DEF FileInv
  <2>8. \A f \in DOMAIN files' : Holds(f)'
    BY <2>1, <2>4, <2>5
  <2>9. DOMAIN files' = DOMAIN last'
    BY <2>1 DEF FileInv
  <2> QED BY <2>1, <2>6, <2>7, <2>8, <2>9 DEF FileInv
<1>4. CASE Write
  <2>1. /\ UNCHANGED <<pc, fname, good, n, last>> /\ pc = "writing" /\ body # <<>> /\ good
        /\ body' = Tail(body) /\ DOMAIN files' = DOMAIN files
        /\ \A f \in DOMAIN files :
             files'[f] = IF f = fname THEN Append(files[fname], Head(body)) ELSE files[f]
    BY <1>4 DEF Write
  <2>2. Holds(fname)'
    <3>1. files[fname] \o body = LastAnswer(fname)
      BY <2>1 DEF FileInv, Holds
    <3>2. files'[fname] \o body' = files[fname] \o body
      BY <2>1, WriteMoves
    <3> QED BY <2>1, <3>1, <3>2 DEF Holds, LastAnswer, Body
  <2>3. ASSUME NEW f \in DOMAIN files, f # fname PROVE Holds(f)'
    BY <2>1, <2>3, HoldsKept DEF FileInv
  <2> QED BY <2>1, <2>2, <2>3 DEF FileInv
<1>5. CASE WriteFails
  <2>1. /\ UNCHANGED <<files, pc, fname, n>> /\ pc = "writing" /\ good /\ good' = FALSE
        /\ body' = Tail(body) /\ DOMAIN last' = DOMAIN last
        /\ \A f \in DOMAIN last :
             last'[f] = IF f = fname THEN [last[fname] EXCEPT !.whole = FALSE] ELSE last[f]
    BY <1>5 DEF WriteFails
  <2>2. /\ fname \in DOMAIN last
        /\ last'[fname] \in [call : 1 .. MaxCalls, size : 0 .. MaxBuffers, whole : BOOLEAN]
        /\ last'[fname].whole = FALSE /\ last'[fname].call = last[fname].call
        /\ last'[fname].size = last[fname].size
    BY <2>1 DEF FileInv
  <2>3. Holds(fname)'
    <3>1. files[fname] \o body = LastAnswer(fname)
      BY <2>1 DEF FileInv, Holds
    <3>2. IsPrefix(files[fname], LastAnswer(fname))
      <4>1. files[fname] \in Seq(Buffers) /\ body \in Seq(Buffers)
        BY <2>1
      <4> QED BY <3>1, <4>1, PrefixOfMore
    <3>3. LastAnswer(fname)' = LastAnswer(fname)
      BY <2>1, <2>2 DEF LastAnswer, Body
    <3> QED BY <2>1, <2>2, <3>2, <3>3 DEF Holds
  <2>4. ASSUME NEW f \in DOMAIN files, f # fname PROVE Holds(f)'
    BY <2>1, <2>4, HoldsKept DEF FileInv
  <2> QED BY <2>1, <2>2, <2>3, <2>4 DEF FileInv
<1>6. CASE WriteIgnored
  <2>1. UNCHANGED <<files, pc, fname, good, n, last>> /\ pc = "writing" /\ ~good
    BY <1>6 DEF WriteIgnored
  <2>2. \A f \in DOMAIN files : Holds(f)'
    BY <2>1, HoldsKept DEF FileInv
  <2> QED BY <2>1, <2>2 DEF FileInv
<1>7. CASE Return
  <2>1. /\ UNCHANGED <<files, n, last>> /\ pc = "writing" /\ body = <<>> /\ pc' = "idle" /\ good'
    BY <1>7, LeavesTypes DEF Return
  <2>2. ASSUME NEW f \in DOMAIN files PROVE Holds(f)'
    <3>1. CASE f = fname /\ good
      <4>1. files[f] = LastAnswer(f)
        BY <2>1, <3>1, ConcatEmptySeq DEF FileInv, Holds
      <4>2. IsPrefix(files[f], files[f])
        BY PrefixOfMore
      <4>3. UNCHANGED LastAnswer(f)
        BY <2>1 DEF LastAnswer, Body
      <4> QED BY <2>1, <4>1, <4>2, <4>3 DEF Holds
    <3>2. CASE ~(f = fname /\ good)
      BY <2>1, <3>2, HoldsKept DEF FileInv
    <3> QED BY <3>1, <3>2
  <2> QED BY <2>1, <2>2 DEF FileInv
<1>8. CASE UNCHANGED vars
  <2>1. UNCHANGED <<files, pc, fname, body, good, n, last>>
    BY <1>8 DEF vars
  <2>2. \A f : UNCHANGED Holds(f)
    BY <2>1 DEF Holds, LastAnswer, Body
  <2>3. UNCHANGED Body(n, Len(body))
    BY <2>1 DEF Body
  <2> QED BY <2>1, <2>2, <2>3 DEF FileInv
<1> QED BY <1>1, <1>2, <1>3, <1>4, <1>5, <1>6, <1>7, <1>8 DEF Next

-----------------------------------------------------------------------------
(* What becomes of the URL *)

\* The invariant of the URL at the start.
LEMMA UrlInit == Init => UrlInv
BY EmptySeq DEF Init, UrlInv, IsUrl

\* Every step keeps it: the URL only changes with a call, which leaves no name of a file
\* of another URL behind.
LEMMA UrlStep ==
  ASSUME UrlInv, [Next]_vars
  PROVE  UrlInv'
<1>1. ASSUME UNCHANGED url, pc' # "sent",
             \/ pc' \notin {"named", "answered", "writing"}
             \/ pc \in {"named", "sent", "answered", "writing"} /\ UNCHANGED fname
      PROVE  UrlInv'
  <2>1. UNCHANGED IsUrl(url) /\ UNCHANGED ResourceNames(url)
    BY <1>1
  <2> QED BY <1>1, <2>1 DEF UrlInv
<1>2. Leaves => pc' = "idle"
  BY DEF Leaves
<1>3. CASE DownloadFile
  <2>1. url' \in Urls /\ (Leaves \/ FromUrl \/ NotAssigned)
    BY <1>3 DEF DownloadFile
  <2>2. IsUrl(url)'
    BY <2>1, DownloadAssumption DEF IsUrl
  <2>3. \/ pc' \in {"idle", "aborted"}
        \/ pc' = "named" /\ fname' \in ResourceNames(url') \ {<<>>}
    BY <1>2, <2>1 DEF FromUrl, NotAssigned
  <2> QED BY <2>2, <2>3 DEF UrlInv
<1>4. CASE Request
  <2>1. /\ pc = "named" /\ pc' = "sent" /\ UNCHANGED <<url, fname>> /\ Parse(url).status = "parsed"
        /\ \E t \in Targets(url) :
             request' = [host |-> Parse(url).host, port |-> Port(url), target |-> t]
    BY <1>4 DEF Request
  <2>2. PICK t \in Targets(url) :
          request' = [host |-> Parse(url).host, port |-> Port(url), target |-> t]
    BY <2>1
  <2>3. request'.host = Parse(url).host /\ request'.port = Port(url) /\ request'.target \in Targets(url)
    BY <2>2
  <2>4. UNCHANGED <<IsUrl(url), ResourceNames(url), Parse(url), Port(url), Targets(url)>>
    BY <2>1
  <2> QED BY <2>1, <2>3, <2>4 DEF UrlInv
<1>5. CASE RequestAborts \/ RequestFails \/ Answered \/ OpenFails \/ Open \/ Return
  BY <1>1, <1>2, <1>5 DEF RequestAborts, RequestFails, Answered, OpenFails, Open, Return
<1>6. CASE Write \/ WriteFails \/ WriteIgnored
  BY <1>1, <1>6 DEF Write, WriteFails, WriteIgnored
<1>7. CASE UNCHANGED vars
  <2>1. UNCHANGED <<url, pc, fname, request>>
    BY <1>7 DEF vars
  <2>2. UNCHANGED <<IsUrl(url), ResourceNames(url), Parse(url), Port(url), Targets(url)>>
    BY <2>1
  <2> QED BY <2>1, <2>2 DEF UrlInv
<1> QED BY <1>3, <1>4, <1>5, <1>6, <1>7 DEF Next

-----------------------------------------------------------------------------
(* What is proved of the files *)

\* The inductive invariant: the files, the URL, and the types they rest on.
THEOREM FileInvariant == Spec => [](TypeOK /\ DownloadInv)
<1>1. Init => TypeOK /\ DownloadInv
  BY FilesInit, UrlInit DEF DownloadInv
<1>2. TypeOK /\ DownloadInv /\ [Next]_vars => (TypeOK /\ DownloadInv)'
  BY FileTypes, FileStep, UrlStep DEF DownloadInv
<1> QED BY <1>1, <1>2, PTL DEF Spec

\* The types hold, and from the moment there is a request there is a file name.
THEOREM DownloadTypes == Spec => []TypeOK
BY FileInvariant, PTL

\* Whatever sequence of calls, refusals, failures and full disks: a file holds the
\* beginning of the answer to the call that opened it last, and all of it once it is
\* closed and no write failed (download_file_impl).
THEOREM FileIsFromLastCall == Spec => []FileIsLastAnswer
<1>1. TypeOK /\ DownloadInv => FileIsLastAnswer
  <2> SUFFICES ASSUME TypeOK, FileInv PROVE FileIsLastAnswer
    BY DEF DownloadInv
  <2>1. ASSUME NEW f \in DOMAIN files
        PROVE  /\ IsPrefix(files[f], LastAnswer(f))
               /\ last[f].whole /\ ~(pc = "writing" /\ f = fname) => files[f] = LastAnswer(f)
    <3>1. Holds(f)
      BY DEF FileInv
    <3>2. IsPrefix(files[f], files[f] \o body)
      BY PrefixOfMore DEF TypeOK
    <3>3. pc = "writing" /\ f = fname => last[f].whole = good
      BY DEF FileInv
    <3> QED BY <3>1, <3>2, <3>3 DEF Holds
  <2> QED BY <2>1 DEF FileInv, FileIsLastAnswer
<1> QED BY <1>1, FileInvariant, PTL

-----------------------------------------------------------------------------
(* Texts, and what is left of them *)

\* The greatest and the least of some of the numbers up to a bound: the loops that look for
\* the last and for the first character of a kind (rfind, find_first_of).
LEMMA Firsts ==
  ASSUME NEW top \in Nat, NEW S \in SUBSET (1 .. top), S # {}
  PROVE  /\ Max(S) \in S /\ \A y \in S : y <= Max(S)
         /\ Min(S) \in S /\ \A y \in S : Min(S) <= y
BY Numbers!Extremes DEF Numbers!Max, Numbers!Min, Max, Min

\* What `*class' takes is of the class, and what follows it is not.
LEMMA SpanIs ==
  ASSUME NEW S, NEW s \in Seq(S), NEW class
  PROVE  /\ Span(s, class) \in 0 .. Len(s)
         /\ \A i \in 1 .. Span(s, class) : s[i].c \in class
         /\ Span(s, class) < Len(s) => s[Span(s, class) + 1].c \notin class
<1> DEFINE I == {i \in 1 .. Len(s) : s[i].c \notin class}
<1>1. Len(s) \in Nat /\ I \in SUBSET (1 .. Len(s))
  BY LenProperties
<1>2. Span(s, class) = IF I # {} THEN Min(I) - 1 ELSE Len(s)
  <2>1. SelectInSeq(s, LAMBDA t : t.c \notin class) = IF I # {} THEN Min(I) ELSE 0
    BY DEF SelectInSeq
  <2>2. I # {} => Min(I) \in 1 .. Len(s)
    BY <1>1, Firsts
  <2> HIDE DEF I
  <2> QED BY <2>1, <2>2 DEF Span
<1>3. CASE I = {}
  BY <1>1, <1>2, <1>3
<1>4. CASE I # {}
  <2>1. Min(I) \in I /\ \A y \in I : Min(I) <= y
    BY <1>1, <1>4, Firsts
  <2>2. Min(I) \in 1 .. Len(s) /\ s[Min(I)].c \notin class
    BY <2>1
  <2>3. \A i \in 1 .. Min(I) - 1 : i \notin I /\ i \in 1 .. Len(s)
    BY <1>1, <2>1, <2>2
  <2> QED BY <1>1, <1>2, <1>4, <2>2, <2>3
<1> QED BY <1>3, <1>4

\* Skipping white space goes through the text once: what is left of its first k characters,
\* for every k.  (That the recursive function exists is shown by the first k at which it
\* would not.)
LEMMA SqueezeSteps ==
  ASSUME NEW S, NEW s \in Seq(S)
  PROVE  \E left : /\ left[0] = <<>>
                   /\ \A k \in 1 .. Len(s) :
                        left[k] = IF s[k].c \in Space THEN left[k - 1] ELSE Append(left[k - 1], s[k])
                   /\ Squeeze(s) = left[Len(s)]
<1> DEFINE Step(f, k) == IF k = 0 THEN <<>>
                         ELSE IF s[k].c \in Space THEN f[k - 1]
                         ELSE Append(f[k - 1], s[k])
           Good(f, m) == f = [k \in 0 .. m |-> Step(f, k)]
           T == {m \in 0 .. Len(s) : ~ \E f : Good(f, m)}
<1>0. Len(s) \in Nat
  BY LenProperties
<1>a. ASSUME NEW f, NEW m \in Nat, Good(f, m)
      PROVE  \A k \in 0 .. m : f[k] = Step(f, k)
  <2> DEFINE h == [k \in 0 .. m |-> Step(f, k)]
  <2>1. \A k \in 0 .. m : h[k] = Step(f, k)
    OBVIOUS
  <2>2. f = h
    BY <1>a
  <2> HIDE DEF h
  <2> QED BY <2>1, <2>2
<1>1. T = {}
  <2>1. SUFFICES ASSUME T # {} PROVE FALSE
    OBVIOUS
  <2>2. PICK m \in T : \A k \in T : m <= k
    <3>1. T \in SUBSET Nat
      BY <1>0
    <3> HIDE DEF T
    <3> QED BY <2>1, <3>1, Numbers!Least
  <2>3. m \in 0 .. Len(s) /\ ~ \E f : Good(f, m)
    OBVIOUS
  <2> HIDE DEF T
  <2>4. CASE m = 0
    <3> DEFINE f == [k \in 0 .. 0 |-> <<>>]
    <3>1. Good(f, 0)
      OBVIOUS
    <3> HIDE DEF f
    <3> QED BY <2>3, <2>4, <3>1
  <2>5. CASE m # 0
    <3>1. m - 1 \in 0 .. Len(s) /\ m - 1 \notin T
      BY <1>0, <2>2, <2>3, <2>5
    <3>2. PICK f : Good(f, m - 1)
      BY <3>1 DEF T
    <3> DEFINE g == [k \in 0 .. m |-> Step(f, k)]
    <3>3. \A k \in 0 .. m - 1 : g[k] = f[k]
      <4>1. m - 1 \in Nat /\ \A k \in 0 .. m - 1 : k \in 0 .. m
        BY <2>3, <3>1
      <4>2. \A k \in 0 .. m - 1 : f[k] = Step(f, k)
        BY <3>2, <4>1, <1>a
      <4> HIDE DEF Step
      <4> QED BY <4>1, <4>2
    <3>4. \A k \in 0 .. m : Step(g, k) = Step(f, k)
      <4>1. \A k \in 0 .. m : k # 0 => k - 1 \in 0 .. m - 1
        BY <2>3
      <4> HIDE DEF g
      <4> QED BY <3>3, <4>1
    <3>5. Good(g, m)
      BY <3>4
    <3> QED BY <2>3, <3>5
  <2> QED BY <2>4, <2>5
<1>2. PICK g : Good(g, Len(s))
  <2>1. Len(s) \in 0 .. Len(s)
    BY <1>0
  <2> HIDE DEF Good
  <2> QED BY <1>1, <2>1
<1> DEFINE f == CHOOSE f : Good(f, Len(s))
<1>3. Good(f, Len(s))
  BY <1>2
<1>4. Squeeze(s) = f[Len(s)]
  BY DEF Squeeze
<1>5. f[0] = <<>> /\ \A k \in 1 .. Len(s) : f[k] = Step(f, k)
  <2>1. \A k \in 0 .. Len(s) : f[k] = Step(f, k)
    BY <1>0, <1>3, <1>a
  <2> HIDE DEF f
  <2>2. 0 \in 0 .. Len(s) /\ \A k \in 1 .. Len(s) : k \in 0 .. Len(s)
    BY <1>0
  <2>3. f[0] = Step(f, 0)
    BY <2>1, <2>2
  <2> HIDE DEF Good
  <2> QED BY <2>1, <2>2, <2>3
<1> HIDE DEF f
<1> QED BY <1>4, <1>5

\* What holds of 0, and of k when it holds of k - 1, holds of every number up to a bound.
LEMMA Reached ==
  ASSUME NEW top \in Nat, NEW T, 0 \in T, \A k \in 1 .. top : k - 1 \in T => k \in T
  PROVE  \A k \in 0 .. top : k \in T
<1> DEFINE Left == (0 .. top) \ T
<1>1. SUFFICES ASSUME Left # {} PROVE FALSE
  OBVIOUS
<1>2. PICK m \in Left : \A k \in Left : m <= k
  <2>1. Left \in SUBSET Nat
    OBVIOUS
  <2> HIDE DEF Left
  <2> QED BY <1>1, <2>1, Numbers!Least
<1>3. m \in 1 .. top /\ m - 1 \in 0 .. top
  OBVIOUS
<1>4. m - 1 \notin Left
  <2>1. ~(m <= m - 1)
    BY <1>3
  <2> HIDE DEF Left
  <2> QED BY <1>2, <2>1
<1> QED BY <1>3, <1>4

\* What is left is made of the same characters, at every step.
LEMMA SqueezeType ==
  ASSUME NEW S, NEW s \in Seq(S)
  PROVE  \E left : /\ left[0] = <<>>
                   /\ \A k \in 1 .. Len(s) :
                        left[k] = IF s[k].c \in Space THEN left[k - 1] ELSE Append(left[k - 1], s[k])
                   /\ Squeeze(s) = left[Len(s)]
                   /\ \A k \in 0 .. Len(s) : left[k] \in Seq(S)
                   /\ Squeeze(s) \in Seq(S)
<1>1. PICK left : /\ left[0] = <<>>
                  /\ \A k \in 1 .. Len(s) :
                       left[k] = IF s[k].c \in Space THEN left[k - 1] ELSE Append(left[k - 1], s[k])
                  /\ Squeeze(s) = left[Len(s)]
  BY SqueezeSteps
<1>2. Len(s) \in Nat /\ \A k \in 1 .. Len(s) : s[k] \in S
  BY LenProperties
<1> DEFINE T == {k \in 0 .. Len(s) : left[k] \in Seq(S)}
<1>3. 0 \in T
  <2>1. <<>> \in Seq(S) /\ 0 \in 0 .. Len(s)
    BY <1>2, EmptySeq
  <2> QED BY <1>1, <2>1
<1>4. ASSUME NEW k \in 1 .. Len(s), k - 1 \in T PROVE k \in T
  <2>1. k \in 0 .. Len(s) /\ left[k - 1] \in Seq(S)
    BY <1>2, <1>4
  <2>2. Append(left[k - 1], s[k]) \in Seq(S)
    BY <1>2, <2>1, AppendProperties
  <2>3. left[k] = left[k - 1] \/ left[k] = Append(left[k - 1], s[k])
    BY <1>1
  <2>4. left[k] \in Seq(S)
    BY <2>1, <2>2, <2>3
  <2> QED BY <2>1, <2>4
<1>5. \A k \in 0 .. Len(s) : k \in T
  <2> HIDE DEF T
  <2> QED BY <1>2, <1>3, <1>4, Reached
<1>6. Len(s) \in 0 .. Len(s)
  BY <1>2
<1> QED BY <1>1, <1>5, <1>6

\* What is appended to a concatenation is appended to its second part.
LEMMA AppendToSecond ==
  ASSUME NEW S, NEW s \in Seq(S), NEW t \in Seq(S), NEW x \in S, NEW y, y = Append(t, x)
  PROVE  Append(s \o t, x) = s \o y
<1>1. <<x>> \in Seq(S) /\ s \o t \in Seq(S)
  BY ConcatProperties
<1>2. Append(s \o t, x) = (s \o t) \o <<x>> /\ Append(t, x) = t \o <<x>>
  BY <1>1, AppendIsConcat
<1> QED BY <1>1, <1>2, ConcatAssociative

\* White space is skipped part by part: nothing moves from one part to the other.
LEMMA SqueezeConcat ==
  ASSUME NEW S, NEW s \in Seq(S), NEW t \in Seq(S)
  PROVE  Squeeze(s \o t) = Squeeze(s) \o Squeeze(t)
<1>1. /\ Len(s) \in Nat /\ Len(t) \in Nat /\ s \o t \in Seq(S) /\ Len(s \o t) = Len(s) + Len(t)
      /\ \A k \in 1 .. Len(s) : (s \o t)[k] = s[k]
      /\ \A k \in 1 .. Len(t) : (s \o t)[Len(s) + k] = t[k] /\ t[k] \in S
  BY LenProperties, ConcatProperties
<1>2. PICK f : /\ f[0] = <<>>
               /\ \A k \in 1 .. Len(s) + Len(t) :
                    f[k] = IF (s \o t)[k].c \in Space THEN f[k - 1] ELSE Append(f[k - 1], (s \o t)[k])
               /\ Squeeze(s \o t) = f[Len(s) + Len(t)]
  BY <1>1, SqueezeSteps
<1>3. PICK g : /\ g[0] = <<>>
               /\ \A k \in 1 .. Len(s) :
                    g[k] = IF s[k].c \in Space THEN g[k - 1] ELSE Append(g[k - 1], s[k])
               /\ Squeeze(s) = g[Len(s)]
               /\ Squeeze(s) \in Seq(S)
  BY SqueezeType
<1>4. PICK h : /\ h[0] = <<>>
               /\ \A k \in 1 .. Len(t) :
                    h[k] = IF t[k].c \in Space THEN h[k - 1] ELSE Append(h[k - 1], t[k])
               /\ Squeeze(t) = h[Len(t)]
               /\ \A k \in 0 .. Len(t) : h[k] \in Seq(S)
  BY SqueezeType
<1>5. \A k \in 0 .. Len(s) : f[k] = g[k]
  <2> DEFINE T == {k \in 0 .. Len(s) : f[k] = g[k]}
  <2>1. 0 \in T
    BY <1>1, <1>2, <1>3
  <2>2. ASSUME NEW k \in 1 .. Len(s), k - 1 \in T PROVE k \in T
    <3>1. k \in 1 .. Len(s) + Len(t) /\ k \in 0 .. Len(s)
      BY <1>1
    <3> QED BY <1>1, <1>2, <1>3, <2>2, <3>1
  <2>3. \A k \in 0 .. Len(s) : k \in T
    <3> HIDE DEF T
    <3> QED BY <1>1, <2>1, <2>2, Reached
  <2> QED BY <2>3
<1>6. \A k \in 0 .. Len(t) : f[Len(s) + k] = g[Len(s)] \o h[k]
  <2> DEFINE T == {k \in 0 .. Len(t) : f[Len(s) + k] = g[Len(s)] \o h[k]}
  <2>1. 0 \in T
    <3>1. f[Len(s)] = g[Len(s)] /\ Len(s) + 0 = Len(s)
      BY <1>1, <1>5
    <3>2. g[Len(s)] \o <<>> = g[Len(s)]
      BY <1>3, ConcatEmptySeq
    <3>3. f[Len(s) + 0] = g[Len(s)] \o h[0]
      BY <1>4, <3>1, <3>2
    <3>4. 0 \in 0 .. Len(t)
      BY <1>1
    <3> QED BY <3>3, <3>4
  <2>2. ASSUME NEW k \in 1 .. Len(t), k - 1 \in T PROVE k \in T
    <3>1. /\ Len(s) + k \in 1 .. Len(s) + Len(t) /\ k \in 0 .. Len(t) /\ k - 1 \in 0 .. Len(t)
          /\ Len(s) + k - 1 = Len(s) + (k - 1)
      BY <1>1
    <3>2. f[Len(s) + (k - 1)] = g[Len(s)] \o h[k - 1]
      BY <2>2
    <3>3. f[Len(s) + k] = IF t[k].c \in Space THEN f[Len(s) + (k - 1)]
                          ELSE Append(f[Len(s) + (k - 1)], t[k])
      BY <1>1, <1>2, <3>1
    <3>4. h[k] = IF t[k].c \in Space THEN h[k - 1] ELSE Append(h[k - 1], t[k])
      BY <1>4
    <3>5. f[Len(s) + k] = g[Len(s)] \o h[k]
      <4>1. PICK a \in Seq(S) : a = g[Len(s)]
        BY <1>3
      <4>2. PICK b \in Seq(S) : b = h[k - 1]
        BY <1>4, <3>1
      <4>3. PICK x \in S : x = t[k]
        BY <1>1
      <4>4. PICK y : y = Append(b, x)
        OBVIOUS
      <4>5. Append(a \o b, x) = a \o y
        BY <4>4, AppendToSecond
      <4>6. t[k].c \notin Space => f[Len(s) + k] = Append(a \o b, x) /\ h[k] = y
        BY Zenon, <3>2, <3>3, <3>4, <4>1, <4>2, <4>3, <4>4
      <4> QED BY Zenon, <3>2, <3>3, <3>4, <4>1, <4>2, <4>5, <4>6
    <3> QED BY <3>1, <3>5
  <2>3. \A k \in 0 .. Len(t) : k \in T
    <3> HIDE DEF T
    <3> QED BY <1>1, <2>1, <2>2, Reached
  <2> QED BY <2>3
<1>7. Len(t) \in 0 .. Len(t)
  BY <1>1
<1> QED BY <1>2, <1>3, <1>4, <1>6, <1>7

\* Of white space alone nothing is left.
LEMMA SqueezeSpaces ==
  ASSUME NEW S, NEW s \in Seq(S), \A k \in 1 .. Len(s) : s[k].c \in Space
  PROVE  Squeeze(s) = <<>>
<1>1. PICK left : /\ left[0] = <<>>
                  /\ \A k \in 1 .. Len(s) : left[k] = left[k - 1]
                  /\ Squeeze(s) = left[Len(s)]
  BY SqueezeSteps
<1>2. Len(s) \in Nat
  BY LenProperties
<1> DEFINE T == {k \in 0 .. Len(s) : left[k] = <<>>}
<1>3. 0 \in T
  BY <1>1, <1>2
<1>4. ASSUME NEW k \in 1 .. Len(s), k - 1 \in T PROVE k \in T
  BY <1>1, <1>2, <1>4
<1>5. \A k \in 0 .. Len(s) : k \in T
  <2> HIDE DEF T
  <2> QED BY <1>2, <1>3, <1>4, Reached
<1>6. Len(s) \in 0 .. Len(s)
  BY <1>2
<1> QED BY <1>1, <1>5, <1>6

\* Where there is no white space everything is left.
LEMMA SqueezeNone ==
  ASSUME NEW S, NEW s \in Seq(S), \A k \in 1 .. Len(s) : s[k].c \notin Space
  PROVE  Squeeze(s) = s
<1>1. PICK left : /\ left[0] = <<>>
                  /\ \A k \in 1 .. Len(s) : left[k] = Append(left[k - 1], s[k])
                  /\ Squeeze(s) = left[Len(s)]
  BY SqueezeSteps
<1>2. Len(s) \in Nat /\ \A k \in 1 .. Len(s) : s[k] \in S
  BY LenProperties
<1> DEFINE T == {k \in 0 .. Len(s) : left[k] = SubSeq(s, 1, k)}
<1>3. 0 \in T
  <2>1. SubSeq(s, 1, 0) = <<>>
    BY SubSeqEmpty
  <2>2. 0 \in 0 .. Len(s)
    BY <1>2
  <2> QED BY <1>1, <2>1, <2>2
<1>4. ASSUME NEW k \in 1 .. Len(s), k - 1 \in T PROVE k \in T
  <2>1. 1 \in 1 .. Len(s) /\ k \in 1 .. Len(s) /\ k \in 0 .. Len(s) /\ 1 \in Int /\ k - 1 \in Int
        /\ \A i \in 1 .. k - 1 : s[i] \in S
    BY <1>2
  <2>2. SubSeq(s, 1, k) = SubSeq(s, 1, k - 1) \o <<s[k]>>
    BY <2>1, SubSeqRecursiveSecond
  <2>3. SubSeq(s, 1, k - 1) \in Seq(S)
    BY <2>1, SubSeqProperties
  <2>4. Append(SubSeq(s, 1, k - 1), s[k]) = SubSeq(s, 1, k)
    BY <1>2, <2>2, <2>3, AppendIsConcat
  <2> QED BY <1>1, <1>4, <2>1, <2>4
<1>5. \A k \in 0 .. Len(s) : k \in T
  <2> HIDE DEF T
  <2> QED BY <1>2, <1>3, <1>4, Reached
<1>6. Len(s) \in 0 .. Len(s) /\ SubSeq(s, 1, Len(s)) = s
  BY <1>2, SubSeqFull
<1> QED BY <1>1, <1>5, <1>6

\* A part of a sequence: its characters, its length, and when it is empty.
LEMMA Part ==
  ASSUME NEW S, NEW s \in Seq(S), NEW m \in 1 .. Len(s) + 1, NEW k \in m - 1 .. Len(s)
  PROVE  /\ SubSeq(s, m, k) \in Seq(S) /\ Len(SubSeq(s, m, k)) = k - m + 1
         /\ \A i \in 1 .. k - m + 1 : SubSeq(s, m, k)[i] = s[m + i - 1]
         /\ SubSeq(s, m, k) = <<>> <=> k = m - 1
<1>1. Len(s) \in Nat /\ m \in Int /\ k \in Int /\ \A i \in m .. k : s[i] \in S
  BY LenProperties
<1>2. /\ SubSeq(s, m, k) \in Seq(S) /\ Len(SubSeq(s, m, k)) = IF m <= k THEN k - m + 1 ELSE 0
      /\ \A i \in 1 .. k - m + 1 : SubSeq(s, m, k)[i] = s[m + i - 1]
  BY <1>1, SubSeqProperties
<1>3. Len(SubSeq(s, m, k)) = k - m + 1
  BY <1>1, <1>2
<1>4. SubSeq(s, m, k) = <<>> <=> Len(SubSeq(s, m, k)) = 0
  BY <1>2, EmptySeq
<1> QED BY <1>1, <1>2, <1>3, <1>4

\* A beginning all of the class, followed by something that is not, is what `*class' takes.
LEMMA SpanUnique ==
  ASSUME NEW S, NEW s \in Seq(S), NEW class, NEW k \in 0 .. Len(s),
         \A i \in 1 .. k : s[i].c \in class, k < Len(s) => s[k + 1].c \notin class
  PROVE  Span(s, class) = k
<1> DEFINE p == Span(s, class)
<1>1. /\ p \in 0 .. Len(s) /\ \A i \in 1 .. p : s[i].c \in class
      /\ p < Len(s) => s[p + 1].c \notin class
  BY SpanIs
<1>2. Len(s) \in Nat
  BY LenProperties
<1> HIDE DEF p
<1>3. ~(p < k)
  <2>1. p < k => p + 1 \in 1 .. k /\ p < Len(s)
    BY <1>1, <1>2
  <2> QED BY <1>1, <2>1
<1>4. ~(k < p)
  <2>1. k < p => k + 1 \in 1 .. p /\ k < Len(s)
    BY <1>1, <1>2
  <2> QED BY <1>1, <2>1
<1>5. p = k
  BY <1>1, <1>2, <1>3, <1>4
<1> QED BY <1>5 DEF p

\* What follows the first m characters.
LEMMA Rest ==
  ASSUME NEW S, NEW s \in Seq(S), NEW m \in 0 .. Len(s)
  PROVE  /\ From(s, m + 1) \in Seq(S) /\ Len(From(s, m + 1)) = Len(s) - m
         /\ \A i \in 1 .. Len(s) - m : From(s, m + 1)[i] = s[m + i]
         /\ From(s, m + 1) = <<>> <=> m = Len(s)
<1> DEFINE q == m + 1
           r == From(s, q)
<1>1. Len(s) \in Nat /\ q \in 1 .. Len(s) + 1 /\ Len(s) \in q - 1 .. Len(s) /\ q = m + 1
  BY LenProperties
<1> HIDE DEF q
<1>2. /\ r \in Seq(S) /\ Len(r) = Len(s) - q + 1
      /\ \A i \in 1 .. Len(s) - q + 1 : r[i] = s[q + i - 1]
  BY <1>1, Part DEF From
<1>a. r = <<>> <=> Len(s) = q - 1
  <2>1. s \in Seq(S) /\ q \in 1 .. Len(s) + 1 /\ Len(s) \in q - 1 .. Len(s)
    BY <1>1
  <2>2. SubSeq(s, q, Len(s)) = <<>> <=> Len(s) = q - 1
    BY ONLY <2>1, Part
  <2> QED BY <2>2 DEF From
<1>3. Len(s) - q + 1 = Len(s) - m /\ (Len(s) = q - 1 <=> m = Len(s))
  BY <1>1
<1>4. \A i \in 1 .. Len(s) - m : q + i - 1 = m + i
  BY <1>1
<1> HIDE DEF r
<1>5. /\ r \in Seq(S) /\ Len(r) = Len(s) - m
      /\ \A i \in 1 .. Len(s) - m : r[i] = s[m + i]
      /\ r = <<>> <=> m = Len(s)
  BY <1>2, <1>a, <1>3, <1>4
<1> QED BY <1>1, <1>5 DEF r

\* `*class' begun in the middle of what it takes stops at the same place.
LEMMA SpanOfRest ==
  ASSUME NEW S, NEW s \in Seq(S), NEW class, NEW m \in 0 .. Span(s, class)
  PROVE  Span(From(s, m + 1), class) = Span(s, class) - m
<1> DEFINE p == Span(s, class)
           r == From(s, m + 1)
<1>1. /\ p \in 0 .. Len(s) /\ \A i \in 1 .. p : s[i].c \in class
      /\ p < Len(s) => s[p + 1].c \notin class
  BY SpanIs
<1>2. Len(s) \in Nat /\ m \in 0 .. p
  BY LenProperties
<1>3. /\ r \in Seq(S) /\ Len(r) = Len(s) - m
      /\ \A i \in 1 .. Len(s) - m : r[i] = s[m + i]
  BY <1>1, <1>2, Rest
<1> HIDE DEF p, r
<1>4. p - m \in 0 .. Len(r) /\ p \in Int /\ m \in Int
  BY <1>1, <1>2, <1>3
<1>5. \A i \in 1 .. p - m : r[i].c \in class
  <2>1. \A i \in 1 .. p - m : i \in 1 .. Len(s) - m /\ m + i \in 1 .. p
    BY <1>1, <1>2
  <2> QED BY <1>1, <1>3, <2>1
<1>6. p - m < Len(r) => r[(p - m) + 1].c \notin class
  <2>1. p - m < Len(r) => (p - m) + 1 \in 1 .. Len(s) - m /\ m + ((p - m) + 1) = p + 1 /\ p < Len(s)
    BY <1>1, <1>2, <1>3
  <2> QED BY <1>1, <1>3, <2>1
<1>7. Span(r, class) = p - m
  BY <1>3, <1>4, <1>5, <1>6, SpanUnique
<1> QED BY <1>7 DEF p, r

\* The host is white space, one character of any kind, and then letters, digits, dots and
\* white space, as many as there are (domain).
LEMMA HostLengthIs ==
  ASSUME NEW S, NEW s \in Seq(S), Span(s, Space) < Len(s)
  PROVE  /\ HostLength(s) \in Span(s, Space) + 1 .. Len(s)
         /\ \A i \in Span(s, Space) + 2 .. HostLength(s) : s[i].c \in DomainChar \cup Space
         /\ HostLength(s) < Len(s) => s[HostLength(s) + 1].c \notin DomainChar \cup Space
<1> DEFINE class == DomainChar \cup Space
           j == Span(s, Space)
           k == j + 1
           r == From(s, k + 1)
           p == Span(r, class)
           h == HostLength(s)
<1>1. h = k + p
  BY DEF HostLength
<1>2. Len(s) \in Nat /\ j \in 0 .. Len(s) /\ j < Len(s)
  BY LenProperties, SpanIs
<1> HIDE DEF j, h, class, r
<1>3. k \in 1 .. Len(s) /\ k = j + 1
  BY <1>2
<1> HIDE DEF k
<1>4. /\ r \in Seq(S) /\ Len(r) = Len(s) - k
      /\ \A i \in 1 .. Len(s) - k : r[i] = s[k + i]
  BY <1>2, <1>3, Rest DEF r
<1>5. /\ p \in 0 .. Len(r) /\ \A i \in 1 .. p : r[i].c \in class
      /\ p < Len(r) => r[p + 1].c \notin class
  BY <1>4, SpanIs
<1> HIDE DEF p
<1>6. h \in k .. Len(s)
  BY <1>1, <1>2, <1>3, <1>4, <1>5
<1>7. ASSUME NEW i \in k + 1 .. h
      PROVE  s[i].c \in class
  <2>1. i - k \in 1 .. p /\ i - k \in 1 .. Len(s) - k /\ k + (i - k) = i
    BY <1>1, <1>2, <1>3, <1>4, <1>5
  <2> QED BY <1>4, <1>5, <2>1
<1>8. h < Len(s) => s[h + 1].c \notin class
  <2>1. h < Len(s) => p < Len(r) /\ p + 1 \in 1 .. Len(s) - k /\ k + (p + 1) = h + 1
    BY <1>1, <1>2, <1>3, <1>4, <1>5
  <2> QED BY <1>4, <1>5, <2>1
<1>9. k + 1 = j + 2
  BY <1>2, <1>3
<1> QED BY <1>3, <1>6, <1>7, <1>8, <1>9 DEF j, h, class

\* The characters of a URL: a number is a run of digits and carries its value, anything else
\* carries none.
LEMMA Characters ==
  ASSUME NEW u, IsUrl(u)
  PROVE  /\ u.text \in Seq(Character) /\ Len(u.text) \in Nat
         /\ \A i \in 1 .. Len(u.text) :
              /\ u.text[i] \in Character
              /\ u.text[i] = IF u.text[i].c = "num" THEN Num(u.text[i].n) ELSE Char(u.text[i].c)
              /\ u.text[i].n \in Nat /\ u.text[i].c \in STRING
<1>1. u.text \in Seq(Character) /\ Len(u.text) \in Nat
  BY LenProperties DEF IsUrl
<1>2. ASSUME NEW i \in 1 .. Len(u.text)
      PROVE  /\ u.text[i] \in Character
             /\ u.text[i] = IF u.text[i].c = "num" THEN Num(u.text[i].n) ELSE Char(u.text[i].c)
             /\ u.text[i].n \in Nat /\ u.text[i].c \in STRING
  <2>1. u.text[i] \in Character
    BY <1>1, ElementOfSeq
  <2>2. u.text[i].c # "num" => u.text[i].n = 0
    BY DEF IsUrl
  <2> QED BY <2>1, <2>2 DEF Character, Num, Char
<1> QED BY <1>1, <1>2

\* The first colon is a colon.
LEMMA ColonIs ==
  ASSUME NEW S, NEW s \in Seq(S)
  PROVE  Colon(s) \in 0 .. Len(s) /\ (Colon(s) # 0 => s[Colon(s)].c = ":")
<1> DEFINE I == {i \in 1 .. Len(s) : s[i].c = ":"}
<1>1. Len(s) \in Nat /\ I \in SUBSET (1 .. Len(s))
  BY LenProperties
<1>2. Colon(s) = IF I # {} THEN Min(I) ELSE 0
  BY DEF Colon, SelectInSeq
<1>3. I # {} => Min(I) \in I
  BY <1>1, Firsts
<1> QED BY <1>1, <1>2, <1>3

\* The resource name is empty or follows a slash and has none in it (resource_name).
LEMMA LastSlash ==
  ASSUME NEW S, NEW s \in Seq(S)
  PROVE  \/ LastSegment(s) = <<>>
         \/ \E k \in 1 .. Len(s) :
              /\ s[k].c = "/" /\ \A i \in k + 1 .. Len(s) : s[i].c # "/"
              /\ LastSegment(s) = From(s, k + 1)
<1> DEFINE I == {i \in 1 .. Len(s) : s[i].c = "/"}
<1>1. Len(s) \in Nat /\ I \in SUBSET (1 .. Len(s))
  BY LenProperties
<1>2. LastSegment(s) = LET k == IF I # {} THEN Max(I) ELSE 0 IN IF k = 0 THEN <<>> ELSE From(s, k + 1)
  BY DEF LastSegment, SelectLastInSeq
<1>3. I # {} => Max(I) \in I /\ \A y \in I : y <= Max(I)
  BY <1>1, Firsts
<1>4. CASE I = {}
  BY <1>2, <1>4
<1>5. CASE I # {}
  <2>1. Max(I) \in 1 .. Len(s) /\ s[Max(I)].c = "/"
    BY <1>3, <1>5
  <2>2. \A i \in Max(I) + 1 .. Len(s) : i \in 1 .. Len(s) /\ ~(i <= Max(I))
    BY <1>1, <2>1
  <2>3. \A i \in Max(I) + 1 .. Len(s) : s[i].c # "/"
    BY <1>3, <1>5, <2>2
  <2>4. LastSegment(s) = From(s, Max(I) + 1)
    BY <1>2, <1>5, <2>1
  <2> QED BY <2>1, <2>3, <2>4
<1> QED BY <1>4, <1>5

-----------------------------------------------------------------------------
(* What the parser makes of a well-formed URL *)

\* A text with its delimiters: an authority of a characters, which ends at a slash or a
\* question mark, with its colon at c, or none when c is 0.
Delimited(s, a, c) ==
  /\ s \in Seq(Character) /\ Len(s) \in Nat
  /\ \A i \in 1 .. Len(s) : s[i].c \in Ascii \ Space
  /\ a \in 1 .. Len(s)
  /\ a < Len(s) => s[a + 1].c \in {"/", "?"}
  /\ c \in 0 .. a /\ c # 1
  /\ c = 0 => \A i \in 1 .. a : s[i].c \in DomainChar
  /\ c # 0 => \A i \in 1 .. c - 1 : s[i].c \in DomainChar
  /\ c # 0 => s[c].c = ":" /\ a = c + 1
  /\ c # 0 => s[a].c = "num" /\ s[a].n \in Shorts /\ s[a].n \in Nat

\* Parse, for a text that begins with something in ASCII, in terms of the host, of what
\* follows it and of the port read from that.
LEMMA ParseIs ==
  ASSUME NEW u, u.scheme # "other", Squeeze(u.text) # <<>>, Squeeze(u.text)[1].c \in Ascii,
         NEW h, h = HostLength(u.text), NEW rest, rest = From(u.text, h + 1),
         NEW port, port = Short(From(rest, 2 + Span(Tail(rest), Space)))
  PROVE  Parse(u) =
           IF rest = <<>> \/ rest[1].c # ":"
           THEN Url("parsed", Squeeze(SubSeq(u.text, 1, h)), <<>>, Path(rest))
           ELSE IF port.ok
           THEN Url("parsed", Squeeze(SubSeq(u.text, 1, h)), <<port.value % Width>>, Path(port.rest))
           ELSE Throws
BY DEF Parse

\* A path without white space, all of it ASCII, is the target as it stands (target_path).
LEMMA WholePath ==
  ASSUME NEW s \in Seq(Character), \A i \in 1 .. Len(s) : s[i].c \in Ascii \ Space
  PROVE  Path(s) = s
<1>1. Span(s, Ascii) = Len(s)
  <2>1. Len(s) \in Nat
    BY LenProperties
  <2>2. Len(s) \in 0 .. Len(s) /\ ~(Len(s) < Len(s))
    BY <2>1
  <2> QED BY <2>2, SpanUnique
<1>2. SubSeq(s, 1, Len(s)) = s
  BY SubSeqFull
<1>3. Squeeze(s) = s
  BY SqueezeNone
<1> QED BY <1>1, <1>2, <1>3 DEF Path

\* The first k characters.
LEMMA Beginning ==
  ASSUME NEW S, NEW s \in Seq(S), NEW k \in 0 .. Len(s)
  PROVE  /\ SubSeq(s, 1, k) \in Seq(S) /\ Len(SubSeq(s, 1, k)) = k
         /\ \A i \in 1 .. k : SubSeq(s, 1, k)[i] = s[i]
         /\ SubSeq(s, 1, k) = <<>> <=> k = 0
<1>1. Len(s) \in Nat /\ \A i \in 1 .. k : s[i] \in S
  BY LenProperties
<1>2. 1 \in Int /\ k \in Int
  BY <1>1
<1>3. /\ SubSeq(s, 1, k) \in Seq(S) /\ Len(SubSeq(s, 1, k)) = IF 1 <= k THEN k - 1 + 1 ELSE 0
      /\ \A i \in 1 .. k - 1 + 1 : SubSeq(s, 1, k)[i] = s[1 + i - 1]
  BY <1>1, <1>2, SubSeqProperties
<1>4. /\ Len(SubSeq(s, 1, k)) = k
      /\ \A i \in 1 .. k : SubSeq(s, 1, k)[i] = s[i]
  <2>1. k - 1 + 1 = k /\ (IF 1 <= k THEN k - 1 + 1 ELSE 0) = k /\ \A i \in 1 .. k : 1 + i - 1 = i
    BY <1>1
  <2> QED BY <1>3, <2>1
<1>5. SubSeq(s, 1, k) = <<>> <=> Len(SubSeq(s, 1, k)) = 0
  BY <1>3, EmptySeq
<1> QED BY <1>3, <1>4, <1>5

\* A well-formed URL is delimited at the end of its authority and at its first colon.
LEMMA WellformedIs ==
  ASSUME NEW u, IsUrl(u), Wellformed(u),
         NEW s, s = u.text, NEW a, a = AuthorityEnd(s),
         NEW auth, auth = SubSeq(s, 1, a), NEW c, c = Colon(auth)
  PROVE  u.scheme \in {"http", "https"} /\ Delimited(s, a, c)
<1>1. /\ s \in Seq(Character) /\ Len(s) \in Nat
      /\ \A i \in 1 .. Len(s) : s[i].c \in STRING /\ s[i].n \in Nat
  BY Characters
<1>2. /\ u.scheme # "other" /\ auth # <<>> /\ c # 1
      /\ \A i \in 1 .. Len(s) : s[i].c \in Ascii \ Space
      /\ \A i \in 1 .. Len(auth) : (i < c \/ c = 0) => auth[i].c \in DomainChar
      /\ c # 0 => Len(auth) = c + 1 /\ auth[c + 1].c = "num" /\ auth[c + 1].n \in Shorts
  BY DEF Wellformed
<1>3. /\ a \in 0 .. Len(s)
      /\ a < Len(s) => s[a + 1].c \notin STRING \ {"/", "?"}
  BY <1>1, SpanIs DEF AuthorityEnd
<1>4. /\ auth \in Seq(Character) /\ Len(auth) = a
      /\ \A i \in 1 .. a : auth[i] = s[i]
      /\ a # 0
  BY <1>1, <1>2, <1>3, Beginning
<1>5. a < Len(s) => s[a + 1].c \in {"/", "?"}
  <2>1. a < Len(s) => a + 1 \in 1 .. Len(s)
    BY <1>1, <1>3
  <2> QED BY <1>1, <1>3, <2>1
<1>6. c \in 0 .. a /\ (c # 0 => auth[c].c = ":")
  BY <1>4, ColonIs
<1>7. a \in 1 .. Len(s) /\ a \in 1 .. a
  BY <1>1, <1>3, <1>4
<1>8. c = 0 => \A i \in 1 .. a : s[i].c \in DomainChar
  BY <1>2, <1>4
<1>9. c # 0 => \A i \in 1 .. c - 1 : s[i].c \in DomainChar
  <2>1. \A i \in 1 .. c - 1 : i \in 1 .. a /\ i < c
    BY <1>6, <1>7
  <2> QED BY <1>2, <1>4, <2>1
<1>10. c # 0 => s[c].c = ":" /\ a = c + 1
  <2>1. c # 0 => c \in 1 .. a
    BY <1>6, <1>7
  <2> QED BY <1>2, <1>4, <1>6, <2>1
<1>11. c # 0 => s[a].c = "num" /\ s[a].n \in Shorts /\ s[a].n \in Nat
  BY <1>1, <1>2, <1>4, <1>7
<1>12. Delimited(s, a, c)
  BY <1>1, <1>2, <1>5, <1>6, <1>7, <1>8, <1>9, <1>10, <1>11 DEF Delimited
<1>13. u.scheme \in {"http", "https"}
  BY <1>2 DEF IsUrl
<1> QED BY <1>12, <1>13

\* Such a text has something to parse at its very beginning.
LEMMA DelimitedStarts ==
  ASSUME NEW s, NEW a, NEW c, Delimited(s, a, c)
  PROVE  Squeeze(s) # <<>> /\ Squeeze(s)[1].c \in Ascii /\ Span(s, Space) = 0
<1>1. /\ s \in Seq(Character) /\ Len(s) \in Nat
      /\ \A i \in 1 .. Len(s) : s[i].c \in Ascii \ Space
      /\ a \in 1 .. Len(s)
  BY DEF Delimited
<1>2. 1 \in 1 .. Len(s) /\ Len(s) # 0 /\ 0 \in 0 .. Len(s) /\ 0 + 1 = 1
  BY <1>1
<1>3. Squeeze(s) = s
  BY <1>1, SqueezeNone
<1>4. Squeeze(s) # <<>> /\ Squeeze(s)[1].c \in Ascii
  BY <1>1, <1>2, <1>3, EmptySeq
<1>5. Span(s, Space) = 0
  <2>1. s[0 + 1].c \notin Space /\ \A i \in 1 .. 0 : s[i].c \in Space
    BY <1>1, <1>2
  <2> QED BY <1>1, <1>2, <2>1, SpanUnique
<1> QED BY <1>4, <1>5

\* The parser stops reading the host where the delimiters say: before the colon, or else
\* where the authority ends.
LEMMA DelimitedHost ==
  ASSUME NEW s, NEW a, NEW c, Delimited(s, a, c)
  PROVE  HostLength(s) = IF c = 0 THEN a ELSE c - 1
<1>1. /\ s \in Seq(Character) /\ Len(s) \in Nat
      /\ a \in 1 .. Len(s)
      /\ a < Len(s) => s[a + 1].c \in {"/", "?"}
      /\ c \in 0 .. a /\ c # 1
      /\ c = 0 => \A i \in 1 .. a : s[i].c \in DomainChar
      /\ c # 0 => \A i \in 1 .. c - 1 : s[i].c \in DomainChar
      /\ c # 0 => s[c].c = ":" /\ a = c + 1
  BY DEF Delimited
<1> DEFINE h == HostLength(s)
           class == DomainChar \cup Space
           e == IF c = 0 THEN a ELSE c - 1
<1>2. /\ h \in 1 .. Len(s)
      /\ \A i \in 2 .. h : s[i].c \in class
      /\ h < Len(s) => s[h + 1].c \notin class
  <2>1. Span(s, Space) = 0 /\ Span(s, Space) < Len(s) /\ 0 + 1 = 1 /\ 0 + 2 = 2
    BY <1>1, DelimitedStarts
  <2> QED BY <1>1, <2>1, HostLengthIs
<1>3. /\ e \in 1 .. Len(s)
      /\ \A i \in 1 .. e : s[i].c \in DomainChar
      /\ e < Len(s) => s[e + 1].c \in {"/", "?", ":"}
  <2>1. CASE c = 0
    BY <1>1, <2>1
  <2>2. CASE c # 0
    <3>1. c - 1 \in 1 .. Len(s) /\ (c - 1) + 1 = c
      BY <1>1, <2>2
    <3> QED BY <1>1, <2>2, <3>1
  <2> QED BY <2>1, <2>2
<1>4. \A x \in {"/", "?", ":"} : x \notin class
  BY DEF DomainChar, Alnum, Space
<1>5. \A x \in DomainChar : x \in class
  OBVIOUS
<1> HIDE DEF h, class, e
<1>6. ~(h < e)
  <2>1. h < e => h + 1 \in 1 .. e /\ h < Len(s)
    BY <1>1, <1>2, <1>3
  <2> QED BY <1>2, <1>3, <1>5, <2>1
<1>7. ~(e < h)
  <2>1. e < h => e + 1 \in 2 .. h /\ e < Len(s)
    BY <1>1, <1>2, <1>3
  <2> QED BY <1>2, <1>3, <1>4, <2>1
<1>8. h = e
  BY <1>1, <1>2, <1>3, <1>6, <1>7
<1> QED BY <1>8 DEF h, e

\* A number that fits is what short_ reads.
LEMMA ShortIs ==
  ASSUME NEW d, d # <<>>, d[1].c = "num", d[1].n \in Shorts
  PROVE  Short(d).ok /\ Short(d).value = d[1].n /\ Short(d).rest = Tail(d)
BY DEF Short

\* A short without a sign is kept as it is in an unsigned short.
LEMMA SmallShort ==
  ASSUME NEW v \in Shorts, v \in Nat
  PROVE  v % Width = v
<1>1. \A m \in Nat : m > 0 /\ v <= m \div 2 - 1 => v % m = v
  OBVIOUS
<1>2. Width \in Nat /\ Width > 0
  BY DEF Width
<1>3. v <= Width \div 2 - 1
  BY <1>2 DEF Shorts
<1> QED BY <1>1, <1>2, <1>3

\* What follows the colon is the number, and then what follows the authority.
LEMMA AfterColon ==
  ASSUME NEW s, NEW a, NEW c, Delimited(s, a, c), c # 0,
         NEW rest, rest = From(s, c), NEW d, d = From(rest, 2 + Span(Tail(rest), Space))
  PROVE  /\ rest # <<>> /\ rest[1].c = ":"
         /\ d # <<>> /\ d[1] = s[a] /\ Tail(d) = From(s, a + 1)
<1>1. /\ s \in Seq(Character) /\ Len(s) \in Nat /\ a \in 1 .. Len(s)
      /\ c \in 2 .. Len(s) /\ s[c].c = ":" /\ a = c + 1 /\ s[a].c = "num"
  BY DEF Delimited
<1>2. c \in 1 .. Len(s) /\ a \in c .. Len(s) /\ Len(s) \in c .. Len(s) /\ Len(s) \in a .. Len(s)
  BY <1>1
<1>3. rest # <<>> /\ rest[1] = s[c] /\ rest \in Seq(Character)
  <2>1. c - 1 \in 0 .. Len(s) /\ (c - 1) + 1 = c /\ c - 1 # Len(s) /\ 1 \in 1 .. Len(s) - (c - 1)
    BY <1>1
  <2>2. PICK m \in 0 .. Len(s) : m = c - 1
    BY <2>1
  <2>3. m + 1 = c /\ m # Len(s) /\ 1 \in 1 .. Len(s) - m
    BY <2>1, <2>2
  <2> QED BY <1>1, <2>3, Rest
<1>4. Tail(rest) = From(s, a)
  BY <1>1, <1>2, HeadTailOfSubSeq DEF From
<1>5. From(s, a) \in Seq(Character) /\ From(s, a) # <<>> /\ From(s, a)[1] = s[a]
  <2>1. c \in 0 .. Len(s) /\ c # Len(s) /\ 1 \in 1 .. Len(s) - c
    BY <1>1
  <2> QED BY <1>1, <2>1, Rest
<1>6. Span(From(s, a), Space) = 0
  <2>1. PICK r \in Seq(Character) : r = From(s, a)
    BY <1>5
  <2>2. Len(r) \in Nat
    BY LenProperties
  <2>3. 0 \in 0 .. Len(r) /\ \A i \in 1 .. 0 : r[i].c \in Space
    BY <2>2
  <2>4. r[0 + 1].c \notin Space
    <3>1. r[1].c = "num" /\ 0 + 1 = 1
      BY <1>1, <1>5, <2>1
    <3> QED BY <3>1 DEF Space
  <2> QED BY <2>1, <2>3, <2>4, SpanUnique
<1>7. d = SubSeq(rest, 2, Len(rest))
  <2>1. 2 + Span(Tail(rest), Space) = 2
    <3>1. Span(Tail(rest), Space) = 0
      BY Zenon, <1>4, <1>6
    <3> QED BY <3>1
  <2>2. d = From(rest, 2)
    BY <2>1
  <2> QED BY <2>2 DEF From
<1>8. Tail(rest) = SubSeq(rest, 2, Len(rest))
  <2>1. PICK t \in Seq(Character) : t = rest
    BY <1>3
  <2>2. Tail(t) = SubSeq(t, 2, Len(t))
    BY TailIsSubSeq
  <2> QED BY <2>1, <2>2
<1>9. d = From(s, a)
  BY <1>4, <1>7, <1>8
<1>10. Tail(From(s, a)) = From(s, a + 1)
  BY <1>1, <1>2, HeadTailOfSubSeq DEF From
<1> QED BY <1>1, <1>3, <1>5, <1>9, <1>10

\* What the parser makes of a text, by its delimiters: the host, the port and the target
\* (url::url, url_grammar).
LEMMA DelimitedParse ==
  ASSUME NEW u, u.scheme # "other", NEW s, s = u.text, NEW a, NEW c, Delimited(s, a, c)
  PROVE  Parse(u) =
           IF c = 0 THEN Url("parsed", SubSeq(s, 1, a), <<>>, From(s, a + 1))
           ELSE Url("parsed", SubSeq(s, 1, c - 1), <<s[a].n>>, From(s, a + 1))
<1>1. /\ s \in Seq(Character) /\ Len(s) \in Nat
      /\ \A i \in 1 .. Len(s) : s[i].c \in Ascii \ Space
      /\ a \in 1 .. Len(s)
      /\ a < Len(s) => s[a + 1].c \in {"/", "?"}
      /\ c \in 0 .. a /\ c # 1
      /\ c # 0 => a = c + 1
      /\ c # 0 => s[a].c = "num" /\ s[a].n \in Shorts /\ s[a].n \in Nat
  BY DEF Delimited
<1>2. PICK h : h = IF c = 0 THEN a ELSE c - 1
  OBVIOUS
<1>3. h \in 0 .. Len(s) /\ h = HostLength(s)
  BY <1>1, <1>2, DelimitedHost
<1>4. PICK rest : rest = From(s, h + 1)
  OBVIOUS
<1>5. PICK d : d = From(rest, 2 + Span(Tail(rest), Space))
  OBVIOUS
<1>6. PICK port : port = Short(d)
  OBVIOUS
<1>7. Parse(u) =
        IF rest = <<>> \/ rest[1].c # ":"
        THEN Url("parsed", Squeeze(SubSeq(s, 1, h)), <<>>, Path(rest))
        ELSE IF port.ok
        THEN Url("parsed", Squeeze(SubSeq(s, 1, h)), <<port.value % Width>>, Path(port.rest))
        ELSE Throws
  BY <1>3, <1>4, <1>5, <1>6, ParseIs, DelimitedStarts
<1>8. Path(From(s, a + 1)) = From(s, a + 1)
  <2>1. PICK r : r = From(s, a + 1)
    OBVIOUS
  <2>2. /\ r \in Seq(Character) /\ Len(r) = Len(s) - a
        /\ \A i \in 1 .. Len(s) - a : r[i] = s[a + i]
    <3>1. PICK m \in 0 .. Len(s) : m = a
      BY <1>1
    <3>2. /\ From(s, m + 1) \in Seq(Character) /\ Len(From(s, m + 1)) = Len(s) - m
          /\ \A i \in 1 .. Len(s) - m : From(s, m + 1)[i] = s[m + i]
      <4>1. s \in Seq(Character)
        BY <1>1
      <4> QED BY <4>1, Rest
    <3> QED BY <2>1, <3>1, <3>2
  <2>3. \A i \in 1 .. Len(s) - a : a + i \in 1 .. Len(s)
    BY <1>1
  <2>4. \A i \in 1 .. Len(r) : r[i].c \in Ascii \ Space
    BY <1>1, <2>2, <2>3
  <2>5. Path(r) = r
    BY <2>2, <2>4, WholePath
  <2> QED BY <2>1, <2>5
<1>9. Squeeze(SubSeq(s, 1, h)) = SubSeq(s, 1, h)
  <2>1. PICK q : q = SubSeq(s, 1, h)
    OBVIOUS
  <2>2. /\ q \in Seq(Character) /\ Len(q) = h
        /\ \A i \in 1 .. h : q[i] = s[i]
    BY <1>1, <1>3, <2>1, Beginning
  <2>3. \A i \in 1 .. h : i \in 1 .. Len(s)
    BY <1>1, <1>3
  <2>4. \A i \in 1 .. Len(q) : q[i].c \notin Space
    BY <1>1, <2>2, <2>3
  <2> QED BY <2>1, <2>2, <2>4, SqueezeNone
<1>10. CASE c = 0
  <2>1. h = a
    BY <1>2, <1>10
  <2>2. rest = <<>> \/ rest[1].c # ":"
    <3>1. PICK m \in 0 .. Len(s) : m = a
      BY <1>1
    <3>2. rest = <<>> <=> m = Len(s)
      BY <1>1, <1>4, <2>1, <3>1, Rest
    <3>3. m # Len(s) => rest[1] = s[m + 1]
      <4>1. m # Len(s) => 1 \in 1 .. Len(s) - m
        BY <1>1
      <4> QED BY <1>1, <1>4, <2>1, <3>1, <4>1, Rest
    <3>4. m # Len(s) => m < Len(s)
      BY <1>1
    <3> QED BY <1>1, <3>1, <3>2, <3>3, <3>4
  <2> QED BY <1>4, <1>7, <1>8, <1>9, <1>10, <2>1, <2>2
<1>11. CASE c # 0
  <2>1. h = c - 1 /\ h + 1 = c
    BY <1>1, <1>2, <1>11
  <2>2. /\ rest # <<>> /\ rest[1].c = ":"
        /\ d # <<>> /\ d[1] = s[a] /\ Tail(d) = From(s, a + 1)
    BY <1>4, <1>5, <1>11, <2>1, AfterColon
  <2>3. port.ok /\ port.value = s[a].n /\ port.rest = From(s, a + 1)
    BY <1>1, <1>6, <1>11, <2>2, ShortIs
  <2>4. s[a].n % Width = s[a].n
    BY <1>1, <1>11, SmallShort
  <2> QED BY <1>7, <1>8, <1>9, <1>11, <2>1, <2>2, <2>3, <2>4
<1> QED BY <1>10, <1>11

\* The request goes where a well-formed URL says: what the parser makes of the text agrees
\* with its delimiters, and Port and Targets with the parser.
LEMMA RequestFollows == UrlInv => RequestFollowsUrl
<1> DEFINE s == url.text
           a == AuthorityEnd(s)
           auth == SubSeq(s, 1, a)
           path == From(s, a + 1)
           c == Colon(auth)
<1>1. SUFFICES ASSUME UrlInv, pc = "sent", Wellformed(url)
               PROVE  /\ request.host = IF c = 0 THEN auth ELSE SubSeq(auth, 1, c - 1)
                      /\ request.port = IF c # 0 THEN Last(auth).n
                                        ELSE IF url.scheme = "https" THEN 443 ELSE 80
                      /\ request.target \in {Garbage, IF path = <<>> THEN <<Char("/")>> ELSE path}
  BY DEF RequestFollowsUrl
<1>2. /\ url.scheme \in {"http", "https"} /\ Delimited(s, a, c)
      /\ Last(auth) = s[a]
  <2>1. IsUrl(url)
    BY <1>1 DEF UrlInv
  <2>3. Wellformed(url)
    BY <1>1
  <2>4. url.scheme \in {"http", "https"}
    BY <2>1, <2>3, WellformedIs
  <2>5. Delimited(s, a, c)
    BY <2>1, <2>3, WellformedIs
  <2>6. Last(auth) = s[a]
    <3> HIDE DEF s, a, c
    <3>1. s \in Seq(Character) /\ Len(s) \in Nat /\ a \in 1 .. Len(s)
      BY <2>5 DEF Delimited
    <3>2. a \in 0 .. Len(s) /\ a \in 1 .. a
      BY <3>1
    <3>3. Len(auth) = a /\ auth[a] = s[a]
      BY <3>1, <3>2, Beginning
    <3> QED BY <3>3 DEF Last
  <2> QED BY <2>4, <2>5, <2>6
<1>3. /\ request.host = Parse(url).host /\ request.port = Port(url)
      /\ request.target \in Targets(url)
  BY <1>1 DEF UrlInv
<1> HIDE DEF c, auth
<1>4. Parse(url) = IF c = 0 THEN Url("parsed", auth, <<>>, path)
                   ELSE Url("parsed", SubSeq(s, 1, c - 1), <<Last(auth).n>>, path)
  <2>1. url.scheme # "other"
    BY <1>2
  <2>2. Parse(url) = IF c = 0 THEN Url("parsed", SubSeq(s, 1, a), <<>>, path)
                     ELSE Url("parsed", SubSeq(s, 1, c - 1), <<s[a].n>>, path)
    BY <1>2, <2>1, DelimitedParse
  <2> QED BY <1>2, <2>2 DEF auth
<1>5. c # 0 => SubSeq(s, 1, c - 1) = SubSeq(auth, 1, c - 1)
  <2>1. s \in Seq(Character) /\ Len(s) \in Nat /\ a \in 1 .. Len(s) /\ c \in 0 .. a /\ c # 1
    BY <1>2 DEF Delimited
  <2> HIDE DEF s, a
  <2>2. SUFFICES ASSUME c # 0 PROVE SubSeq(s, 1, c - 1) = SubSeq(SubSeq(s, 1, a), 1, c - 1)
    BY DEF auth
  <2>3. /\ 1 \in 1 .. Len(s) /\ 1 \in 1 .. a - 1 + 1 /\ c - 1 \in 1 .. a - 1 + 1
        /\ 1 + 1 - 1 = 1 /\ 1 + (c - 1) - 1 = c - 1
    BY <2>1, <2>2
  <2>4. SubSeq(SubSeq(s, 1, a), 1, c - 1) = SubSeq(s, 1 + 1 - 1, 1 + (c - 1) - 1)
    BY <2>1, <2>3, SubSeqOfSubSeq
  <2> QED BY <2>3, <2>4
<1> HIDE DEF path, a
<1>6. request.host = IF c = 0 THEN auth ELSE SubSeq(auth, 1, c - 1)
  <2>1. Parse(url).host = IF c = 0 THEN auth ELSE SubSeq(s, 1, c - 1)
    BY <1>4 DEF Url
  <2> HIDE DEF s
  <2> QED BY <1>3, <1>5, <2>1
<1>7. request.port = IF c # 0 THEN Last(auth).n ELSE IF url.scheme = "https" THEN 443 ELSE 80
  <2>1. Parse(url).port = IF c = 0 THEN <<>> ELSE <<Last(auth).n>>
    BY <1>4 DEF Url
  <2>2. c = 0 => Port(url) = IF url.scheme = "https" THEN 443 ELSE 80
    BY <1>2, <2>1 DEF Port
  <2>3. c # 0 => Port(url) = Last(auth).n
    BY <2>1 DEF Port
  <2> QED BY <1>3, <2>2, <2>3
<1>8. request.target \in {Garbage, IF path = <<>> THEN <<Char("/")>> ELSE path}
  <2>1. Parse(url).target = path
    BY <1>4 DEF Url
  <2> QED BY <1>3, <2>1 DEF Targets, TargetPath
<1> QED BY <1>6, <1>7, <1>8

\* What follows the first m characters is a suffix.
LEMMA EndIsSuffix ==
  ASSUME NEW S, NEW s \in Seq(S), NEW m \in 0 .. Len(s)
  PROVE  IsSuffix(From(s, m + 1), s)
<1>1. PICK r : r = From(s, m + 1)
  OBVIOUS
<1>2. /\ Len(s) \in Nat /\ r \in Seq(S) /\ Len(r) = Len(s) - m
      /\ \A i \in 1 .. Len(s) - m : r[i] = s[m + i]
  BY <1>1, Rest, LenProperties
<1> DEFINE q == Reverse(r)
           t == Reverse(s)
<1>3. ASSUME NEW x \in Seq(S)
      PROVE  /\ Reverse(x) \in Seq(S) /\ Len(Reverse(x)) = Len(x)
             /\ \A i \in 1 .. Len(x) : Reverse(x)[i] = x[(Len(x) - i) + 1]
  <2>1. Len(x) \in Nat /\ \A i \in 1 .. Len(x) : x[i] \in S
    BY LenProperties
  <2>2. \A i \in 1 .. Len(x) : (Len(x) - i) + 1 \in 1 .. Len(x)
    BY <2>1
  <2>3. Reverse(x) \in [1 .. Len(x) -> S]
    BY <2>1, <2>2 DEF Reverse
  <2>4. Reverse(x) \in Seq(S)
    BY <2>1, <2>3, SeqDef
  <2>5. Len(Reverse(x)) = Len(x)
    BY <2>1, <2>3, <2>4, LenProperties
  <2>6. \A i \in 1 .. Len(x) : Reverse(x)[i] = x[(Len(x) - i) + 1]
    BY DEF Reverse
  <2> QED BY <2>4, <2>5, <2>6
<1>4. /\ q \in Seq(S) /\ Len(q) = Len(r) /\ t \in Seq(S) /\ Len(t) = Len(s)
      /\ \A i \in 1 .. Len(r) : q[i] = r[(Len(r) - i) + 1]
      /\ \A i \in 1 .. Len(s) : t[i] = s[(Len(s) - i) + 1]
  BY <1>2, <1>3
<1> HIDE DEF q, t
<1>5. ASSUME NEW i \in 1 .. Len(q)
      PROVE  q[i] = t[i]
  <2>1. /\ (Len(r) - i) + 1 \in 1 .. Len(s) - m /\ i \in 1 .. Len(s) /\ i \in 1 .. Len(r)
        /\ m + ((Len(r) - i) + 1) = (Len(s) - i) + 1
    BY <1>2, <1>4
  <2> QED BY <1>2, <1>4, <2>1
<1>6. Len(q) \in 0 .. Len(t) /\ Len(q) <= Len(t)
  BY <1>2, <1>4
<1>7. SubSeq(q, 1, Len(q)) = q
  BY <1>4, SubSeqFull
<1>8. SubSeq(t, 1, Len(q)) = q
  <2>1. PICK v : v = SubSeq(t, 1, Len(q))
    OBVIOUS
  <2>2. v \in Seq(S) /\ Len(v) = Len(q) /\ \A i \in 1 .. Len(q) : v[i] = t[i]
    BY <1>4, <1>6, <2>1, Beginning
  <2> QED BY <1>4, <1>5, <2>1, <2>2, SeqEqual
<1>9. IsSuffix(r, s)
  BY <1>6, <1>7, <1>8 DEF IsSuffix, IsPrefix, q, t
<1> QED BY <1>1, <1>9

\* The name of the file follows the last slash of the path, which is where the URL ends.
LEMMA NameEnds == UrlInv => NameEndsUrl
<1>1. SUFFICES ASSUME UrlInv, pc \in {"sent", "answered", "writing"}, Wellformed(url),
                      fname # Garbage
               PROVE  /\ \A i \in 1 .. Len(fname) : fname[i].c # "/"
                      /\ IsSuffix(<<Char("/")>> \o fname, url.text)
  BY DEF NameEndsUrl
<1>2. IsUrl(url) /\ fname = LastSegment(TargetPath(url)) /\ fname # <<>>
  BY <1>1 DEF UrlInv, ResourceNames
<1>3. PICK s : s = url.text
  OBVIOUS
<1>4. PICK a : a = AuthorityEnd(s)
  OBVIOUS
<1>5. PICK c : url.scheme # "other" /\ Delimited(s, a, c)
  <2>1. url.scheme # "other" /\ Delimited(s, a, Colon(SubSeq(s, 1, a)))
    BY <1>1, <1>2, <1>3, <1>4, WellformedIs
  <2> QED BY <2>1
<1>6. PICK path : path = From(s, a + 1)
  OBVIOUS
<1>7. /\ s \in Seq(Character) /\ Len(s) \in Nat /\ a \in 0 .. Len(s)
      /\ path \in Seq(Character) /\ Len(path) = Len(s) - a
      /\ \A i \in 1 .. Len(s) - a : path[i] = s[a + i]
  <2>1. s \in Seq(Character) /\ Len(s) \in Nat /\ a \in 0 .. Len(s)
    BY <1>5 DEF Delimited
  <2> QED BY <1>6, <2>1, Rest
<1>8. Parse(url).target = path
  <2>1. \/ Parse(url) = Url("parsed", SubSeq(s, 1, a), <<>>, path)
        \/ Parse(url) = Url("parsed", SubSeq(s, 1, c - 1), <<s[a].n>>, path)
    BY <1>3, <1>5, <1>6, DelimitedParse
  <2> QED BY <2>1 DEF Url
<1>9. path # <<>> /\ fname = LastSegment(path)
  <2>1. CASE path = <<>>
    <3>1. PICK slash : slash = Char("/")
      OBVIOUS
    <3>2. fname = LastSegment(<<slash>>)
      BY <1>2, <1>8, <2>1, <3>1 DEF TargetPath
    <3>3. <<slash>> \in Seq({slash}) /\ Len(<<slash>>) = 1
      OBVIOUS
    <3>4. PICK k \in 1 .. 1 : fname = From(<<slash>>, k + 1)
      BY <1>2, <3>2, <3>3, LastSlash
    <3>5. k = 1 /\ 1 \in 0 .. 1
      OBVIOUS
    <3>6. From(<<slash>>, 1 + 1) = <<>>
      BY <3>3, <3>5, Rest
    <3> QED BY <1>2, <3>4, <3>5, <3>6
  <2> QED BY <1>2, <1>8, <2>1 DEF TargetPath
<1>10. PICK k \in 1 .. Len(path) :
         /\ path[k].c = "/" /\ \A i \in k + 1 .. Len(path) : path[i].c # "/"
         /\ fname = From(path, k + 1)
  BY <1>2, <1>7, <1>9, LastSlash
<1>11. /\ k \in 0 .. Len(path) /\ k \in Int /\ a \in Int
       /\ fname \in Seq(Character) /\ Len(fname) = Len(path) - k
       /\ \A i \in 1 .. Len(path) - k : fname[i] = path[k + i]
  <2>1. k \in 0 .. Len(path) /\ k \in Int /\ a \in Int
    BY <1>7
  <2>2. /\ From(path, k + 1) \in Seq(Character) /\ Len(From(path, k + 1)) = Len(path) - k
        /\ \A i \in 1 .. Len(path) - k : From(path, k + 1)[i] = path[k + i]
    <3>1. path \in Seq(Character)
      BY <1>7
    <3> QED BY <2>1, <3>1, Rest
  <2>3. fname = From(path, k + 1)
    BY <1>10
  <2> QED BY <2>1, <2>2, <2>3
<1>12. \A i \in 1 .. Len(fname) : fname[i].c # "/"
  <2>1. \A i \in 1 .. Len(path) - k : k + i \in k + 1 .. Len(path)
    BY <1>7, <1>11
  <2> QED BY <1>10, <1>11, <2>1
<1>13. PICK m : m = a + k
  OBVIOUS
<1>14. m \in 1 .. Len(s) /\ s[m] = path[k] /\ k \in 1 .. Len(s) - a
  BY <1>7, <1>10, <1>11, <1>13
<1>15. s[m] = Char("/")
  <2>1. s[m] = IF s[m].c = "num" THEN Num(s[m].n) ELSE Char(s[m].c)
    BY <1>2, <1>3, <1>14, Characters
  <2>2. s[m].c = "/"
    BY <1>10, <1>14
  <2> QED BY <2>1, <2>2
<1>16. fname = From(s, m + 1)
  <2>1. m \in 0 .. Len(s)
    BY <1>14
  <2>2. PICK t : t = From(s, m + 1)
    OBVIOUS
  <2>3. /\ t \in Seq(Character) /\ Len(t) = Len(s) - m
        /\ \A i \in 1 .. Len(s) - m : t[i] = s[m + i]
    BY <1>7, <2>1, <2>2, Rest
  <2>4. Len(fname) = Len(t)
    BY <1>7, <1>11, <1>13, <2>3
  <2>5. ASSUME NEW i \in 1 .. Len(fname) PROVE fname[i] = t[i]
    <3>1. /\ i \in 1 .. Len(path) - k /\ k + i \in 1 .. Len(s) - a /\ i \in 1 .. Len(s) - m
          /\ a + (k + i) = m + i
      BY <1>7, <1>11, <1>13, <1>14
    <3> QED BY <1>7, <1>11, <2>3, <3>1
  <2> QED BY <1>11, <2>2, <2>3, <2>4, <2>5, SeqEqual
<1>17. <<s[m]>> \o fname = From(s, m)
  <2>1. m \in 1 .. Len(s) /\ Len(s) \in m .. Len(s)
    BY <1>7, <1>14
  <2> QED BY <1>7, <1>16, <2>1, SubSeqRecursiveFirst DEF From
<1>18. IsSuffix(From(s, m), s)
  <2>1. PICK j \in 0 .. Len(s) : j + 1 = m
    <3>1. m - 1 \in 0 .. Len(s) /\ (m - 1) + 1 = m
      BY <1>7, <1>14
    <3> QED BY <3>1
  <2> QED BY <1>7, <2>1, EndIsSuffix
<1> QED BY <1>3, <1>12, <1>15, <1>17, <1>18

-----------------------------------------------------------------------------
(* What the parser keeps of any URL *)

\* The rest of the rest.
LEMMA RestOfRest ==
  ASSUME NEW S, NEW s \in Seq(S), NEW m \in 0 .. Len(s), NEW k \in 0 .. Len(s) - m,
         NEW q, q = m + k
  PROVE  From(From(s, m + 1), k + 1) = From(s, q + 1)
<1>1. PICK r : r = From(s, m + 1)
  OBVIOUS
<1>2. /\ Len(s) \in Nat /\ r \in Seq(S) /\ Len(r) = Len(s) - m
      /\ \A i \in 1 .. Len(s) - m : r[i] = s[m + i]
  BY <1>1, Rest, LenProperties
<1>3. q \in 0 .. Len(s) /\ k \in 0 .. Len(r)
  BY <1>2
<1>4. PICK x : x = From(r, k + 1)
  OBVIOUS
<1>5. PICK y : y = From(s, q + 1)
  OBVIOUS
<1>6. /\ x \in Seq(S) /\ Len(x) = Len(r) - k
      /\ \A i \in 1 .. Len(r) - k : x[i] = r[k + i]
  BY <1>2, <1>3, <1>4, Rest
<1>7. /\ y \in Seq(S) /\ Len(y) = Len(s) - q
      /\ \A i \in 1 .. Len(s) - q : y[i] = s[q + i]
  BY <1>3, <1>5, Rest
<1>8. Len(x) = Len(y)
  BY <1>2, <1>3, <1>6, <1>7
<1>9. ASSUME NEW i \in 1 .. Len(x) PROVE x[i] = y[i]
  <2>1. /\ i \in 1 .. Len(r) - k /\ k + i \in 1 .. Len(s) - m /\ i \in 1 .. Len(s) - q
        /\ m + (k + i) = q + i
    BY <1>2, <1>3, <1>6
  <2> QED BY <1>2, <1>6, <1>7, <2>1
<1>10. x = y
  BY <1>6, <1>7, <1>8, <1>9, SeqEqual
<1> QED BY <1>1, <1>4, <1>5, <1>10

\* What is kept of s after its first m characters, up to the k-th: all but white space.
Kept(s, m, k) == Squeeze(SubSeq(s, m + 1, k))

\* What is kept of a stretch is what is kept of its two parts.
LEMMA KeptSplits ==
  ASSUME NEW S, NEW s \in Seq(S), NEW m \in 0 .. Len(s), NEW j \in m .. Len(s), NEW k \in j .. Len(s)
  PROVE  /\ Kept(s, m, j) \in Seq(S)
         /\ Kept(s, m, k) = Kept(s, m, j) \o Kept(s, j, k)
<1>1. /\ Len(s) \in Nat /\ m + 1 \in 1 .. Len(s) + 1 /\ j \in (m + 1) - 1 .. Len(s)
      /\ j + 1 \in 1 .. Len(s) + 1 /\ k \in (j + 1) - 1 .. Len(s)
  BY LenProperties
<1>2. SubSeq(s, m + 1, j) \in Seq(S) /\ SubSeq(s, j + 1, k) \in Seq(S)
  BY <1>1, Part
<1>3. SubSeq(s, m + 1, j) \o SubSeq(s, j + 1, k) = SubSeq(s, m + 1, k)
  BY <1>1, ConcatAdjacentSubSeq
<1>4. Squeeze(SubSeq(s, m + 1, j)) \in Seq(S)
  BY <1>2, SqueezeType
<1> QED BY <1>2, <1>3, <1>4, SqueezeConcat DEF Kept

\* Nothing is kept of white space.
LEMMA KeptSpaces ==
  ASSUME NEW S, NEW s \in Seq(S), NEW m \in 0 .. Len(s), NEW k \in m .. Len(s),
         \A i \in m + 1 .. k : s[i].c \in Space
  PROVE  Kept(s, m, k) = <<>>
<1>1. Len(s) \in Nat /\ m + 1 \in 1 .. Len(s) + 1 /\ k \in (m + 1) - 1 .. Len(s)
  BY LenProperties
<1>2. PICK x : x = SubSeq(s, m + 1, k)
  OBVIOUS
<1>3. /\ x \in Seq(S) /\ Len(x) = k - (m + 1) + 1
      /\ \A i \in 1 .. k - (m + 1) + 1 : x[i] = s[(m + 1) + i - 1]
  BY <1>1, <1>2, Part
<1>4. \A i \in 1 .. k - (m + 1) + 1 : (m + 1) + i - 1 \in m + 1 .. k
  BY <1>1
<1>5. \A i \in 1 .. Len(x) : x[i].c \in Space
  BY <1>3, <1>4
<1> QED BY <1>2, <1>3, <1>5, SqueezeSpaces DEF Kept

\* A single character that is not white space is kept.
LEMMA KeptOne ==
  ASSUME NEW S, NEW s \in Seq(S), NEW m \in 0 .. Len(s), NEW k \in 1 .. Len(s), k = m + 1,
         s[k].c \notin Space
  PROVE  Kept(s, m, k) = <<s[k]>>
<1>1. Len(s) \in Nat /\ s[k] \in S
  BY LenProperties
<1>2. k \in 1 .. Len(s) + 1 /\ k \in k - 1 .. Len(s) /\ k - k + 1 = 1 /\ k + 1 - 1 = k
      /\ 1 \in 1 .. 1
  BY <1>1
<1>3. PICK x : x = SubSeq(s, k, k)
  OBVIOUS
<1>4. x \in Seq(S) /\ Len(x) = 1 /\ x[1] = s[k]
  <2>1. /\ SubSeq(s, k, k) \in Seq(S) /\ Len(SubSeq(s, k, k)) = k - k + 1
        /\ \A i \in 1 .. k - k + 1 : SubSeq(s, k, k)[i] = s[k + i - 1]
    BY <1>2, Part
  <2> QED BY <1>2, <1>3, <2>1
<1>5. x = <<s[k]>>
  <2>1. <<s[k]>> \in Seq(S) /\ Len(<<s[k]>>) = 1 /\ <<s[k]>>[1] = s[k]
    BY <1>1
  <2> QED BY <1>4, <2>1, SeqEqual
<1>6. Squeeze(x) = x
  <2>1. \A i \in 1 .. Len(x) : x[i].c \notin Space
    BY <1>4
  <2> QED BY <1>4, <2>1, SqueezeNone
<1> QED BY <1>3, <1>5, <1>6 DEF Kept

\* All of a text is a stretch of it.
LEMMA KeptAll ==
  ASSUME NEW S, NEW s \in Seq(S)
  PROVE  Kept(s, 0, Len(s)) = Squeeze(s)
<1>1. 0 + 1 = 1 /\ SubSeq(s, 1, Len(s)) = s
  BY SubSeqFull
<1> QED BY <1>1 DEF Kept

\* The target is what is kept from where it begins up to the first character that is not
\* ASCII (target_path).
LEMMA PathIsKept ==
  ASSUME NEW S, NEW s \in Seq(S), NEW m \in 0 .. Span(s, Ascii)
  PROVE  Path(From(s, m + 1)) = Kept(s, m, Span(s, Ascii))
<1>1. PICK p : p = Span(s, Ascii)
  OBVIOUS
<1>2. Len(s) \in Nat /\ p \in 0 .. Len(s) /\ m \in 0 .. p
  BY <1>1, SpanIs, LenProperties
<1>3. PICK r : r = From(s, m + 1)
  OBVIOUS
<1>4. /\ r \in Seq(S) /\ Len(r) = Len(s) - m
      /\ \A i \in 1 .. Len(s) - m : r[i] = s[m + i]
  <2>1. m \in 0 .. Len(s)
    BY <1>2
  <2> QED BY <1>3, <2>1, Rest
<1>5. Span(r, Ascii) = p - m
  BY <1>1, <1>3, SpanOfRest
<1>6. PICK x : x = SubSeq(r, 1, p - m)
  OBVIOUS
<1>7. PICK y : y = SubSeq(s, m + 1, p)
  OBVIOUS
<1>8. p - m \in 0 .. Len(r) /\ m + 1 \in 1 .. Len(s) + 1 /\ p \in (m + 1) - 1 .. Len(s)
      /\ p - (m + 1) + 1 = p - m
  BY <1>2, <1>4
<1>9. /\ x \in Seq(S) /\ Len(x) = p - m /\ \A i \in 1 .. p - m : x[i] = r[i]
  BY <1>4, <1>6, <1>8, Beginning
<1>10. /\ y \in Seq(S) /\ Len(y) = p - (m + 1) + 1
       /\ \A i \in 1 .. p - (m + 1) + 1 : y[i] = s[(m + 1) + i - 1]
  BY <1>7, <1>8, Part
<1>11. ASSUME NEW i \in 1 .. Len(x) PROVE x[i] = y[i]
  <2>1. i \in 1 .. p - m /\ i \in 1 .. Len(s) - m /\ (m + 1) + i - 1 = m + i
    BY <1>2, <1>9
  <2> QED BY <1>4, <1>8, <1>9, <1>10, <2>1
<1>12. x = y
  BY <1>8, <1>9, <1>10, <1>11, SeqEqual
<1> QED BY <1>1, <1>3, <1>5, <1>6, <1>7, <1>12 DEF Path, Kept

\* The first character kept is the first one that is not white space.
LEMMA FirstIsKept ==
  ASSUME NEW S, NEW s \in Seq(S), Squeeze(s) # <<>>
  PROVE  Span(s, Space) < Len(s) /\ Squeeze(s)[1] = s[Span(s, Space) + 1]
<1>1. PICK j : j = Span(s, Space)
  OBVIOUS
<1>2. /\ Len(s) \in Nat /\ j \in 0 .. Len(s) /\ \A i \in 1 .. j : s[i].c \in Space
      /\ j < Len(s) => s[j + 1].c \notin Space
  BY <1>1, SpanIs, LenProperties
<1>3. j < Len(s)
  <2>1. j = Len(s) => \A i \in 1 .. Len(s) : s[i].c \in Space
    BY <1>2
  <2>2. j # Len(s)
    BY <2>1, SqueezeSpaces
  <2> QED BY <1>2, <2>2
<1>4. PICK k : k = j + 1
  OBVIOUS
<1>5. /\ 0 \in 0 .. Len(s) /\ j \in 0 .. Len(s) /\ Len(s) \in j .. Len(s) /\ k \in j .. Len(s)
      /\ Len(s) \in k .. Len(s) /\ k \in 1 .. Len(s) /\ k \in 0 .. Len(s)
      /\ Len(s) \in Len(s) .. Len(s) /\ 0 + 1 = 1
  BY <1>2, <1>3, <1>4
<1>6. Kept(s, 0, j) = <<>>
  BY <1>2, <1>5, KeptSpaces
<1>7. Kept(s, j, k) = <<s[k]>>
  BY <1>2, <1>3, <1>4, <1>5, KeptOne
<1>8. Squeeze(s) = Kept(s, 0, j) \o Kept(s, j, Len(s))
  BY <1>5, KeptSplits, KeptAll
<1>9. Kept(s, j, Len(s)) = Kept(s, j, k) \o Kept(s, k, Len(s))
  BY <1>5, KeptSplits
<1>10. PICK t \in Seq(S) : t = Kept(s, k, Len(s))
  BY <1>5, KeptSplits
<1>11. s[k] \in S
  BY <1>5, ElementOfSeq
<1>12. PICK x \in S : x = s[k]
  BY <1>11
<1>13. <<x>> \in Seq(S) /\ Len(<<x>>) = 1 /\ <<x>>[1] = x
  OBVIOUS
<1>14. PICK y : y = <<x>> \o t
  OBVIOUS
<1>15. y \in Seq(S) /\ y[1] = x
  <2>1. Len(t) \in Nat
    BY LenProperties
  <2>2. 1 \in 1 .. Len(<<x>>) + Len(t) /\ 1 <= Len(<<x>>)
    BY <1>13, <2>1
  <2> QED BY <1>13, <1>14, <2>2, ConcatProperties
<1>16. <<>> \o y = y
  BY <1>15, ConcatEmptySeq
<1>17. Squeeze(s) = y
  BY Zenon, <1>6, <1>7, <1>8, <1>9, <1>10, <1>12, <1>14, <1>16
<1> QED BY <1>1, <1>3, <1>4, <1>12, <1>15, <1>17

\* The host ends before the first character that is not ASCII.
LEMMA HostIsAscii ==
  ASSUME NEW u, IsUrl(u), NEW s, s = u.text, Squeeze(s) # <<>>, Squeeze(s)[1].c \in Ascii
  PROVE  HostLength(s) \in 1 .. Span(s, Ascii) /\ Span(s, Ascii) \in 0 .. Len(s)
<1>1. /\ s \in Seq(Character) /\ Len(s) \in Nat
      /\ \A i \in 1 .. Len(s) : s[i].c \in STRING
  BY Characters
<1>2. PICK j : j = Span(s, Space)
  OBVIOUS
<1>3. /\ j \in 0 .. Len(s) /\ \A i \in 1 .. j : s[i].c \in Space
      /\ j < Len(s) /\ s[j + 1].c \in Ascii
  BY <1>1, <1>2, SpanIs, FirstIsKept
<1>4. PICK h : h = HostLength(s)
  OBVIOUS
<1>5. h \in j + 1 .. Len(s) /\ \A i \in j + 2 .. h : s[i].c \in DomainChar \cup Space
  BY <1>1, <1>2, <1>3, <1>4, HostLengthIs
<1>6. PICK p : p = Span(s, Ascii)
  OBVIOUS
<1>7. p \in 0 .. Len(s) /\ (p < Len(s) => s[p + 1].c \notin Ascii)
  BY <1>1, <1>6, SpanIs
<1>8. ASSUME NEW i \in 1 .. h PROVE s[i].c \in Ascii
  <2>1. i \in 1 .. Len(s) /\ (i \in 1 .. j \/ i = j + 1 \/ i \in j + 2 .. h)
    BY <1>1, <1>3, <1>5
  <2>2. s[i].c \in DomainChar \cup Space => s[i].c # "nonascii"
    BY DEF DomainChar, Alnum, Space
  <2>3. i = j + 1 \/ s[i].c \in DomainChar \cup Space
    BY <1>3, <1>5, <2>1
  <2> QED BY <1>1, <1>3, <2>1, <2>2, <2>3 DEF Ascii
<1>9. ~(p < h)
  <2>1. p < h => p + 1 \in 1 .. h /\ p < Len(s)
    BY <1>1, <1>3, <1>5, <1>7
  <2> QED BY <1>7, <1>8, <2>1
<1>10. h \in 1 .. p
  BY <1>1, <1>3, <1>5, <1>7, <1>9
<1> QED BY <1>4, <1>6, <1>7, <1>10

\* What short_ reads when there is no sign.
LEMMA UnsignedShort ==
  ASSUME NEW d, d # <<>> => d[1].c \notin {"+", "-"}, Short(d).ok
  PROVE  /\ d # <<>> /\ d[1].c = "num" /\ d[1].n \in Shorts
         /\ Short(d).value = d[1].n /\ Short(d).rest = Tail(d)
<1>1. CASE d = <<>>
  BY <1>1 DEF Short
<1>2. CASE d # <<>>
  <2>1. ~(d # <<>> /\ d[1].c \in {"+", "-"})
    BY <1>2
  <2>2. Short(d) = IF d # <<>> /\ d[1].c = "num" /\ d[1].n \in Shorts
                   THEN [ok |-> TRUE, value |-> d[1].n, rest |-> Tail(d)]
                   ELSE [ok |-> FALSE, value |-> 0, rest |-> d]
    BY <2>1 DEF Short
  <2> QED BY <2>2
<1> QED BY <1>1, <1>2

\* Two sequences of one make a sequence of two.
LEMMA TwoOnes ==
  ASSUME NEW S, NEW x \in S, NEW y \in S
  PROVE  <<x>> \o <<y>> = <<x, y>> /\ <<x, y>> \in Seq(S)
<1>1. <<x>> \in Seq(S) /\ <<y>> \in Seq(S) /\ <<x, y>> \in Seq(S) /\ Len(<<x, y>>) = 2
      /\ Len(<<x>>) = 1 /\ Len(<<y>>) = 1
  OBVIOUS
<1>2. PICK z : z = <<x>> \o <<y>>
  OBVIOUS
<1>3. /\ z \in Seq(S) /\ Len(z) = 1 + 1
      /\ \A i \in 1 .. 1 + 1 : z[i] = IF i <= 1 THEN <<x>>[i] ELSE <<y>>[i - 1]
  BY <1>1, <1>2, ConcatProperties
<1>4. z[1] = x /\ z[2] = y /\ Len(z) = 2
  BY <1>3
<1>5. \A i \in 1 .. Len(z) : z[i] = <<x, y>>[i]
  <2>1. \A i \in 1 .. Len(z) : i = 1 \/ i = 2
    BY <1>4
  <2>2. <<x, y>>[1] = x /\ <<x, y>>[2] = y
    OBVIOUS
  <2> QED BY <1>4, <2>1, <2>2
<1>6. z = <<x, y>>
  BY <1>1, <1>3, <1>4, <1>5, SeqEqual
<1> QED BY <1>1, <1>2, <1>6

\* The port that is read from what follows the host, after its colon and white space.
PortAfter(rest) == Short(From(rest, 2 + Span(Tail(rest), Space)))

\* A URL without signs is read up to its h-th character, and what follows is a port.
ReadsPort(u, s, h, rest, port) ==
  /\ IsUrl(u) /\ s = u.text /\ \A i \in 1 .. Len(s) : s[i].c \notin {"+", "-"}
  /\ h \in 1 .. Span(s, Ascii) /\ rest = From(s, h + 1)
  /\ rest # <<>> /\ rest[1].c = ":" /\ port = PortAfter(rest) /\ port.ok

\* The colon, the number after it and the target are all that is kept after the host: a
\* port only skips white space.
LEMMA PortIsText ==
  ASSUME NEW u, NEW s, NEW h, NEW rest, NEW port, ReadsPort(u, s, h, rest, port)
  PROVE  /\ Kept(s, h, Span(s, Ascii)) =
              <<Char(":"), Num(port.value % Width)>> \o Path(port.rest)
         /\ <<Char(":"), Num(port.value % Width)>> \in Seq(Character)
         /\ Path(port.rest) \in Seq(Character)
<1> USE DEF ReadsPort
<1>1. /\ s \in Seq(Character) /\ Len(s) \in Nat
      /\ \A i \in 1 .. Len(s) : s[i].c \in STRING /\ s[i].n \in Nat /\ s[i] \in Character
      /\ \A i \in 1 .. Len(s) : s[i] = IF s[i].c = "num" THEN Num(s[i].n) ELSE Char(s[i].c)
  BY Characters
<1>0. s \in Seq(Character)
  BY <1>1
<1>2. PICK p : p = Span(s, Ascii)
  OBVIOUS
<1>3. /\ p \in 0 .. Len(s) /\ (p < Len(s) => s[p + 1].c \notin Ascii)
      /\ h \in 1 .. p /\ h \in 0 .. Len(s)
  <2>1. p \in 0 .. Len(s) /\ (p < Len(s) => s[p + 1].c \notin Ascii)
    BY <1>0, <1>2, SpanIs
  <2> QED BY <1>1, <1>2, <2>1
<1>4. /\ h < Len(s) /\ h + 1 \in 1 .. Len(s) /\ rest[1] = s[h + 1]
      /\ rest \in Seq(Character) /\ Len(rest) = Len(s) - h
  <2>1. /\ rest \in Seq(Character) /\ Len(rest) = Len(s) - h
        /\ \A i \in 1 .. Len(s) - h : rest[i] = s[h + i]
    <3>1. h \in 0 .. Len(s)
      BY <1>3
    <3>2. /\ From(s, h + 1) \in Seq(Character) /\ Len(From(s, h + 1)) = Len(s) - h
          /\ \A i \in 1 .. Len(s) - h : From(s, h + 1)[i] = s[h + i]
      BY ONLY <1>0, <3>1, Rest
    <3> QED BY <3>2
  <2>2. h # Len(s)
    BY <1>0, <1>3, Rest
  <2>3. 1 \in 1 .. Len(s) - h /\ h < Len(s) /\ h + 1 \in 1 .. Len(s)
    BY <1>1, <1>3, <2>2
  <2> QED BY <2>1, <2>3
<1>5. PICK m : m = h + 1
  OBVIOUS
<1>6. m \in 1 .. Len(s) /\ s[m].c = ":" /\ s[m] = Char(":") /\ m = h + 1 /\ m \in 0 .. Len(s)
  <2>1. m \in 1 .. Len(s) /\ s[m].c = ":" /\ m \in 0 .. Len(s)
    BY <1>1, <1>4, <1>5
  <2>2. s[m] = IF s[m].c = "num" THEN Num(s[m].n) ELSE Char(s[m].c)
    BY <1>1, <2>1
  <2> QED BY <1>5, <2>1, <2>2
<1>7. Tail(rest) = From(s, m + 1)
  <2>1. Tail(rest) = SubSeq(rest, 2, Len(rest))
    <3>1. PICK t \in Seq(Character) : t = rest
      BY <1>4
    <3>2. Tail(t) = SubSeq(t, 2, Len(t))
      BY <3>1, TailIsSubSeq
    <3> QED BY <3>1, <3>2
  <2>2. Tail(rest) = From(rest, 1 + 1)
    BY <2>1 DEF From
  <2>3. 1 \in 0 .. Len(s) - h
    BY <1>1, <1>3, <1>4
  <2>4. From(From(s, h + 1), 1 + 1) = From(s, m + 1)
    <3>1. h \in 0 .. Len(s)
      BY <1>3
    <3> QED BY ONLY <1>0, <1>5, <2>3, <3>1, RestOfRest
  <2> QED BY <2>2, <2>4
<1>8. PICK k : k = Span(Tail(rest), Space)
  OBVIOUS
<1>9. PICK q : q = m + k
  OBVIOUS
<1>10. /\ k \in 0 .. Len(s) - m /\ q \in m .. Len(s)
       /\ \A i \in m + 1 .. q : s[i].c \in Space
  <2>1. PICK r : r = From(s, m + 1)
    OBVIOUS
  <2>2. /\ r \in Seq(Character) /\ Len(r) = Len(s) - m
        /\ \A i \in 1 .. Len(s) - m : r[i] = s[m + i]
    <3>1. m \in 0 .. Len(s)
      BY <1>6
    <3>2. /\ From(s, m + 1) \in Seq(Character) /\ Len(From(s, m + 1)) = Len(s) - m
          /\ \A i \in 1 .. Len(s) - m : From(s, m + 1)[i] = s[m + i]
      BY ONLY <1>0, <3>1, Rest
    <3> QED BY <2>1, <3>2
  <2>3. k = Span(r, Space)
    BY <1>7, <1>8, <2>1
  <2>4. k \in 0 .. Len(r) /\ \A i \in 1 .. k : r[i].c \in Space
    BY <2>2, <2>3, SpanIs
  <2>5. ASSUME NEW i \in m + 1 .. q PROVE s[i].c \in Space
    <3>1. i - m \in 1 .. k /\ i - m \in 1 .. Len(s) - m /\ m + (i - m) = i
      BY <1>1, <1>6, <1>9, <2>2, <2>4
    <3> QED BY <2>2, <2>4, <3>1
  <2>6. k \in 0 .. Len(s) - m /\ q \in m .. Len(s)
    BY <1>1, <1>6, <1>9, <2>2, <2>4
  <2> QED BY <2>5, <2>6
<1>11. PICK d : d = From(rest, 2 + k)
  OBVIOUS
<1>12. d = From(s, q + 1)
  <2>1. PICK l : l = k + 1
    OBVIOUS
  <2>2. l \in 0 .. Len(s) - h /\ q = h + l /\ 2 + k = l + 1
    BY <1>1, <1>3, <1>6, <1>9, <1>10, <2>1
  <2>3. From(From(s, h + 1), l + 1) = From(s, q + 1)
    <3>1. h \in 0 .. Len(s)
      BY <1>3
    <3> QED BY ONLY <1>0, <2>2, <3>1, RestOfRest
  <2> QED BY <1>11, <2>2, <2>3
<1>13. q \in 0 .. Len(s) /\ d \in Seq(Character)
       /\ (d # <<>> => q < Len(s) /\ d[1] = s[q + 1] /\ q + 1 \in 1 .. Len(s))
  <2>1. q \in 0 .. Len(s)
    BY <1>1, <1>6, <1>10
  <2>2. /\ d \in Seq(Character)
        /\ \A i \in 1 .. Len(s) - q : d[i] = s[q + i]
    <3>1. /\ From(s, q + 1) \in Seq(Character)
          /\ \A i \in 1 .. Len(s) - q : From(s, q + 1)[i] = s[q + i]
      BY ONLY <1>0, <2>1, Rest
    <3> QED BY <1>12, <3>1
  <2>3. d # <<>> => q # Len(s)
    <3>1. From(s, q + 1) = <<>> <=> q = Len(s)
      BY ONLY <1>0, <2>1, Rest
    <3> QED BY <1>12, <3>1
  <2>4. q # Len(s) => q < Len(s) /\ 1 \in 1 .. Len(s) - q /\ q + 1 \in 1 .. Len(s)
    BY <1>1, <2>1
  <2> QED BY <2>1, <2>2, <2>3, <2>4
<1>14. d # <<>> => d[1].c \notin {"+", "-"}
  BY <1>13
<1>15. /\ d # <<>> /\ d[1].c = "num" /\ d[1].n \in Shorts
       /\ port.value = d[1].n /\ port.rest = Tail(d)
  <2>1. port = Short(d)
    BY <1>8, <1>11 DEF PortAfter
  <2> QED BY <1>14, <2>1, UnsignedShort
<1>16. PICK e : e = q + 1
  OBVIOUS
<1>17. /\ e \in 1 .. Len(s) /\ e \in 0 .. Len(s) /\ e = q + 1 /\ s[e].c = "num" /\ s[e].n \in Shorts
       /\ port.value = s[e].n /\ s[e] = Num(s[e].n) /\ s[e].n \in Nat
  <2>1. e \in 1 .. Len(s) /\ e \in 0 .. Len(s) /\ s[e] = d[1]
    BY <1>1, <1>13, <1>15, <1>16
  <2>2. s[e] = Num(s[e].n) /\ s[e].n \in Nat
    BY <1>1, <1>15, <2>1
  <2> QED BY <1>15, <1>16, <2>1, <2>2
<1>18. port.value % Width = s[e].n
  BY <1>17, SmallShort
<1>19. Tail(d) = From(s, e + 1)
  <2>1. Tail(d) = SubSeq(d, 2, Len(d))
    BY <1>13, <1>15, TailIsSubSeq
  <2>2. Tail(d) = From(d, 1 + 1)
    BY <2>1 DEF From
  <2>3. 1 \in 0 .. Len(s) - q
    BY <1>1, <1>13, <1>15
  <2>4. From(From(s, q + 1), 1 + 1) = From(s, e + 1)
    <3>1. q \in 0 .. Len(s) /\ e = q + 1
      BY <1>13, <1>16
    <3> QED BY ONLY <1>0, <2>3, <3>1, RestOfRest
  <2> QED BY <1>12, <2>2, <2>4
<1>20. e <= p
  <2>1. ASSUME NEW i \in h + 1 .. e PROVE s[i].c \in Ascii
    <3>1. i \in 1 .. Len(s) /\ (i = m \/ i \in m + 1 .. q \/ i = e)
      BY <1>1, <1>3, <1>6, <1>10, <1>17
    <3>2. s[i].c # "nonascii"
      BY <1>6, <1>10, <1>17, <3>1 DEF Space
    <3> QED BY <1>1, <3>1, <3>2 DEF Ascii
  <2>2. ~(p < e)
    <3>1. p < e => p + 1 \in h + 1 .. e /\ p < Len(s)
      BY <1>1, <1>3, <1>17
    <3> QED BY <1>3, <2>1, <3>1
  <2> QED BY <1>1, <1>3, <1>17, <2>2
<1>21. Path(port.rest) = Kept(s, e, p)
  <2>1. e \in 0 .. p
    BY <1>1, <1>3, <1>17, <1>20
  <2> QED BY <1>0, <1>2, <1>15, <1>19, <2>1, PathIsKept
<1>22. /\ m \in h .. Len(s) /\ p \in m .. Len(s) /\ q \in m .. Len(s) /\ p \in q .. Len(s)
       /\ e \in q .. Len(s) /\ p \in e .. Len(s) /\ p \in p .. Len(s)
  BY <1>1, <1>3, <1>6, <1>10, <1>13, <1>17, <1>20
<1>23. Kept(s, h, p) = Kept(s, h, m) \o Kept(s, m, p)
  <2>1. h \in 0 .. Len(s) /\ m \in h .. Len(s) /\ p \in m .. Len(s)
    BY <1>3, <1>22
  <2> QED BY ONLY <1>0, <2>1, KeptSplits
<1>24. Kept(s, m, p) = Kept(s, m, q) \o Kept(s, q, p)
  <2>1. m \in 0 .. Len(s) /\ q \in m .. Len(s) /\ p \in q .. Len(s)
    BY <1>6, <1>22
  <2> QED BY ONLY <1>0, <2>1, KeptSplits
<1>25. Kept(s, q, p) = Kept(s, q, e) \o Kept(s, e, p)
  <2>1. q \in 0 .. Len(s) /\ e \in q .. Len(s) /\ p \in e .. Len(s)
    BY <1>13, <1>22
  <2> QED BY ONLY <1>0, <2>1, KeptSplits
<1>26. Kept(s, h, m) = <<s[m]>>
  <2>1. s[m].c \notin Space
    BY <1>6 DEF Space
  <2>2. h \in 0 .. Len(s) /\ m \in 1 .. Len(s) /\ m = h + 1
    BY <1>3, <1>6
  <2> QED BY ONLY <1>0, <2>1, <2>2, KeptOne
<1>27. Kept(s, m, q) = <<>>
  BY <1>0, <1>6, <1>10, KeptSpaces
<1>28. Kept(s, q, e) = <<s[e]>>
  <2>1. s[e].c \notin Space
    BY <1>17 DEF Space
  <2>2. q \in 0 .. Len(s) /\ e \in 1 .. Len(s) /\ e = q + 1
    BY <1>13, <1>17
  <2> QED BY ONLY <1>0, <2>1, <2>2, KeptOne
<1>29. PICK t \in Seq(Character) : t = Kept(s, e, p)
  BY <1>0, <1>17, <1>22, KeptSplits
<1>30. PICK x \in Character : x = s[m]
  BY <1>1, <1>6
<1>31. PICK y \in Character : y = s[e]
  BY <1>1, <1>17
<1>32. <<x>> \in Seq(Character) /\ <<y>> \in Seq(Character) /\ <<y>> \o t \in Seq(Character)
       /\ <<>> \o (<<y>> \o t) = <<y>> \o t
  <2>1. <<x>> \in Seq(Character) /\ <<y>> \in Seq(Character)
    OBVIOUS
  <2>2. <<y>> \o t \in Seq(Character)
    BY <2>1, ConcatProperties
  <2> QED BY <2>1, <2>2, ConcatEmptySeq
<1>33. <<x>> \o (<<y>> \o t) = (<<x>> \o <<y>>) \o t
  BY <1>32, ConcatAssociative
<1>34. <<x>> \o <<y>> = <<x, y>> /\ <<x, y>> \in Seq(Character)
  BY TwoOnes
<1>35. Kept(s, h, p) = <<x, y>> \o t
  BY Zenon, <1>23, <1>24, <1>25, <1>26, <1>27, <1>28, <1>29, <1>30, <1>31, <1>32, <1>33, <1>34
<1>36. x = Char(":") /\ y = Num(port.value % Width)
  BY <1>6, <1>17, <1>18, <1>30, <1>31
<1> QED BY <1>2, <1>21, <1>29, <1>34, <1>35, <1>36

\* The host, the port and the target are all that is kept of the URL.
LEMMA SplitKeeps == UrlInv => SplitKeepsText
<1> DEFINE T(p) == p.host \o (IF p.port = <<>> THEN <<>> ELSE <<Char(":"), Num(p.port[1])>>) \o p.target
<1>1. SUFFICES ASSUME UrlInv, Parse(url).status = "parsed",
                      \A i \in 1 .. Len(url.text) : url.text[i].c \notin {"+", "-"}
               PROVE  Squeeze(SubSeq(url.text, 1, Span(url.text, Ascii))) = T(Parse(url))
  BY DEF SplitKeepsText
<1>2. PICK s : s = url.text
  OBVIOUS
<1>3. IsUrl(url)
  BY <1>1 DEF UrlInv
<1>4. url.scheme # "other" /\ Squeeze(s) # <<>> /\ Squeeze(s)[1].c \in Ascii
  BY <1>1, <1>2 DEF Parse, Failed, Url
<1>5. PICK h : h = HostLength(s)
  OBVIOUS
<1>6. PICK p : p = Span(s, Ascii)
  OBVIOUS
<1>7. s \in Seq(Character) /\ Len(s) \in Nat /\ h \in 1 .. p /\ p \in 0 .. Len(s)
  <2>1. s \in Seq(Character) /\ Len(s) \in Nat
    BY <1>2, <1>3, Characters
  <2> QED BY <1>2, <1>3, <1>4, <1>5, <1>6, <2>1, HostIsAscii
<1>8. PICK rest : rest = From(s, h + 1)
  OBVIOUS
<1>9. PICK port : port = PortAfter(rest)
  OBVIOUS
<1>10. Parse(url) =
         IF rest = <<>> \/ rest[1].c # ":"
         THEN Url("parsed", Squeeze(SubSeq(s, 1, h)), <<>>, Path(rest))
         ELSE IF port.ok
         THEN Url("parsed", Squeeze(SubSeq(s, 1, h)), <<port.value % Width>>, Path(port.rest))
         ELSE Throws
  BY <1>2, <1>4, <1>5, <1>8, <1>9, ParseIs DEF PortAfter
<1>11. /\ 0 \in 0 .. Len(s) /\ h \in 0 .. Len(s) /\ p \in h .. Len(s) /\ h \in 0 .. p /\ 0 + 1 = 1
       /\ p \in p .. Len(s)
  BY <1>7
<1>12. Kept(s, 0, p) = Kept(s, 0, h) \o Kept(s, h, p)
  BY <1>7, <1>11, KeptSplits
<1>13. /\ Squeeze(SubSeq(s, 1, p)) = Kept(s, 0, p) /\ Squeeze(SubSeq(s, 1, h)) = Kept(s, 0, h)
  BY <1>11 DEF Kept
<1>14. PICK a \in Seq(Character) : a = Kept(s, 0, h)
  BY <1>7, <1>11, KeptSplits
<1>15. PICK b \in Seq(Character) : b = Kept(s, h, p)
  BY <1>7, <1>11, KeptSplits
<1>16. CASE rest = <<>> \/ rest[1].c # ":"
  <2>1. Parse(url) = Url("parsed", a, <<>>, Path(rest))
    BY <1>10, <1>13, <1>14, <1>16
  <2>2. Path(rest) = b
    BY <1>6, <1>7, <1>8, <1>11, <1>15, PathIsKept
  <2>3. T(Parse(url)) = a \o <<>> \o b
    BY <2>1, <2>2 DEF Url
  <2>4. a \o <<>> = a
    BY ConcatEmptySeq
  <2> HIDE DEF T
  <2> QED BY <1>2, <1>6, <1>12, <1>13, <1>14, <1>15, <2>3, <2>4
<1>17. CASE rest # <<>> /\ rest[1].c = ":"
  <2>1. port.ok
    BY <1>1, <1>10, <1>17 DEF Throws, Url
  <2>2. Parse(url) = Url("parsed", a, <<port.value % Width>>, Path(port.rest))
    BY <1>10, <1>13, <1>14, <1>17, <2>1
  <2>3. PICK v : v = port.value % Width
    OBVIOUS
  <2>4. PICK t : t = Path(port.rest)
    OBVIOUS
  <2>5. PICK c : c = <<Char(":"), Num(v)>>
    OBVIOUS
  <2>6. b = c \o t /\ c \in Seq(Character) /\ t \in Seq(Character)
    <3>1. \A i \in 1 .. Len(s) : s[i].c \notin {"+", "-"}
      BY <1>1, <1>2
    <3>2. h \in 1 .. Span(s, Ascii)
      BY <1>6, <1>7
    <3>3. /\ Kept(s, h, Span(s, Ascii)) = <<Char(":"), Num(port.value % Width)>> \o Path(port.rest)
          /\ <<Char(":"), Num(port.value % Width)>> \in Seq(Character)
          /\ Path(port.rest) \in Seq(Character)
      <4>1. ReadsPort(url, s, h, rest, port)
        BY <1>2, <1>3, <1>8, <1>9, <1>17, <2>1, <3>1, <3>2 DEF ReadsPort
      <4> QED BY ONLY <4>1, PortIsText
    <3> QED BY <1>6, <1>15, <2>3, <2>4, <2>5, <3>3
  <2>7. T(Parse(url)) = a \o c \o t
    BY <2>2, <2>3, <2>4, <2>5 DEF Url
  <2>8. (a \o c) \o t = a \o (c \o t)
    BY <2>6, ConcatAssociative
  <2> HIDE DEF T
  <2> QED BY <1>2, <1>6, <1>12, <1>13, <1>14, <1>15, <2>6, <2>7, <2>8
<1> QED BY <1>16, <1>17

-----------------------------------------------------------------------------
(* What is proved of the URL *)

\* Whatever the calls before it: for a URL written as the grammar means it, the request goes
\* to the host and the port it names, or to the port of its scheme, and asks for all that
\* follows them (url::url, url_view::port, session::request), for texts of any length.
THEOREM RequestGoesWhereUrlSays == Spec => []RequestFollowsUrl
<1>1. TypeOK /\ DownloadInv => RequestFollowsUrl
  BY RequestFollows DEF DownloadInv
<1> QED BY <1>1, FileInvariant, PTL

\* The name of the file has no slash in it and ends the URL after one
\* (url_view::resource_name, download_file).
THEOREM NameIsEndOfUrl == Spec => []NameEndsUrl
<1>1. TypeOK /\ DownloadInv => NameEndsUrl
  BY NameEnds DEF DownloadInv
<1> QED BY <1>1, FileInvariant, PTL

\* For every URL that is parsed, well-formed or not: host, port and target follow one
\* another in it and nothing but white space is lost up to the first character that is not
\* ASCII (url_grammar).
THEOREM ParserKeepsText == Spec => []SplitKeepsText
<1>1. TypeOK /\ DownloadInv => SplitKeepsText
  BY SplitKeeps DEF DownloadInv
<1> QED BY <1>1, FileInvariant, PTL

=============================================================================
