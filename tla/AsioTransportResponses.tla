------------------------ MODULE AsioTransportResponses ------------------------
(***************************************************************************)
(* Proofs about AsioTransport, for every value of its constants: which     *)
(* response each call is given, how many secure calls are served, and that *)
(* the adapter keeps the promise of Exchange.                              *)
(***************************************************************************)
EXTENDS AsioTransportProofs, FiniteSetTheorems

-----------------------------------------------------------------------------
(* Queues *)

\* r is what is left of queue q when its first messages were taken.
Suffix(q, r) ==
  \E d \in Nat : Len(r) + d = Len(q) /\ \A n \in 1 .. Len(r) : r[n] = q[n + d]

\* The messages of some kinds in queue r are those of q from some place on.
Kept(q, r, ks) ==
  \E d \in Nat : \A n \in 1 .. Len(r) :
    r[n].kind \in ks => n + d \in 1 .. Len(q) /\ r[n] = q[n + d]

\* What taking none, one, some and all messages from a queue leaves.
LEMMA SuffixSteps ==
  ASSUME NEW S, NEW q \in Seq(S)
  PROVE  /\ Suffix(q, q)
         /\ Suffix(q, <<>>)
         /\ q # <<>> => Suffix(q, Tail(q))
         /\ \A k \in 1 .. Len(q) : Suffix(q, SubSeq(q, k + 1, Len(q)))
<1>0. Len(q) \in Nat /\ 0 \in Nat /\ 1 \in Nat
  BY LenProperties
<1>1. Suffix(q, q)
  <2>1. Len(q) + 0 = Len(q) /\ \A n \in 1 .. Len(q) : n + 0 = n
    BY <1>0
  <2> QED BY <1>0, <2>1 DEF Suffix
<1>2. Suffix(q, <<>>)
  <2>1. Len(<<>>) = 0 /\ 0 + Len(q) = Len(q) /\ 1 .. 0 = {}
    BY <1>0
  <2> QED BY <1>0, <2>1 DEF Suffix
<1>3. ASSUME q # <<>> PROVE Suffix(q, Tail(q))
  <2>1. /\ Len(Tail(q)) = Len(q) - 1
        /\ \A n \in 1 .. Len(Tail(q)) : Tail(q)[n] = q[n + 1]
    BY <1>3, HeadTailProperties
  <2> QED BY <1>0, <2>1 DEF Suffix
<1>4. ASSUME NEW k \in 1 .. Len(q) PROVE Suffix(q, SubSeq(q, k + 1, Len(q)))
  <2> DEFINE r == SubSeq(q, k + 1, Len(q))
  <2>1. /\ Len(r) = IF k + 1 <= Len(q) THEN Len(q) - (k + 1) + 1 ELSE 0
        /\ \A n \in 1 .. Len(q) - (k + 1) + 1 : r[n] = q[(k + 1) + n - 1]
    BY <1>0, SubSeqProperties
  <2>2. Len(r) = Len(q) - k /\ k \in Nat
    BY <1>0, <2>1
  <2> HIDE DEF r
  <2>3. \A n \in 1 .. Len(r) : r[n] = q[n + k]
    BY <1>0, <2>1, <2>2
  <2>4. Len(r) + k = Len(q)
    BY <1>0, <2>2
  <2> QED BY <2>2, <2>3, <2>4 DEF Suffix, r
<1> QED BY <1>1, <1>2, <1>3, <1>4

\* What is left of a queue is kept, and so is what was there when a message of another
\* kind is added.
LEMMA SuffixKept ==
  ASSUME NEW S, NEW q \in Seq(S), NEW r \in Seq(S), Suffix(q, r), NEW ks
  PROVE  Kept(q, r, ks)
<1>1. PICK d \in Nat : Len(r) + d = Len(q) /\ \A n \in 1 .. Len(r) : r[n] = q[n + d]
  BY DEF Suffix
<1>2. \A n \in 1 .. Len(r) : n + d \in 1 .. Len(q)
  BY <1>1, LenProperties
<1> QED BY <1>1, <1>2 DEF Kept

\* A message behind the others, of another kind, keeps those of the kinds in ks.
LEMMA AppendKept ==
  ASSUME NEW S, NEW q \in Seq(S), NEW m \in S, NEW ks, m.kind \notin ks
  PROVE  Kept(q, Append(q, m), ks)
<1>1. /\ Len(Append(q, m)) = Len(q) + 1
      /\ \A n \in 1 .. Len(q) : Append(q, m)[n] = q[n]
      /\ Append(q, m)[Len(q) + 1] = m
  BY AppendProperties
<1>2. Len(q) \in Nat /\ 0 \in Nat
  BY LenProperties
<1>3. \A n \in 1 .. Len(q) + 1 : n # Len(q) + 1 => n + 0 \in 1 .. Len(q) /\ n + 0 = n
  BY <1>2
<1> QED BY <1>1, <1>2, <1>3 DEF Kept

\* What is said of the numbers of the messages of some kinds in q holds in r, too.
Fewer(q, r, ks) ==
  \A js \in SUBSET ks :
    /\ Once(q, js) => Once(r, js)
    /\ \A k : Carries(r, js, k) => Carries(q, js, k)
    /\ \A ids : Only(q, js, ids) => Only(r, js, ids)

\* A queue that keeps messages has no more of them, and no others.
LEMMA KeptFewer ==
  ASSUME NEW S, NEW q \in Seq(S), NEW r \in Seq(S), NEW ks, Kept(q, r, ks)
  PROVE  Fewer(q, r, ks)
<1>1. PICK d \in Nat : \A n \in 1 .. Len(r) :
        r[n].kind \in ks => n + d \in 1 .. Len(q) /\ r[n] = q[n + d]
  BY DEF Kept
<1>2. Len(r) \in Nat
  BY LenProperties
<1>3. SUFFICES ASSUME NEW js \in SUBSET ks
               PROVE  /\ Once(q, js) => Once(r, js)
                      /\ \A k : Carries(r, js, k) => Carries(q, js, k)
                      /\ \A ids : Only(q, js, ids) => Only(r, js, ids)
  BY DEF Fewer
<1>4. \A n \in 1 .. Len(r) : r[n].kind \in js => n + d \in 1 .. Len(q) /\ r[n] = q[n + d]
  BY <1>1, <1>3
<1>5. ASSUME Once(q, js), NEW m \in 1 .. Len(r), NEW n \in 1 .. Len(r),
             r[m].kind \in js, r[n].kind \in js, r[m].id = r[n].id
      PROVE  m = n
  <2>1. m + d = n + d
    BY <1>4, <1>5 DEF Once
  <2> QED BY <1>2, <2>1
<1>6. ASSUME NEW k, Carries(r, js, k) PROVE Carries(q, js, k)
  BY <1>4, <1>6 DEF Carries
<1>7. ASSUME NEW ids, Only(q, js, ids) PROVE Only(r, js, ids)
  BY <1>4, <1>7 DEF Only
<1> QED BY <1>5, <1>6, <1>7 DEF Once

\* Taking the first messages, or adding one that is not a 1xx response, leaves none alone.
LEMMA SuffixFollowed ==
  ASSUME NEW S, NEW q \in Seq(S), NEW r \in Seq(S), Suffix(q, r), Followed(q)
  PROVE  Followed(r)
<1>1. PICK d \in Nat : Len(r) + d = Len(q) /\ \A n \in 1 .. Len(r) : r[n] = q[n + d]
  BY DEF Suffix
<1>2. Len(q) \in Nat /\ Len(r) \in Nat
  BY LenProperties
<1>3. SUFFICES ASSUME NEW n \in 1 .. Len(r), r[n].kind = "interim"
               PROVE  n < Len(r) /\ r[n + 1].kind = "head" /\ r[n + 1].id = r[n].id
  BY DEF Followed
<1>4. n + d \in 1 .. Len(q) /\ r[n] = q[n + d]
  BY <1>1, <1>2, <1>3
<1>5. n + d < Len(q) /\ q[n + d + 1].kind = "head" /\ q[n + d + 1].id = q[n + d].id
  BY <1>3, <1>4 DEF Followed
<1>6. n < Len(r) /\ n + 1 \in 1 .. Len(r) /\ (n + 1) + d = n + d + 1
  BY <1>1, <1>2, <1>3, <1>5
<1> QED BY <1>1, <1>4, <1>5, <1>6

\* A message that asks for no other can come behind the others.
LEMMA AppendFollowed ==
  ASSUME NEW S, NEW q \in Seq(S), NEW m \in S, m.kind # "interim", Followed(q)
  PROVE  Followed(Append(q, m))
<1>1. /\ Len(Append(q, m)) = Len(q) + 1
      /\ \A n \in 1 .. Len(q) : Append(q, m)[n] = q[n]
      /\ Append(q, m)[Len(q) + 1] = m
  BY AppendProperties
<1>2. Len(q) \in Nat
  BY LenProperties
<1> DEFINE r == Append(q, m)
<1> HIDE DEF r
<1>3. SUFFICES ASSUME NEW n \in 1 .. Len(r), r[n].kind = "interim"
               PROVE  n < Len(r) /\ r[n + 1].kind = "head" /\ r[n + 1].id = r[n].id
  BY DEF Followed, r
<1>4. n \in 1 .. Len(q) /\ r[n] = q[n]
  BY <1>1, <1>2, <1>3 DEF r
<1>5. n < Len(q) /\ q[n + 1].kind = "head" /\ q[n + 1].id = q[n].id
  BY <1>3, <1>4 DEF Followed
<1>6. n + 1 \in 1 .. Len(q) /\ n < Len(r)
  BY <1>1, <1>2, <1>4, <1>5 DEF r
<1> QED BY <1>1, <1>4, <1>5, <1>6 DEF r

\* What is said of two queues holds when one comes after the other.
LEMMA ConcatQueues ==
  ASSUME NEW S, NEW q \in Seq(S), NEW w \in Seq(S)
  PROVE  /\ \A ks, k : Carries(q \o w, ks, k) <=> Carries(q, ks, k) \/ Carries(w, ks, k)
         /\ \A ks, ids : Only(q, ks, ids) /\ Only(w, ks, ids) => Only(q \o w, ks, ids)
         /\ \A ks : /\ Once(q, ks) /\ Once(w, ks)
                    /\ \A k : Carries(q, ks, k) => ~Carries(w, ks, k)
                    => Once(q \o w, ks)
         /\ Followed(q) /\ Followed(w) => Followed(q \o w)
         /\ \A ks : (\A n \in 1 .. Len(w) : w[n].kind \notin ks) => Kept(q, q \o w, ks)
<1> DEFINE r == q \o w
<1>1. /\ Len(q) \in Nat /\ Len(w) \in Nat /\ Len(r) = Len(q) + Len(w)
      /\ \A n \in 1 .. Len(r) : r[n] = IF n <= Len(q) THEN q[n] ELSE w[n - Len(q)]
  BY ConcatProperties, LenProperties
<1> HIDE DEF r
<1>2. \A n \in 1 .. Len(q) : n \in 1 .. Len(r) /\ r[n] = q[n]
  BY <1>1
<1>3. \A n \in 1 .. Len(w) : n + Len(q) \in 1 .. Len(r) /\ r[n + Len(q)] = w[n]
  BY <1>1
<1>4. \A n \in 1 .. Len(r) :
        \/ n \in 1 .. Len(q) /\ r[n] = q[n]
        \/ n - Len(q) \in 1 .. Len(w) /\ r[n] = w[n - Len(q)]
  BY <1>1
<1>5. ASSUME NEW ks, NEW k
      PROVE  Carries(r, ks, k) <=> Carries(q, ks, k) \/ Carries(w, ks, k)
  <2>1. ASSUME Carries(q, ks, k) PROVE Carries(r, ks, k)
    BY <1>2, <2>1 DEF Carries
  <2>2. ASSUME Carries(w, ks, k) PROVE Carries(r, ks, k)
    <3>1. PICK n \in 1 .. Len(w) : w[n].kind \in ks /\ w[n].id = k
      BY <2>2 DEF Carries
    <3>2. n + Len(q) \in 1 .. Len(r) /\ r[n + Len(q)] = w[n]
      BY <1>3
    <3> QED BY <3>1, <3>2 DEF Carries
  <2>3. ASSUME Carries(r, ks, k) PROVE Carries(q, ks, k) \/ Carries(w, ks, k)
    BY <1>4, <2>3 DEF Carries
  <2> QED BY <2>1, <2>2, <2>3
<1>6. ASSUME NEW ks, NEW ids, Only(q, ks, ids), Only(w, ks, ids) PROVE Only(r, ks, ids)
  BY <1>4, <1>6 DEF Only
<1>7. ASSUME NEW ks, Once(q, ks), Once(w, ks),
             \A k : Carries(q, ks, k) => ~Carries(w, ks, k),
             NEW m \in 1 .. Len(r), NEW n \in 1 .. Len(r),
             r[m].kind \in ks, r[n].kind \in ks, r[m].id = r[n].id
      PROVE  m = n
  <2>1. CASE m \in 1 .. Len(q) /\ r[m] = q[m] /\ n \in 1 .. Len(q) /\ r[n] = q[n]
    BY <1>7, <2>1 DEF Once
  <2>2. CASE m \in 1 .. Len(q) /\ r[m] = q[m]
             /\ n - Len(q) \in 1 .. Len(w) /\ r[n] = w[n - Len(q)]
    BY <1>7, <2>2 DEF Carries
  <2>3. CASE m - Len(q) \in 1 .. Len(w) /\ r[m] = w[m - Len(q)]
             /\ n \in 1 .. Len(q) /\ r[n] = q[n]
    BY <1>7, <2>3 DEF Carries
  <2>4. CASE m - Len(q) \in 1 .. Len(w) /\ r[m] = w[m - Len(q)]
             /\ n - Len(q) \in 1 .. Len(w) /\ r[n] = w[n - Len(q)]
    <3>1. m - Len(q) = n - Len(q)
      BY <1>7, <2>4 DEF Once
    <3> QED BY <1>1, <3>1
  <2> QED BY <1>4, <2>1, <2>2, <2>3, <2>4
<1>8. ASSUME Followed(q), Followed(w), NEW n \in 1 .. Len(r), r[n].kind = "interim"
      PROVE  n < Len(r) /\ r[n + 1].kind = "head" /\ r[n + 1].id = r[n].id
  <2>1. CASE n \in 1 .. Len(q) /\ r[n] = q[n]
    <3>1. n < Len(q) /\ q[n + 1].kind = "head" /\ q[n + 1].id = q[n].id
      BY <1>8, <2>1 DEF Followed
    <3>2. n + 1 \in 1 .. Len(q) /\ n < Len(r)
      BY <1>1, <2>1, <3>1
    <3> QED BY <1>2, <2>1, <3>1, <3>2
  <2>2. CASE n - Len(q) \in 1 .. Len(w) /\ r[n] = w[n - Len(q)]
    <3> DEFINE l == n - Len(q)
    <3>1. l < Len(w) /\ w[l + 1].kind = "head" /\ w[l + 1].id = w[l].id
      BY <1>8, <2>2 DEF Followed
    <3>2. l + 1 \in 1 .. Len(w) /\ l + 1 + Len(q) = n + 1 /\ n < Len(r)
      BY <1>1, <2>2, <3>1
    <3>3. r[n + 1] = w[l + 1]
      BY <1>3, <3>2
    <3> QED BY <2>2, <3>1, <3>2, <3>3
  <2> QED BY <1>4, <2>1, <2>2
<1>9. ASSUME NEW ks, \A n \in 1 .. Len(w) : w[n].kind \notin ks PROVE Kept(q, r, ks)
  <2>1. \A n \in 1 .. Len(r) : r[n].kind \in ks => n + 0 \in 1 .. Len(q) /\ r[n] = q[n + 0]
    BY <1>1, <1>4, <1>9
  <2> QED BY <2>1 DEF Kept
<1> QED BY <1>5, <1>6, <1>7, <1>8, <1>9 DEF Once, Followed, r

-----------------------------------------------------------------------------
(* Steps that write no request, make no response and take none off the connection *)

\* What becomes of the record of call i: its buffer is what is left of it, and a part of its
\* response is new only if it was in the buffer, or it has none, for a new reader.
RecordKept(i) ==
  /\ /\ calls'[i].clean = calls[i].clean /\ calls'[i].served = calls[i].served
     /\ calls'[i].secure = calls[i].secure /\ calls'[i].stream = calls[i].stream
  /\ calls'[i].readers <= 1 => calls[i].readers <= 1
  /\ Suffix(calls[i].buf, calls'[i].buf)
  /\ \A p \in Parts :
       \/ /\ Part(p, i)' = Part(p, i)
          /\ calls'[i].rst # "interim" => calls[i].rst # "interim"
       \/ Part(p, i)' = 0
       \/ \E n \in 1 .. Len(calls[i].buf) :
            LET m == calls[i].buf[n]
            IN  /\ m.id = Part(p, i)'
                /\ m.kind \in Kinds(p) \/ (m.kind = "interim" /\ calls'[i].rst = "interim")

\* Such a step.
Local ==
  /\ Len(calls') = Len(calls)
  /\ \/ Suffix(c2s, c2s')
     \/ \E m \in Outgoing :
          m.kind # "req" /\ c2s' = Append(c2s, m)
  /\ \/ Suffix(s2c, s2c')
     \/ \E m \in Incoming :
          m.kind \in {"hello", "junk"} /\ s2c' = Append(s2c, m)
  /\ \A i \in 1 .. Len(calls) : RecordKept(i)
  /\ pc' \in Asking => pc \in Asking /\ cur' = cur

\* The types of the queues.
LEMMA QueueTypes ==
  ASSUME TypeOK
  PROVE  /\ c2s \in Seq(Outgoing) /\ s2c \in Seq(Incoming)
         /\ calls \in Seq(CallRecords) /\ Len(calls) \in Nat
         /\ \A i \in 1 .. Len(calls) : calls[i] \in CallRecords /\ calls[i].buf \in Seq(Incoming)
<1>1. /\ c2s \in Seq(Outgoing) /\ s2c \in Seq(Incoming)
      /\ calls \in Seq(CallRecords) /\ Len(calls) \in Nat
  BY LenProperties DEF TypeOK, Outgoing, ToServerKinds
<1>2. \A i \in 1 .. Len(calls) : calls[i] \in CallRecords
  BY <1>1, ElementOfSeq
<1> QED BY <1>1, <1>2 DEF CallRecords

\* And so they have after a step that keeps the types.
LEMMA NextQueueTypes ==
  ASSUME TypeOK'
  PROVE  /\ c2s' \in Seq(Outgoing) /\ s2c' \in Seq(Incoming)
         /\ calls' \in Seq(CallRecords) /\ Len(calls') \in Nat
         /\ \A i \in 1 .. Len(calls') : calls'[i] \in CallRecords /\ calls'[i].buf \in Seq(Incoming)
<1>1. /\ c2s' \in Seq(Outgoing) /\ s2c' \in Seq(Incoming)
      /\ calls' \in Seq(CallRecords) /\ Len(calls') \in Nat
  BY LenProperties DEF TypeOK, Outgoing, ToServerKinds
<1>2. \A i \in 1 .. Len(calls') : calls'[i] \in CallRecords
  BY <1>1, ElementOfSeq
<1> QED BY <1>1, <1>2 DEF CallRecords

\* Such a step adds no request and no response.
LEMMA LocalQueues ==
  ASSUME TypeOK, TypeOK', Local
  PROVE  /\ Fewer(c2s, c2s', {"req"}) /\ Fewer(s2c, s2c', Responses)
         /\ \A i \in 1 .. Len(calls) : Fewer(calls[i].buf, calls'[i].buf, Responses)
<1>0. /\ c2s \in Seq(Outgoing) /\ s2c \in Seq(Incoming)
      /\ c2s' \in Seq(Outgoing) /\ s2c' \in Seq(Incoming)
      /\ \A i \in 1 .. Len(calls) : calls[i].buf \in Seq(Incoming)
      /\ \A i \in 1 .. Len(calls) : calls'[i].buf \in Seq(Incoming)
  BY QueueTypes, NextQueueTypes DEF Local
<1>1. Kept(c2s, c2s', {"req"})
  BY <1>0, SuffixKept, AppendKept DEF Local
<1>2. Kept(s2c, s2c', Responses)
  <2>1. CASE Suffix(s2c, s2c')
    BY <1>0, <2>1, SuffixKept
  <2>2. ASSUME NEW m \in Incoming, m.kind \in {"hello", "junk"}, s2c' = Append(s2c, m)
        PROVE  Kept(s2c, s2c', Responses)
    <3>1. m.kind \notin Responses
      BY <2>2 DEF Responses
    <3> QED BY <1>0, <2>2, <3>1, AppendKept
  <2> QED BY <2>1, <2>2 DEF Local
<1>3. ASSUME NEW i \in 1 .. Len(calls)
      PROVE  Fewer(calls[i].buf, calls'[i].buf, Responses)
  <2> DEFINE q == calls[i].buf
             r == calls'[i].buf
  <2>1. q \in Seq(Incoming) /\ r \in Seq(Incoming) /\ Suffix(q, r)
    BY <1>0 DEF Local, RecordKept
  <2> HIDE DEF q, r
  <2>2. Fewer(q, r, Responses)
    BY <2>1, SuffixKept, KeptFewer
  <2> QED BY <2>2 DEF q, r
<1> QED BY <1>0, <1>1, <1>2, <1>3, KeptFewer

\* Where a request and its response are after such a step, they were before.
LEMMA LocalPlaces ==
  ASSUME TypeOK, TypeOK', Local, NEW p \in Parts, NEW k \in 1 .. Len(calls)
  PROVE  /\ Asked(k)' => Asked(k)
         /\ OnWire(p, k)' => OnWire(p, k)
         /\ \A i \in 1 .. Len(calls) : Has(p, i, k)' => Has(p, i, k)
<1>0. Kinds(p) \in SUBSET Responses /\ "interim" \notin Kinds(p)
  BY DEF Parts, Kinds, Responses
<1>1. ASSUME Asked(k)' PROVE Asked(k)
  BY <1>1, LocalQueues DEF Asked, Local, Fewer
<1>2. ASSUME OnWire(p, k)' PROVE OnWire(p, k)
  BY <1>0, <1>2, LocalQueues DEF OnWire, Fewer
<1>3. ASSUME NEW i \in 1 .. Len(calls), Has(p, i, k)' PROVE Has(p, i, k)
  <2>1. CASE calls'[i].rst # "interim" /\ Part(p, i)' = k
    <3>1. RecordKept(i)
      BY DEF Local
    <3>2. k # 0
      BY QueueTypes
    <3> QED BY <2>1, <3>1, <3>2 DEF RecordKept, Has, Carries
  <2>2. CASE Carries(calls'[i].buf, Kinds(p), k)
    BY <1>0, <2>2, LocalQueues DEF Has, Fewer
  <2> QED BY <1>3, <2>1, <2>2 DEF Has
<1> QED BY <1>1, <1>2, <1>3

\* Such a step keeps every request and every part of a response in one place.
LEMMA LocalOnce ==
  ASSUME TypeOK, TypeOK', Local, OnceInv PROVE OnceInv'
<1>1. Once(c2s, {"req"})'
  BY LocalQueues DEF OnceInv, Fewer
<1>2. (pc \in Asking => ~Carries(c2s, {"req"}, cur))'
  BY LocalQueues DEF OnceInv, Fewer, Local
<1>3. (\A p \in Parts : Once(s2c, Kinds(p)))'
  <2>1. \A p \in Parts : Kinds(p) \in SUBSET Responses
    BY DEF Parts, Kinds, Responses
  <2> QED BY <2>1, LocalQueues DEF OnceInv, Fewer
<1>4. (\A p \in Parts, k \in 1 .. Len(calls) :
        /\ OnWire(p, k) => ~Asked(k)
        /\ \A i \in 1 .. Len(calls) : Has(p, i, k) => ~Asked(k) /\ ~OnWire(p, k)
        /\ \A i, j \in 1 .. Len(calls) : Has(p, i, k) /\ Has(p, j, k) => i = j)'
  <2>1. Len(calls') = Len(calls)
    BY DEF Local
  <2> QED BY <2>1, LocalPlaces DEF OnceInv
<1> QED BY <1>1, <1>2, <1>3, <1>4 DEF OnceInv

\* ... and adds no message that belongs to no call.
LEMMA LocalWire ==
  ASSUME TypeOK, TypeOK', Local, WireInv PROVE WireInv'
<1>0. Len(calls') = Len(calls)
  BY DEF Local
<1>1. (/\ Only(c2s, {"req"}, 1 .. Len(calls))
       /\ Only(s2c, Responses, 1 .. Len(calls))
       /\ \A i \in 1 .. Len(calls) : Only(calls[i].buf, Responses, 1 .. Len(calls)))'
  <2>1. {"req"} \in SUBSET {"req"} /\ Responses \in SUBSET Responses
    OBVIOUS
  <2> QED BY <1>0, <2>1, LocalQueues DEF WireInv, Fewer
<1>2. Followed(s2c')
  <2>0. s2c \in Seq(Incoming) /\ s2c' \in Seq(Incoming) /\ Followed(s2c)
    BY QueueTypes, NextQueueTypes DEF WireInv
  <2>1. ASSUME NEW m \in Incoming, m.kind \in {"hello", "junk"}, s2c' = Append(s2c, m)
        PROVE  Followed(s2c')
    BY <2>0, <2>1, AppendFollowed
  <2> QED BY <2>0, <2>1, SuffixFollowed DEF Local
<1> QED BY <1>1, <1>2 DEF WireInv

\* No response has two readers after a step that takes no reader from one, so none had before.
LEMMA ReadOnceBefore ==
  ASSUME Len(calls') = Len(calls), ReadOnce',
         \A i \in 1 .. Len(calls) : calls'[i].readers <= 1 => calls[i].readers <= 1
  PROVE  ReadOnce
BY DEF ReadOnce

\* ... nor takes one from the call it belongs to when that is the only one there.
LEMMA LocalOwn ==
  ASSUME TypeOK, TypeOK', Local, OwnInv PROVE OwnInv'
<1>0. Len(calls') = Len(calls) /\ Len(calls) \in Nat
  BY QueueTypes DEF Local
<1>1. SUFFICES ASSUME NEW n, n = Len(calls), n > 0, calls'[n].clean, ReadOnce'
               PROVE  /\ Only(c2s', {"req"}, {n})
                      /\ Only(s2c', Responses, {n})
                      /\ Only(calls'[n].buf, Responses, {n})
                      /\ {calls'[n].answer, calls'[n].body} \subseteq {0, n}
  BY <1>0 DEF OwnInv
<1>2. n \in 1 .. Len(calls) /\ RecordKept(n)
  BY <1>0, <1>1 DEF Local
<1>3. calls[n].clean /\ ReadOnce
  <2>1. \A i \in 1 .. Len(calls) : calls'[i].readers <= 1 => calls[i].readers <= 1
    BY DEF Local, RecordKept
  <2> QED BY <1>0, <1>1, <1>2, <2>1, ReadOnceBefore DEF RecordKept
<1>4. /\ Only(c2s, {"req"}, {n})
      /\ Only(s2c, Responses, {n})
      /\ Only(calls[n].buf, Responses, {n})
      /\ {calls[n].answer, calls[n].body} \subseteq {0, n}
  BY <1>1, <1>3 DEF OwnInv
<1>5. /\ Only(c2s', {"req"}, {n})
      /\ Only(s2c', Responses, {n})
      /\ Only(calls'[n].buf, Responses, {n})
  <2>1. {"req"} \in SUBSET {"req"} /\ Responses \in SUBSET Responses
    OBVIOUS
  <2> QED BY <1>2, <1>4, <2>1, LocalQueues DEF Fewer
<1>6. \A p \in Parts : Part(p, n)' \in {0, n}
  <2>1. TAKE p \in Parts
  <2>2. CASE Part(p, n)' = Part(p, n)
    BY <1>4, <2>2 DEF Part
  <2>3. ASSUME NEW l \in 1 .. Len(calls[n].buf), calls[n].buf[l].id = Part(p, n)',
               calls[n].buf[l].kind \in Kinds(p) \cup {"interim"}
        PROVE  Part(p, n)' \in {0, n}
    <3>1. calls[n].buf[l].kind \in Responses
      BY <2>3 DEF Kinds, Responses
    <3> QED BY <1>4, <2>3, <3>1 DEF Only
  <2>4. CASE Part(p, n)' = 0
    BY <2>4
  <2> QED BY <1>2, <2>2, <2>3, <2>4 DEF RecordKept
<1>7. "head" \in Parts /\ "rest" \in Parts
  BY DEF Parts
<1> QED BY <1>5, <1>6, <1>7 DEF Part

\* ... and lets no call past its handshake, unless it ends one.
LEMMA LocalShaken ==
  ASSUME TypeOK, TypeOK', Local, pc' = "write" => pc = "write" \/ ~calls[cur].secure,
         NEW i \in 1 .. Len(calls), Shaken(i)'
  PROVE  Shaken(i)
<1>1. Carries(c2s', {"req"}, i) => Carries(c2s, {"req"}, i)
  BY LocalQueues DEF Fewer
<1>2. RecordKept(i)
  BY DEF Local
<1>3. pc' = "write" => cur' = cur
  BY DEF Local, Asking
<1> QED BY <1>1, <1>2, <1>3 DEF Shaken, RecordKept

\* What HelloInv says is kept while there are no new ServerHello, no new connection, and no
\* call past its handshake that was not.
LEMMA HelloKept ==
  ASSUME TypeOK, TypeOK', HelloInv, Kept(s2c, s2c', {"hello"}),
         conn' \in {"none", "fresh"} => conn' = conn,
         \A i \in 1 .. Len(calls') : Shaken(i)' => i \in 1 .. Len(calls) /\ Shaken(i)
  PROVE  HelloInv'
<1>1. PICK d \in Nat : \A n \in 1 .. Len(s2c') :
        s2c'[n].kind = "hello" => n + d \in 1 .. Len(s2c) /\ s2c'[n] = s2c[n + d]
  BY DEF Kept
<1>2. Len(s2c') \in Nat
  BY NextQueueTypes, LenProperties
<1>3. (\A m, n \in 1 .. Len(s2c) : s2c[m].kind = "hello" /\ s2c[n].kind = "hello" => m = n)'
  <2>1. SUFFICES ASSUME NEW m \in 1 .. Len(s2c'), NEW n \in 1 .. Len(s2c'),
                        s2c'[m].kind = "hello", s2c'[n].kind = "hello"
                 PROVE  m = n
    OBVIOUS
  <2>2. m + d = n + d
    BY <1>1, <2>1 DEF HelloInv
  <2> QED BY <1>2, <2>2
<1>4. ((\E n \in 1 .. Len(s2c) : s2c[n].kind = "hello") \/ conn \in {"none", "fresh"} =>
         \A i \in 1 .. Len(calls) : ~Shaken(i))'
  BY <1>1 DEF HelloInv
<1>5. (conn \in {"none", "fresh"} => \A n \in 1 .. Len(s2c) : s2c[n].kind # "hello")'
  BY <1>1 DEF HelloInv
<1>6. (\A i, j \in 1 .. Len(calls) : Shaken(i) /\ Shaken(j) => i = j)'
  BY DEF HelloInv
<1> QED BY <1>3, <1>4, <1>5, <1>6 DEF HelloInv

\* A step that takes messages only, and brings no secure call to its request, keeps HelloInv.
LEMMA LocalHello ==
  ASSUME TypeOK, TypeOK', HelloInv, Local, conn' \in {"none", "fresh"} => conn' = conn,
         Kept(s2c, s2c', {"hello"}), pc' = "write" => pc = "write" \/ ~calls[cur].secure
  PROVE  HelloInv'
<1>1. \A i \in 1 .. Len(calls') : Shaken(i)' => i \in 1 .. Len(calls) /\ Shaken(i)
  BY LocalShaken DEF Local
<1> QED BY <1>1, HelloKept

\* The response of a call that is read to its end, or of one before the last, is not changed
\* when only the call the thread is in is.
LEMMA OwnResponseKept ==
  ASSUME TypeOK, RecordInv, OwnResponse, OwnInv', Len(calls') = Len(calls),
         \A i \in 1 .. Len(calls) :
           /\ calls'[i].clean = calls[i].clean /\ calls'[i].stream = calls[i].stream
           /\ calls'[i].readers <= 1 => calls[i].readers <= 1
           /\ \/ calls'[i].readers <= 1 =>
                   calls'[i].answer = calls[i].answer /\ calls'[i].body = calls[i].body
              \/ i = cur /\ calls[i].outcome \in {"pending", "streaming"}
  PROVE  OwnResponse'
<1>0. Len(calls) \in Nat
  BY QueueTypes
<1>1. SUFFICES ASSUME ReadOnce', NEW i \in 1 .. Len(calls), calls[i].clean,
                      calls[i].stream /\ i < Len(calls) => calls[i + 1].clean
               PROVE  {calls'[i].answer, calls'[i].body} \subseteq {0, i}
  <2>1. ASSUME NEW i \in 1 .. Len(calls), i < Len(calls) PROVE i + 1 \in 1 .. Len(calls)
    BY <1>0, <2>1
  <2> QED BY <2>1 DEF OwnResponse
<1>6. ReadOnce /\ calls'[i].readers <= 1
  BY <1>1, ReadOnceBefore DEF ReadOnce
<1>2. CASE i = Len(calls)
  BY <1>0, <1>1, <1>2 DEF OwnInv
<1>3. CASE calls'[i].answer = calls[i].answer /\ calls'[i].body = calls[i].body
  BY <1>1, <1>3, <1>6 DEF OwnResponse
<1>4. CASE i # Len(calls) /\ i = cur /\ calls[i].outcome = "pending"
  <2>1. pc \in Asking \cup {"read"}
    BY <1>4 DEF RecordInv
  <2> QED BY <1>4, <2>1 DEF TypeOK, Asking
<1>5. CASE i # Len(calls) /\ i = cur /\ calls[i].outcome = "streaming"
  <2>1. calls[i].stream
    BY <1>5 DEF RecordInv, Consistent
  <2>2. i < Len(calls) /\ i + 1 \in 1 .. Len(calls) /\ i \in 1 .. (i + 1) - 1
    BY <1>0, <1>5
  <2>3. calls[i].outcome = "ok"
    BY <1>1, <1>6, <2>1, <2>2 DEF RecordInv
  <2> QED BY <1>5, <2>3
<1> QED BY <1>1, <1>2, <1>3, <1>4, <1>5, <1>6

-----------------------------------------------------------------------------
(* The records of the calls *)

\* The call the thread is in has not ended.
LEMMA Underway ==
  ASSUME TypeOK, RecordInv, pc # "idle"
  PROVE  /\ cur \in 1 .. Len(calls) /\ calls[cur] \in CallRecords /\ Consistent(calls[cur])
         /\ calls[cur].outcome = IF pc \in {"stream", "terminated"} THEN "streaming" ELSE "pending"
         /\ calls[cur].rst \in {"start", "body"} /\ calls[cur].body = 0
         /\ pc \notin {"stream", "terminated"} => cur = Len(calls)
         /\ pc \in {"stream", "terminated"} => calls[cur].readers > 0
         /\ pc = "read" => ~calls[cur].stream
<1>1. cur \in 1 .. Len(calls) /\ calls[cur] \in CallRecords
  BY Current
<1>2. /\ calls[cur].outcome = IF pc \in {"stream", "terminated"} THEN "streaming" ELSE "pending"
      /\ pc \notin {"stream", "terminated"} => cur = Len(calls)
      /\ pc \in {"stream", "terminated"} => calls[cur].readers > 0
      /\ pc = "read" => ~calls[cur].stream
  BY <1>1 DEF TypeOK, RecordInv
<1>3. Consistent(calls[cur])
  BY <1>1 DEF RecordInv
<1>4. calls[cur].rst \in {"start", "body"} /\ calls[cur].body = 0
  BY <1>2, <1>3 DEF Consistent
<1> QED BY <1>1, <1>2, <1>3, <1>4

\* A step that ends no call twice keeps RecordInv.
LEMMA RecordInvKept ==
  ASSUME RecordInv, Len(calls') = Len(calls), Len(calls) \in Nat,
         pc' \in {"stream", "terminated"} =>
           calls'[cur'].outcome = "streaming" /\ calls'[cur'].readers > 0,
         pc' = "read" => ~calls'[cur'].stream,
         \A i \in 1 .. Len(calls) :
           /\ Consistent(calls'[i]) /\ calls'[i].clean = calls[i].clean
           /\ calls'[i].outcome = "pending" => i = cur' /\ pc' \in Asking \cup {"read"}
           /\ calls'[i].readers <= 1 =>
                /\ calls[i].readers <= 1
                /\ calls[i].outcome = "ok" => calls'[i].outcome = "ok" /\ calls'[i].rst = calls[i].rst
  PROVE  RecordInv'
<1>1. \A i \in 1 .. Len(calls) : \A j \in 1 .. i - 1 : j \in 1 .. Len(calls)
  OBVIOUS
<1>2. ASSUME NEW i \in 1 .. Len(calls), calls'[i].clean, ReadOnce', NEW j \in 1 .. i - 1
      PROVE  calls'[j].outcome = "ok" /\ calls'[j].rst = "done"
  <2>1. ReadOnce
    BY <1>2, ReadOnceBefore
  <2>2. j \in 1 .. Len(calls) /\ calls[j].outcome = "ok" /\ calls[j].rst = "done"
    BY <1>1, <1>2, <2>1 DEF RecordInv
  <2>3. calls'[j].readers <= 1
    BY <1>2, <2>2 DEF ReadOnce
  <2> QED BY <2>2, <2>3
<1>3. ASSUME NEW i \in 1 .. Len(calls) PROVE Consistent(calls[i])'
  BY DEF Consistent
<1> QED BY <1>2, <1>3 DEF RecordInv

\* A step that changes the record of the call the thread is in.
LEMMA RecordBecomes ==
  ASSUME TypeOK, RecordInv, pc # "idle", NEW r \in CallRecords, Becomes(r), Consistent(r),
         r.clean = calls[cur].clean, r.readers = calls[cur].readers,
         r.outcome = "pending" => cur' = cur /\ pc' \in Asking \cup {"read"},
         pc' = "read" => cur' = cur /\ ~r.stream,
         pc' \in {"stream", "terminated"} =>
           cur' = cur /\ r.outcome = "streaming" /\ r.readers > 0
  PROVE  /\ Len(calls') = Len(calls) /\ RecordInv'
         /\ \A i \in 1 .. Len(calls) : calls'[i] = IF i = cur THEN r ELSE calls[i]
<1>1. /\ Len(calls') = Len(calls)
      /\ \A i \in 1 .. Len(calls) : calls'[i] = IF i = cur THEN r ELSE calls[i]
  BY CurrentBecomes
<1>2. cur \in 1 .. Len(calls) /\ calls[cur].outcome # "ok" /\ Len(calls) \in Nat
  BY Underway, Current
<1>3. ASSUME NEW i \in 1 .. Len(calls)
      PROVE  /\ Consistent(calls'[i]) /\ calls'[i].clean = calls[i].clean
             /\ calls'[i].outcome = "pending" => i = cur' /\ pc' \in Asking \cup {"read"}
             /\ calls'[i].readers = calls[i].readers
             /\ calls[i].outcome = "ok" => calls'[i].outcome = "ok" /\ calls'[i].rst = calls[i].rst
  <2>1. CASE i = cur
    BY <1>1, <1>2, <2>1
  <2>2. CASE i # cur
    BY <1>1, <2>2 DEF RecordInv
  <2> QED BY <2>1, <2>2
<1>4. RecordInv'
  BY <1>1, <1>2, <1>3, RecordInvKept
<1> QED BY <1>1, <1>4

\* The records a step leaves alone are kept.
LEMMA SameRecord ==
  ASSUME TypeOK, NEW i \in 1 .. Len(calls), calls'[i] = calls[i]
  PROVE  RecordKept(i)
<1>1. calls[i].buf \in Seq(Incoming)
  BY QueueTypes
<1>2. Suffix(calls[i].buf, calls'[i].buf)
  <2> DEFINE q == calls[i].buf
  <2>1. Suffix(q, q)
    <3>1. q \in Seq(Incoming)
      BY <1>1
    <3> HIDE DEF q
    <3> QED BY <3>1, SuffixSteps
  <2> QED BY <2>1
<1>3. \A p \in Parts : Part(p, i)' = Part(p, i)
  BY DEF Part
<1> QED BY <1>2, <1>3 DEF RecordKept

\* A step that leaves all calls alone.
LEMMA SameRecords ==
  ASSUME TypeOK, RecordInv, calls' = calls,
         pc' \in {"stream", "terminated"} =>
           calls[cur'].outcome = "streaming" /\ calls[cur'].readers > 0,
         pc' = "read" => pc = "read",
         pc \in Asking \cup {"read"} => cur' = cur /\ pc' \in Asking \cup {"read"}
  PROVE  /\ RecordInv' /\ Len(calls') = Len(calls)
         /\ \A i \in 1 .. Len(calls) : RecordKept(i)
<1>1. Len(calls) \in Nat /\ Len(calls') = Len(calls)
  BY QueueTypes
<1>2. \A i \in 1 .. Len(calls) : RecordKept(i)
  BY SameRecord
<1>3. \A i \in 1 .. Len(calls) :
           /\ Consistent(calls'[i]) /\ calls'[i].clean = calls[i].clean
           /\ calls'[i].outcome = "pending" => i = cur' /\ pc' \in Asking \cup {"read"}
           /\ calls'[i].readers <= 1 =>
                /\ calls[i].readers <= 1
                /\ calls[i].outcome = "ok" => calls'[i].outcome = "ok" /\ calls'[i].rst = calls[i].rst
  BY DEF RecordInv
<1>4. RecordInv'
  <2>1. pc' = "read" => ~calls'[cur'].stream
    BY DEF RecordInv
  <2> QED BY <1>1, <1>3, <2>1, RecordInvKept
<1> QED BY <1>1, <1>2, <1>4

\* Only the record of the call the thread is in is changed.
OnlyCurrent ==
  /\ pc # "idle"
  /\ \A i \in 1 .. Len(calls) : i # cur => calls'[i] = calls[i]

\* The records after a step of the next section: a part of a response can change in that of
\* the call the thread is in, or of one that gets another reader.
RecordsKept ==
  /\ Len(calls') = Len(calls) /\ RecordInv'
  /\ \A i \in 1 .. Len(calls) : RecordKept(i)
  /\ \/ calls' = calls \/ OnlyCurrent
     \/ \A i \in 1 .. Len(calls) :
          calls'[i].readers <= 1 =>
            calls'[i].answer = calls[i].answer /\ calls'[i].body = calls[i].body

\* The exception out of send_impl.
LEMMA FailsRecord ==
  ASSUME TypeOK, RecordInv, pc \in Asking \cup {"read"}, Fails
  PROVE  RecordsKept
<1>0. pc # "idle"
  BY DEF Asking
<1> DEFINE r == [calls[cur] EXCEPT !.outcome = "error", !.buf = <<>>]
<1>1. Becomes(r) /\ pc' = "idle" /\ cur' = 0
  BY DEF Fails
<1>2. /\ cur \in 1 .. Len(calls) /\ calls[cur] \in CallRecords /\ Consistent(calls[cur])
      /\ calls[cur].rst \in {"start", "body"} /\ calls[cur].outcome = "pending"
  BY <1>0, Underway DEF Asking
<1>3. r \in CallRecords
  BY <1>2, EmptySeq DEF CallRecords
<1>4. /\ r.outcome = "error" /\ r.buf = <<>>
      /\ r.clean = calls[cur].clean /\ r.served = calls[cur].served
      /\ r.secure = calls[cur].secure /\ r.stream = calls[cur].stream
      /\ r.readers = calls[cur].readers /\ r.chunked = calls[cur].chunked
      /\ r.answer = calls[cur].answer /\ r.body = calls[cur].body
      /\ r.rst = calls[cur].rst
  BY <1>2 DEF CallRecords
<1> HIDE DEF r
<1>5. Consistent(r)
  BY <1>2, <1>4 DEF Consistent
<1>6. /\ Len(calls') = Len(calls) /\ RecordInv'
      /\ \A i \in 1 .. Len(calls) : calls'[i] = IF i = cur THEN r ELSE calls[i]
  BY <1>0, <1>1, <1>3, <1>4, <1>5, RecordBecomes
<1>7. ASSUME NEW i \in 1 .. Len(calls) PROVE RecordKept(i)
  <2>1. CASE i = cur
    <3>1. Suffix(calls[i].buf, <<>>)
      BY QueueTypes, SuffixSteps
    <3>2. \A p \in Parts : Part(p, i)' = Part(p, i)
      BY <1>4, <1>6, <2>1 DEF Part
    <3> QED BY <1>4, <1>6, <2>1, <3>1, <3>2 DEF RecordKept
  <2> QED BY <1>6, <2>1, SameRecord
<1> QED BY <1>0, <1>6, <1>7 DEF RecordsKept, OnlyCurrent

\* The head of a response goes from the buffer to the record ...
LEMMA HeadRecord ==
  ASSUME TypeOK, RecordInv, WireInv, ParseHead PROVE RecordsKept
<1>0. /\ pc \in {"read", "stream"} /\ Buf # <<>> /\ Head(Buf).kind = "head"
      /\ UNCHANGED <<pc, cur>>
  BY DEF ParseHead, Reading
<1> DEFINE r == [calls[cur] EXCEPT !.buf = Tail(@), !.answer = Head(Buf).id, !.rst = "body"]
<1>1. Becomes(r) /\ calls[cur].rst = "start"
  BY DEF ParseHead
<1>2. /\ cur \in 1 .. Len(calls) /\ calls[cur] \in CallRecords /\ Consistent(calls[cur])
      /\ calls[cur].outcome = IF pc \in {"stream", "terminated"} THEN "streaming" ELSE "pending"
      /\ pc \in {"stream", "terminated"} =>
           calls[cur].outcome = "streaming" /\ calls[cur].readers > 0
      /\ pc = "read" => ~calls[cur].stream
  BY <1>0, Underway
<1>3. Buf = calls[cur].buf /\ Buf \in Seq(Incoming) /\ Tail(Buf) \in Seq(Incoming) /\ 1 \in 1 .. Len(Buf)
  BY <1>0, <1>2, BufType, EmptySeq, LenProperties DEF Buf
<1>4. Head(Buf) = Buf[1] /\ Head(Buf).id \in 1 .. Len(calls) /\ Head(Buf).id \in 0 .. MaxCalls
  <2>1. Head(Buf) = Buf[1]
    BY <1>0, <1>3, HeadTailProperties
  <2>2. Only(Buf, Responses, 1 .. Len(calls))
    BY <1>2, <1>3 DEF WireInv
  <2>3. Head(Buf).id \in 1 .. Len(calls)
    BY <1>0, <1>3, <2>1, <2>2 DEF Only, Responses
  <2> QED BY <1>0, <2>1, <2>3, BufType DEF Incoming, Messages
<1>5. r \in CallRecords
  BY <1>2, <1>3, <1>4 DEF CallRecords
<1>6. /\ r.outcome = calls[cur].outcome /\ r.buf = Tail(Buf)
      /\ r.clean = calls[cur].clean /\ r.served = calls[cur].served
      /\ r.secure = calls[cur].secure /\ r.stream = calls[cur].stream
      /\ r.readers = calls[cur].readers /\ r.chunked = calls[cur].chunked
      /\ r.answer = Head(Buf).id /\ r.body = calls[cur].body
      /\ r.rst = "body"
  BY <1>2, <1>3 DEF CallRecords
<1> HIDE DEF r
<1>7. Consistent(r)
  BY <1>0, <1>1, <1>2, <1>4, <1>6 DEF Consistent
<1>8. /\ Len(calls') = Len(calls) /\ RecordInv'
      /\ \A i \in 1 .. Len(calls) : calls'[i] = IF i = cur THEN r ELSE calls[i]
  <2>1. /\ pc' \in {"stream", "terminated"} =>
             cur' = cur /\ r.outcome = "streaming" /\ r.readers > 0
        /\ pc' = "read" => cur' = cur /\ ~r.stream
    BY <1>0, <1>2, <1>6
  <2>2. r.outcome = "pending" => cur' = cur /\ pc' \in Asking \cup {"read"}
    BY <1>0, <1>2, <1>6 DEF RecordInv
  <2> QED BY <1>0, <1>1, <1>5, <1>6, <1>7, <2>1, <2>2, RecordBecomes
<1>9. ASSUME NEW i \in 1 .. Len(calls) PROVE RecordKept(i)
  <2>1. CASE i = cur
    <3>1. Suffix(Buf, Tail(Buf))
      BY <1>0, <1>3, SuffixSteps
    <3>2. Part("head", i)' = Buf[1].id /\ Part("rest", i)' = Part("rest", i) /\ "rest" # "head"
      BY <1>4, <1>6, <1>8, <2>1 DEF Part
    <3>3. Buf[1].kind \in Kinds("head")
      BY <1>0, <1>4 DEF Kinds
    <3>4. \A p \in Parts :
            \/ Part(p, i)' = Part(p, i)
            \/ Buf[1].id = Part(p, i)' /\ Buf[1].kind \in Kinds(p)
      BY <3>2, <3>3 DEF Parts
    <3>5. calls[i].rst # "interim"
      BY <1>1, <2>1
    <3> QED BY <1>3, <1>6, <1>8, <2>1, <3>1, <3>4, <3>5 DEF RecordKept
  <2> QED BY <1>8, <2>1, SameRecord
<1> QED BY <1>0, <1>8, <1>9 DEF RecordsKept, OnlyCurrent

\* ... its rest, too, or a 1xx response goes there whole.
LEMMA CompleteRecord ==
  ASSUME TypeOK, RecordInv, WireInv, ParseRest \/ ParseInterim
  PROVE  RecordsKept
<1> DEFINE rst == IF ParseRest THEN "done" ELSE "interim"
<1>0. /\ pc \in {"read", "stream"} /\ Buf # <<>> /\ Complete(rst)
      /\ rst = "done" => Head(Buf).kind = "rest" /\ calls[cur].rst = "body"
      /\ rst = "interim" => Head(Buf).kind = "interim" /\ calls[cur].rst = "start"
      /\ rst \in {"done", "interim"}
  BY DEF ParseRest, ParseInterim, Reading
<1> HIDE DEF rst
<1> DEFINE r == [calls[cur] EXCEPT
                   !.buf = <<>>,
                   !.answer = IF rst = "interim" THEN Head(Buf).id ELSE @,
                   !.body = Head(Buf).id, !.rst = rst, !.outcome = "ok"]
<1>1. Becomes(r) /\ pc' = "idle"
  BY <1>0 DEF Complete
<1>2. /\ cur \in 1 .. Len(calls) /\ calls[cur] \in CallRecords /\ Consistent(calls[cur])
      /\ calls[cur].rst \in {"start", "body"}
      /\ calls[cur].outcome = IF pc = "stream" THEN "streaming" ELSE "pending"
      /\ pc = "stream" => calls[cur].readers > 0
      /\ pc = "read" => ~calls[cur].stream
  BY <1>0, Underway
<1>3. /\ Buf = calls[cur].buf /\ Buf \in Seq(Incoming) /\ Tail(Buf) \in Seq(Incoming)
      /\ 1 \in 1 .. Len(Buf) /\ <<>> \in Seq(Incoming)
  BY <1>0, <1>2, BufType, EmptySeq, LenProperties DEF Buf
<1>4. Head(Buf) = Buf[1] /\ Head(Buf).id \in 1 .. Len(calls) /\ Head(Buf).id \in 0 .. MaxCalls
  <2>1. Head(Buf) = Buf[1]
    BY <1>0, <1>3, HeadTailProperties
  <2>2. Only(Buf, Responses, 1 .. Len(calls))
    BY <1>2, <1>3 DEF WireInv
  <2>3. Head(Buf).id \in 1 .. Len(calls)
    BY <1>0, <1>3, <2>1, <2>2 DEF Only, Responses
  <2> QED BY <1>0, <2>1, <2>3, BufType DEF Incoming, Messages
<1>5. r \in CallRecords
  BY <1>0, <1>2, <1>3, <1>4 DEF CallRecords
<1>6. /\ r.outcome = "ok" /\ r.buf = <<>>
      /\ r.clean = calls[cur].clean /\ r.served = calls[cur].served
      /\ r.secure = calls[cur].secure /\ r.stream = calls[cur].stream
      /\ r.readers = calls[cur].readers /\ r.chunked = calls[cur].chunked
      /\ r.answer = IF rst = "interim" THEN Head(Buf).id ELSE calls[cur].answer
      /\ r.body = Head(Buf).id
      /\ r.rst = rst
  BY <1>2, <1>3 DEF CallRecords
<1> HIDE DEF r
<1>7. Consistent(r)
  BY <1>0, <1>2, <1>4, <1>6 DEF Consistent
<1>8. /\ Len(calls') = Len(calls) /\ RecordInv'
      /\ \A i \in 1 .. Len(calls) : calls'[i] = IF i = cur THEN r ELSE calls[i]
  BY <1>0, <1>1, <1>5, <1>6, <1>7, RecordBecomes
<1>9. ASSUME NEW i \in 1 .. Len(calls) PROVE RecordKept(i)
  <2>1. CASE i = cur
    <3>1. Suffix(Buf, r.buf)
      BY <1>0, <1>3, <1>6, SuffixSteps
    <3>2. /\ Part("rest", i)' = Buf[1].id /\ "rest" # "head"
          /\ Part("head", i)' = IF rst = "interim" THEN Buf[1].id ELSE Part("head", i)
      BY <1>4, <1>6, <1>8, <2>1 DEF Part
    <3>3. rst = "done" => Buf[1].kind \in Kinds("rest")
      BY <1>0, <1>4 DEF Kinds
    <3>4. calls'[i].rst = rst /\ calls[i].rst # "interim"
      BY <1>2, <1>6, <1>8, <2>1
    <3>5. \A p \in Parts :
            \/ Part(p, i)' = Part(p, i)
            \/ /\ Buf[1].id = Part(p, i)'
               /\ Buf[1].kind \in Kinds(p) \/ (Buf[1].kind = "interim" /\ calls'[i].rst = "interim")
      BY <1>0, <1>4, <3>2, <3>3, <3>4 DEF Parts
    <3> QED BY <1>3, <1>6, <1>8, <2>1, <3>1, <3>4, <3>5 DEF RecordKept
  <2> QED BY <1>8, <2>1, SameRecord
<1> QED BY <1>0, <1>8, <1>9 DEF RecordsKept, OnlyCurrent

\* An error in the body of a streamed response.
LEMMA StreamFailsRecord ==
  ASSUME TypeOK, RecordInv, StreamFails PROVE RecordsKept
<1> DEFINE r == [calls[cur] EXCEPT !.outcome = "error", !.buf = <<>>, !.rst = "failed"]
<1>1. pc # "idle" /\ Becomes(r) /\ pc' = "idle" /\ calls[cur].rst = "body"
  BY DEF StreamFails
<1>2. /\ cur \in 1 .. Len(calls) /\ calls[cur] \in CallRecords /\ Consistent(calls[cur])
      /\ calls[cur].body = 0
      /\ calls[cur].outcome = "streaming" /\ calls[cur].readers > 0
  BY <1>1, Underway DEF StreamFails
<1>3. r \in CallRecords
  BY <1>2, EmptySeq DEF CallRecords
<1>4. /\ r.outcome = "error" /\ r.buf = <<>>
      /\ r.clean = calls[cur].clean /\ r.served = calls[cur].served
      /\ r.secure = calls[cur].secure /\ r.stream = calls[cur].stream
      /\ r.readers = calls[cur].readers /\ r.chunked = calls[cur].chunked
      /\ r.answer = calls[cur].answer /\ r.body = calls[cur].body
      /\ r.rst = "failed"
  BY <1>2 DEF CallRecords
<1> HIDE DEF r
<1>5. Consistent(r)
  BY <1>1, <1>2, <1>4 DEF Consistent
<1>6. /\ Len(calls') = Len(calls) /\ RecordInv'
      /\ \A i \in 1 .. Len(calls) : calls'[i] = IF i = cur THEN r ELSE calls[i]
  BY <1>1, <1>3, <1>4, <1>5, RecordBecomes
<1>7. ASSUME NEW i \in 1 .. Len(calls) PROVE RecordKept(i)
  <2>1. CASE i = cur
    <3>1. Suffix(calls[i].buf, <<>>)
      BY QueueTypes, SuffixSteps
    <3>2. \A p \in Parts : Part(p, i)' = Part(p, i)
      BY <1>4, <1>6, <2>1 DEF Part
    <3>3. calls[i].rst # "interim"
      BY <1>1, <2>1
    <3> QED BY <1>4, <1>6, <2>1, <3>1, <3>2, <3>3 DEF RecordKept
  <2> QED BY <1>6, <2>1, SameRecord
<1> QED BY <1>1, <1>6, <1>7 DEF RecordsKept, OnlyCurrent

\* What a new reader makes of the record of a call, when it is the first: nothing new.
LEMMA ReopenedRecord ==
  ASSUME TypeOK, NEW i \in 1 .. Len(calls), calls[i].chunked, Consistent(calls[i]),
         NEW r, r = Reopened(calls[i])
  PROVE  /\ r \in CallRecords /\ Consistent(r) /\ r.readers > 0 /\ r.outcome = "streaming"
         /\ r.clean = calls[i].clean /\ r.served = calls[i].served
         /\ r.secure = calls[i].secure /\ r.stream = calls[i].stream
         /\ r.chunked /\ r.answer = 0 /\ r.body = 0 /\ r.buf = <<>> /\ r.rst = "start"
         /\ r.readers <= 1 => /\ calls[i].readers = 0 /\ calls[i].outcome = "streaming"
                              /\ calls[i].answer = 0 /\ calls[i].body = 0
<1>1. calls[i] \in CallRecords /\ calls[i].readers \in Nat /\ Len(calls) \in Nat
  BY QueueTypes DEF CallRecords
<1>2. 0 \in 0 .. MaxCalls /\ calls[i].readers + 1 \in Nat
  BY <1>1, CallsAssumption
<1>3. r \in CallRecords
  BY <1>1, <1>2, EmptySeq DEF CallRecords, Reopened
<1>4. /\ r.outcome = "streaming" /\ r.readers = calls[i].readers + 1
      /\ r.clean = calls[i].clean /\ r.served = calls[i].served
      /\ r.secure = calls[i].secure /\ r.stream = calls[i].stream
      /\ r.chunked = calls[i].chunked
      /\ r.answer = 0 /\ r.body = 0 /\ r.buf = <<>> /\ r.rst = "start"
  BY <1>1 DEF CallRecords, Reopened
<1>5. calls[i].stream
  BY DEF Consistent
<1>6. Consistent(r)
  BY <1>1, <1>4, <1>5 DEF Consistent
<1>7. calls[i].readers = 0 => /\ calls[i].outcome = "streaming"
                             /\ calls[i].answer = 0 /\ calls[i].body = 0
  BY DEF Consistent
<1> QED BY <1>1, <1>3, <1>4, <1>6, <1>7

\* A new reader.
LEMMA OpenRecord ==
  ASSUME TypeOK, RecordInv, StreamOpen PROVE RecordsKept
<1>1. PICK i \in 1 .. Len(calls) :
        calls[i].chunked /\ cur' = i /\ calls' = [calls EXCEPT ![i] = Reopened(calls[i])]
  BY DEF StreamOpen
<1>2. PICK r : r = Reopened(calls[i])
  OBVIOUS
<1>3. /\ r \in CallRecords /\ Consistent(r) /\ r.readers > 0 /\ r.outcome = "streaming"
      /\ r.clean = calls[i].clean /\ r.served = calls[i].served
      /\ r.secure = calls[i].secure /\ r.stream = calls[i].stream
      /\ r.answer = 0 /\ r.body = 0 /\ r.buf = <<>>
      /\ r.readers <= 1 => /\ calls[i].readers = 0 /\ calls[i].outcome = "streaming"
                           /\ calls[i].answer = 0 /\ calls[i].body = 0
  <2>1. Consistent(calls[i])
    BY DEF RecordInv
  <2> QED BY <1>1, <1>2, <2>1, ReopenedRecord
<1>4. /\ Len(calls) \in Nat /\ calls \in Seq(CallRecords)
      /\ Len(calls') = Len(calls)
      /\ \A j \in 1 .. Len(calls) : calls'[j] = IF j = i THEN r ELSE calls[j]
  BY <1>1, <1>2, <1>3, QueueTypes, CallsUpdate
<1>5. pc = "idle" /\ pc' = "stream"
  BY DEF StreamOpen
<1>6. RecordInv'
  <2>1. ASSUME NEW j \in 1 .. Len(calls)
        PROVE  /\ Consistent(calls'[j]) /\ calls'[j].clean = calls[j].clean
               /\ calls'[j].outcome = "pending" => j = cur' /\ pc' \in Asking \cup {"read"}
               /\ calls'[j].readers <= 1 =>
                    /\ calls[j].readers <= 1
                    /\ calls[j].outcome = "ok" => calls'[j].outcome = "ok" /\ calls'[j].rst = calls[j].rst
    <3>1. CASE j = i
      BY <1>3, <1>4, <3>1
    <3>2. CASE j # i
      BY <1>4, <1>5, <3>2 DEF RecordInv, Asking
    <3> QED BY <3>1, <3>2
  <2>2. calls'[cur'].outcome = "streaming" /\ calls'[cur'].readers > 0
    BY <1>1, <1>3, <1>4
  <2> QED BY <1>4, <1>5, <2>1, <2>2, RecordInvKept
<1>7. ASSUME NEW j \in 1 .. Len(calls) PROVE RecordKept(j)
  <2>1. CASE j = i
    <3>1. Suffix(calls[i].buf, <<>>)
      BY QueueTypes, SuffixSteps
    <3>2. \A p \in Parts : Part(p, i)' = 0
      BY <1>3, <1>4 DEF Part
    <3> QED BY <1>3, <1>4, <2>1, <3>1, <3>2 DEF RecordKept
  <2> QED BY <1>4, <2>1, SameRecord
<1>8. \A j \in 1 .. Len(calls) :
        calls'[j].readers <= 1 =>
          calls'[j].answer = calls[j].answer /\ calls'[j].body = calls[j].body
  BY <1>3, <1>4
<1> QED BY <1>4, <1>6, <1>7, <1>8 DEF RecordsKept

-----------------------------------------------------------------------------
(* The steps that are such *)

\* What the queues are after a step that leaves them alone or empties them.
LEMMA QueuesLeft ==
  ASSUME TypeOK
  PROVE  /\ Suffix(c2s, c2s) /\ Suffix(c2s, <<>>) /\ Suffix(s2c, s2c) /\ Suffix(s2c, <<>>)
         /\ c2s # <<>> => Suffix(c2s, Tail(c2s))
         /\ s2c # <<>> => Suffix(s2c, Tail(s2c))
         /\ \A k \in 1 .. Len(s2c) : Suffix(s2c, SubSeq(s2c, k + 1, Len(s2c)))
BY QueueTypes, SuffixSteps

\* The steps of send and send_secure that leave the calls alone.
LEMMA SetupLocal ==
  ASSUME TypeOK, RecordInv, Connect \/ Hello \/ HandshakeDone
  PROVE  RecordsKept /\ Local
<1>1. /\ calls' = calls /\ cur' = cur
      /\ pc \in Asking /\ pc' \in {"hello", "handshake", "write"}
  BY DEF Connect, Connected, Hello, HandshakeDone, Asking
<1>2. RecordsKept
  <2>1. pc' \in Asking \cup {"read"} /\ pc' \notin {"stream", "terminated"}
    BY <1>1 DEF Asking
  <2> QED BY <1>1, <2>1, SameRecords DEF RecordsKept
<1>3. \/ Suffix(c2s, c2s')
      \/ \E m \in Outgoing : m.kind # "req" /\ c2s' = Append(c2s, m)
  <2>1. CASE Hello
    <3>1. c2s' = c2s \/ c2s' = Append(c2s, ToServer("hello", FALSE, cur))
      BY <2>1 DEF Hello
    <3>2. ToServer("hello", FALSE, cur) \in Outgoing /\ ToServer("hello", FALSE, cur).kind # "req"
      <4>1. cur \in 0 .. MaxCalls
        BY <1>1, Current DEF Asking
      <4> QED BY <4>1, MessageTypes DEF ToServerKinds, ToServer
    <3> QED BY <3>1, <3>2, QueuesLeft
  <2>2. CASE Connect \/ HandshakeDone
    BY <2>2, QueuesLeft DEF Connect, HandshakeDone
  <2> QED BY <2>1, <2>2
<1>4. Suffix(s2c, s2c')
  BY QueuesLeft DEF Connect, Hello, HandshakeDone
<1> QED BY <1>1, <1>2, <1>3, <1>4 DEF RecordsKept, Local

\* The steps that leave send or send_secure by an exception.
LEMMA FailsLocal ==
  ASSUME TypeOK, RecordInv,
         ConnectFails \/ SetupFails \/ HandshakeRefused \/ HandshakeFails \/ WriteFails \/ ReadFails
  PROVE  /\ RecordsKept /\ Local /\ conn' = conn /\ Suffix(s2c, s2c') /\ pc' = "idle"
<1>1. pc \in Asking \cup {"read"} /\ Fails /\ conn' = conn
  BY DEF ConnectFails, SetupFails, HandshakeRefused, HandshakeFails, WriteFails, ReadFails, Asking,
         wireVars
<1>2. RecordsKept /\ pc' = "idle"
  BY <1>1, FailsRecord DEF Fails
<1>3. \/ Suffix(c2s, c2s')
      \/ \E m \in Outgoing : m.kind # "req" /\ c2s' = Append(c2s, m)
  <2>1. CASE HandshakeRefused
    <3>1. c2s' = c2s \/ c2s' = Append(c2s, ToServer("alert", FALSE, cur))
      BY <2>1 DEF HandshakeRefused
    <3>2. ToServer("alert", FALSE, cur) \in Outgoing /\ ToServer("alert", FALSE, cur).kind # "req"
      <4>1. cur \in 0 .. MaxCalls
        BY <1>1, Current DEF Asking
      <4> QED BY <4>1, MessageTypes DEF ToServerKinds, ToServer
    <3> QED BY <3>1, <3>2, QueuesLeft
  <2>2. CASE ConnectFails \/ SetupFails \/ HandshakeFails \/ WriteFails \/ ReadFails
    BY <2>2, QueuesLeft DEF ConnectFails, SetupFails, HandshakeFails, WriteFails, ReadFails, wireVars
  <2> QED BY <2>1, <2>2
<1>4. Suffix(s2c, s2c')
  BY QueuesLeft DEF ConnectFails, SetupFails, HandshakeRefused, HandshakeFails, WriteFails,
                    ReadFails, wireVars
<1> QED BY <1>1, <1>2, <1>3, <1>4 DEF RecordsKept, Local, Asking

\* The steps of a reader that take nothing off the connection.
LEMMA ReaderLocal ==
  ASSUME TypeOK, RecordInv, WireInv,
         ParseHead \/ ParseRest \/ ParseInterim \/ StreamFails \/ StreamTerminates
           \/ StreamOpen \/ StreamBegin \/ StreamLeave
  PROVE  RecordsKept /\ Local /\ UNCHANGED wireVars /\ pc' \notin Asking
<1>1. UNCHANGED wireVars /\ pc' \notin Asking
  BY DEF ParseHead, ParseRest, ParseInterim, Complete, StreamFails, StreamTerminates,
         StreamOpen, StreamBegin, StreamLeave, wireVars, Reading, Asking
<1>2. RecordsKept
  <2>1. CASE StreamTerminates
    <3>1. calls' = calls /\ pc = "stream" /\ pc' = "terminated" /\ cur' = cur
      BY <2>1 DEF StreamTerminates
    <3> QED BY <3>1, SameRecords DEF RecordsKept, RecordInv, Asking
  <2>2. CASE StreamBegin
    <3>1. /\ calls' = calls /\ pc = "idle" /\ pc' = "stream"
          /\ calls[cur'].outcome = "streaming" /\ calls[cur'].readers > 0
      BY <2>2 DEF StreamBegin
    <3> QED BY <3>1, SameRecords DEF RecordsKept, Asking
  <2>3. CASE StreamLeave
    <3>1. calls' = calls /\ pc = "stream" /\ pc' = "idle"
      BY <2>3 DEF StreamLeave
    <3> QED BY <3>1, SameRecords DEF RecordsKept, Asking
  <2> QED BY <2>1, <2>2, <2>3, HeadRecord, CompleteRecord, StreamFailsRecord, OpenRecord
<1>3. Suffix(c2s, c2s') /\ Suffix(s2c, s2c')
  BY <1>1, QueuesLeft DEF wireVars
<1> QED BY <1>1, <1>2, <1>3 DEF RecordsKept, Local

\* The steps of the peer that serve no request.
LEMMA PeerLocal ==
  ASSUME TypeOK, RecordInv, ServeHello \/ ServeJunk \/ ServerCloses \/ UNCHANGED vars
  PROVE  RecordsKept /\ Local
<1>1. UNCHANGED <<calls, pc, cur>>
  BY DEF ServeHello, ServeJunk, ServerCloses, vars
<1>2. RecordsKept
  BY <1>1, SameRecords DEF RecordsKept, RecordInv
<1>3. Suffix(c2s, c2s')
  BY QueuesLeft DEF ServeHello, ServeJunk, ServerCloses, vars
<1>4. \/ Suffix(s2c, s2c')
      \/ \E m \in Incoming : m.kind \in {"hello", "junk"} /\ s2c' = Append(s2c, m)
  <2>1. CASE ServeHello
    <3> DEFINE m == ToClient("hello", FALSE, Head(c2s).id)
    <3>1. s2c' = Append(s2c, m) /\ Head(c2s) \in Outgoing
      BY <2>1, QueueTypes, HeadTailProperties DEF ServeHello
    <3>2. m \in Incoming /\ m.kind = "hello"
      BY <3>1, MessageTypes DEF Outgoing, Messages, ToClient
    <3> QED BY <3>1, <3>2
  <2>2. CASE ServeJunk
    <3>1. s2c' = s2c \/ s2c' = Append(s2c, ToClient("junk", FALSE, 0))
      BY <2>2 DEF ServeJunk
    <3>2. ToClient("junk", FALSE, 0) \in Incoming /\ ToClient("junk", FALSE, 0).kind = "junk"
      <4>1. 0 \in 0 .. MaxCalls /\ FALSE \in BOOLEAN
        BY CallsAssumption
      <4> QED BY <4>1, MessageTypes DEF ToClient
    <3> QED BY <3>1, <3>2, QueuesLeft
  <2>3. CASE ServerCloses \/ UNCHANGED vars
    BY <2>3, QueuesLeft DEF ServerCloses, vars
  <2> QED BY <2>1, <2>2, <2>3
<1> QED BY <1>1, <1>2, <1>3, <1>4 DEF RecordsKept, Local

\* What such a step keeps.
LEMMA LocalKeeps ==
  ASSUME ResponseInv, TypeOK', RecordsKept, Local
  PROVE  WireInv' /\ OnceInv' /\ RecordInv' /\ OwnInv' /\ OwnResponse'
<1> USE DEF ResponseInv, PlacesInv, AdapterInv
<1>1. WireInv' /\ OnceInv' /\ RecordInv' /\ OwnInv'
  BY LocalWire, LocalOnce, LocalOwn DEF RecordsKept
<1>2. ASSUME NEW i \in 1 .. Len(calls)
      PROVE  /\ calls'[i].clean = calls[i].clean /\ calls'[i].stream = calls[i].stream
             /\ calls'[i].readers <= 1 => calls[i].readers <= 1
             /\ \/ calls'[i].readers <= 1 =>
                     calls'[i].answer = calls[i].answer /\ calls'[i].body = calls[i].body
                \/ i = cur /\ calls[i].outcome \in {"pending", "streaming"}
  <2>1. RecordKept(i)
    BY DEF Local
  <2>2. CASE calls' = calls
    BY <2>2
  <2>3. CASE OnlyCurrent
    BY <2>1, <2>3, Underway DEF OnlyCurrent, RecordKept
  <2> QED BY <2>1, <2>2, <2>3 DEF RecordsKept, RecordKept
<1>3. OwnResponse'
  BY <1>1, <1>2, OwnResponseKept DEF Local
<1> QED BY <1>1, <1>3

\* The three steps that begin a connection, answer its ClientHello and take the ServerHello.
LEMMA ConnectHello ==
  ASSUME TypeOK, HostInv, HelloInv, Connect PROVE HelloInv'
<1>1. /\ pc = "connect" /\ s2c' = <<>> /\ c2s' = <<>> /\ calls' = calls /\ cur' = cur
      /\ pc' = IF calls[cur].secure THEN "hello" ELSE "write"
  BY DEF Connect, Connected
<1>2. 1 .. Len(<<>>) = {}
  BY EmptySeq
<1>3. \A i \in 1 .. Len(calls') : ~Shaken(i)'
  BY <1>1, <1>2 DEF Shaken, Carries, HostInv
<1> QED BY <1>1, <1>2, <1>3 DEF HelloInv

\* The ServerHello of a connection is sent before any call has shaken hands.
LEMMA ServeHelloHello ==
  ASSUME TypeOK, TypeOK', HelloInv, Local, ServeHello PROVE HelloInv'
<1>1. /\ conn = "fresh" /\ conn' = "tls" /\ pc' = pc
      /\ s2c' = Append(s2c, ToClient("hello", FALSE, Head(c2s).id))
  BY DEF ServeHello, Understood
<1>2. \A i \in 1 .. Len(calls') : ~Shaken(i)'
  BY <1>1, LocalShaken DEF HelloInv, Local
<1>3. ASSUME NEW n \in 1 .. Len(s2c'), s2c'[n].kind = "hello" PROVE n = Len(s2c) + 1
  <2> DEFINE m == ToClient("hello", FALSE, Head(c2s).id)
  <2>0. m \in Incoming
    <3>1. Head(c2s) \in Outgoing
      BY QueueTypes, HeadTailProperties DEF ServeHello
    <3> QED BY <3>1, MessageTypes DEF Outgoing, Messages
  <2>1. s2c' = Append(s2c, m) /\ s2c \in Seq(Incoming) /\ Len(s2c) \in Nat
    BY <1>1, QueueTypes, LenProperties
  <2> HIDE DEF m
  <2>2. Len(s2c') = Len(s2c) + 1 /\ \A l \in 1 .. Len(s2c) : s2c'[l] = s2c[l]
    BY <2>0, <2>1, AppendProperties
  <2>3. \A l \in 1 .. Len(s2c) : s2c[l].kind # "hello"
    BY <1>1 DEF HelloInv
  <2> QED BY <1>3, <2>1, <2>2, <2>3
<1> QED BY <1>1, <1>2, <1>3 DEF HelloInv

\* The call that takes the ServerHello is the first and only one to have shaken hands.
LEMMA HandshakeHello ==
  ASSUME TypeOK, TypeOK', HelloInv, Local, HandshakeDone PROVE HelloInv'
<1>1. /\ s2c # <<>> /\ Head(s2c).kind = "hello" /\ s2c' = Tail(s2c) /\ pc' = "write"
      /\ UNCHANGED <<cur, conn, calls, c2s>> /\ pc # "idle"
  BY DEF HandshakeDone
<1>2. /\ Len(s2c) \in Nat /\ 1 \in 1 .. Len(s2c) /\ s2c[1] = Head(s2c)
      /\ Len(s2c') = Len(s2c) - 1 /\ \A n \in 1 .. Len(s2c') : s2c'[n] = s2c[n + 1]
  BY <1>1, QueueTypes, LenProperties, HeadTailProperties, EmptySeq
<1>3. \A i \in 1 .. Len(calls) : ~Shaken(i)
  BY <1>1, <1>2 DEF HelloInv
<1>4. \A n \in 1 .. Len(s2c') : s2c'[n].kind # "hello"
  <2>1. SUFFICES ASSUME NEW n \in 1 .. Len(s2c'), s2c'[n].kind = "hello" PROVE FALSE
    OBVIOUS
  <2>2. n + 1 \in 1 .. Len(s2c) /\ n + 1 # 1 /\ s2c[n + 1].kind = "hello"
    BY <1>2, <2>1
  <2> QED BY <1>1, <1>2, <2>2 DEF HelloInv
<1>5. \A i \in 1 .. Len(calls') : Shaken(i)' => i = cur
  BY <1>1, <1>3 DEF Shaken
<1>6. conn' \notin {"none", "fresh"}
  BY <1>1, <1>2 DEF HelloInv
<1> QED BY <1>4, <1>5, <1>6 DEF HelloInv

\* All the steps of the section.
LEMMA LocalSteps ==
  ASSUME ResponseInv, TypeOK', HostInv',
         \/ Connect \/ Hello \/ HandshakeDone
         \/ ConnectFails \/ SetupFails \/ HandshakeRefused \/ HandshakeFails
         \/ WriteFails \/ ReadFails
         \/ ParseHead \/ ParseRest \/ ParseInterim \/ StreamFails \/ StreamTerminates
         \/ StreamOpen \/ StreamBegin \/ StreamLeave
         \/ ServeHello \/ ServeJunk \/ ServerCloses \/ UNCHANGED vars
  PROVE  ResponseInv'
<1> USE DEF ResponseInv, PlacesInv, AdapterInv
<1>1. RecordsKept /\ Local
  BY SetupLocal, FailsLocal, ReaderLocal, PeerLocal
<1>2. WireInv' /\ OnceInv' /\ RecordInv' /\ OwnInv' /\ OwnResponse'
  BY <1>1, LocalKeeps
<1>3. \A q : Suffix(s2c, q) /\ q \in Seq(Incoming) => Kept(s2c, q, {"hello"})
  BY QueueTypes, SuffixKept
<1>4. s2c' \in Seq(Incoming)
  BY NextQueueTypes
<1>5. HelloInv'
  <2>1. CASE Connect \/ HandshakeDone \/ ServeHello
    BY <1>1, <2>1, ConnectHello, HandshakeHello, ServeHelloHello
  <2>2. CASE Hello
    <3>1. Suffix(s2c, s2c') /\ conn' = conn /\ pc' # "write"
      BY <2>2, QueuesLeft DEF Hello
    <3> QED BY <1>1, <1>3, <1>4, <3>1, LocalHello
  <2>3. CASE ConnectFails \/ SetupFails \/ HandshakeRefused \/ HandshakeFails \/ WriteFails
               \/ ReadFails
    BY <1>1, <1>3, <1>4, <2>3, FailsLocal, LocalHello
  <2>4. CASE ParseHead \/ ParseRest \/ ParseInterim \/ StreamFails \/ StreamTerminates
               \/ StreamOpen \/ StreamBegin \/ StreamLeave
    <3>1. Suffix(s2c, s2c') /\ conn' = conn /\ pc' # "write"
      BY <2>4, QueuesLeft, ReaderLocal DEF wireVars, Asking
    <3> QED BY <1>1, <1>3, <1>4, <3>1, LocalHello
  <2>5. CASE ServeJunk
    <3>1. Kept(s2c, s2c', {"hello"})
      <4>1. s2c' = s2c \/ s2c' = Append(s2c, ToClient("junk", FALSE, 0))
        BY <2>5 DEF ServeJunk
      <4>2. ToClient("junk", FALSE, 0) \in Incoming /\ ToClient("junk", FALSE, 0).kind \notin {"hello"}
        <5>1. 0 \in 0 .. MaxCalls /\ FALSE \in BOOLEAN
          BY CallsAssumption
        <5> QED BY <5>1, MessageTypes DEF ToClient
      <4>3. s2c' = s2c => Suffix(s2c, s2c')
        BY QueuesLeft
      <4> QED BY <1>3, <1>4, <4>1, <4>2, <4>3, QueueTypes, AppendKept
    <3>2. conn' = "gone" /\ pc' = pc
      BY <2>5 DEF ServeJunk
    <3> QED BY <1>1, <3>1, <3>2, LocalHello
  <2>6. CASE ServerCloses \/ UNCHANGED vars
    <3>1. Suffix(s2c, s2c') /\ conn' \in {conn, "gone"} /\ pc' = pc
      BY <2>6, QueuesLeft DEF ServerCloses, vars
    <3> QED BY <1>1, <1>3, <1>4, <3>1, LocalHello
  <2> QED BY <2>1, <2>2, <2>3, <2>4, <2>5, <2>6
<1> QED BY <1>2, <1>5

-----------------------------------------------------------------------------
(* The step that writes a request *)

\* write puts the request of the call on the connection, once.
LEMMA WriteStep ==
  ASSUME ResponseInv, TypeOK', Write
  PROVE  WireInv' /\ OnceInv' /\ RecordInv' /\ OwnInv' /\ HelloInv' /\ OwnResponse'
<1> USE DEF ResponseInv, PlacesInv, AdapterInv
<1> DEFINE m == ToServer("req", calls[cur].secure, cur)
           w == <<m>>
           r == Marked(calls[cur])
<1>1. /\ pc = "write" /\ c2s' = Written(w) /\ Becomes(r)
      /\ pc' = IF calls[cur].stream THEN "idle" ELSE "read"
      /\ cur' = IF calls[cur].stream THEN 0 ELSE cur
      /\ UNCHANGED <<conn, s2c>>
  BY DEF Write
<1>2. /\ cur \in 1 .. Len(calls) /\ calls[cur] \in CallRecords /\ Consistent(calls[cur])
      /\ calls[cur].outcome = "pending" /\ cur = Len(calls) /\ Len(calls) \in Nat
      /\ calls[cur].rst \in {"start", "body"} /\ calls[cur].body = 0
      /\ cur \in 0 .. MaxCalls
  BY <1>1, Underway, Current
<1>3. r \in CallRecords
  BY <1>2 DEF CallRecords, Marked
<1>4. /\ r.outcome = IF calls[cur].stream THEN "streaming" ELSE "pending"
      /\ r.clean = calls[cur].clean /\ r.served = calls[cur].served
      /\ r.secure = calls[cur].secure /\ r.stream = calls[cur].stream
      /\ r.readers = calls[cur].readers /\ r.chunked = (calls[cur].chunked \/ calls[cur].stream)
      /\ r.answer = calls[cur].answer /\ r.body = calls[cur].body
      /\ r.rst = calls[cur].rst /\ r.buf = calls[cur].buf
  BY <1>2 DEF CallRecords, Marked
<1>5. m \in Outgoing /\ m.kind = "req" /\ m.id = cur
  BY <1>2, MessageTypes DEF ToServerKinds, ToServer, CallRecords
<1> HIDE DEF m, r
<1>6. /\ w \in Seq(Outgoing) /\ c2s \in Seq(Outgoing)
      /\ \A ks, k : Carries(w, ks, k) => k = cur
      /\ Only(w, {"req"}, {cur}) /\ \A ks : Once(w, ks)
  BY <1>5, QueueTypes DEF Carries, Only, Once
<1> HIDE DEF w
<1>7. /\ \A k : Carries(c2s', {"req"}, k) => Carries(c2s, {"req"}, k) \/ k = cur
      /\ \A ids : Only(c2s, {"req"}, ids) /\ cur \in ids => Only(c2s', {"req"}, ids)
      /\ Once(c2s', {"req"})
  <2>1. c2s' = c2s \/ c2s' = c2s \o w
    BY <1>1 DEF Written
  <2>2. Once(c2s, {"req"}) /\ ~Carries(c2s, {"req"}, cur)
    BY <1>1 DEF OnceInv, Asking
  <2>3. CASE c2s' = c2s
    BY <2>2, <2>3
  <2>4. CASE c2s' = c2s \o w
    <3>1. \A k : Carries(c2s, {"req"}, k) => ~Carries(w, {"req"}, k)
      BY <1>6, <2>2
    <3>2. \A ids : cur \in ids => Only(w, {"req"}, ids)
      BY <1>6 DEF Only
    <3> QED BY <1>6, <2>2, <2>4, <3>1, <3>2, ConcatQueues
  <2> QED BY <2>1, <2>3, <2>4
<1>8. Consistent(r)
  BY <1>2, <1>3, <1>4 DEF Consistent, CallRecords
<1>9. /\ Len(calls') = Len(calls) /\ RecordInv'
      /\ \A i \in 1 .. Len(calls) : calls'[i] = IF i = cur THEN r ELSE calls[i]
  BY <1>1, <1>3, <1>4, <1>8, RecordBecomes
<1>10. \A i \in 1 .. Len(calls) :
         /\ calls'[i].clean = calls[i].clean /\ calls'[i].served = calls[i].served
         /\ calls'[i].secure = calls[i].secure /\ calls'[i].stream = calls[i].stream
         /\ calls'[i].answer = calls[i].answer /\ calls'[i].body = calls[i].body
         /\ calls'[i].rst = calls[i].rst /\ calls'[i].buf = calls[i].buf
         /\ calls'[i].readers = calls[i].readers
  BY <1>4, <1>9
<1>11. WireInv'
  BY <1>1, <1>2, <1>7, <1>9, <1>10 DEF WireInv
<1>12. OnceInv'
  <2>1. ASSUME NEW p \in Parts, NEW k \in 1 .. Len(calls)
        PROVE  /\ Asked(k)' => Asked(k)
               /\ OnWire(p, k)' <=> OnWire(p, k)
               /\ \A i \in 1 .. Len(calls) : Has(p, i, k)' <=> Has(p, i, k)
    <3>1. Asked(k)' => Asked(k)
      BY <1>1, <1>7 DEF Asked, Asking
    <3>2. \A i \in 1 .. Len(calls) : Has(p, i, k)' <=> Has(p, i, k)
      BY <1>10 DEF Has, Part
    <3> QED BY <1>1, <3>1, <3>2 DEF OnWire
  <2>2. pc' \notin Asking
    BY <1>1 DEF Asking
  <2> QED BY <1>1, <1>7, <1>9, <2>1, <2>2 DEF OnceInv
<1>13. OwnInv'
  <2>1. \A n : n = Len(calls) => n \in 1 .. Len(calls) /\ cur \in {n}
    BY <1>2
  <2>2. ReadOnce' => ReadOnce
    BY <1>9, <1>10 DEF ReadOnce
  <2> QED BY <1>1, <1>7, <1>9, <1>10, <2>1, <2>2 DEF OwnInv
<1>14. OwnResponse'
  BY <1>9, <1>10, <1>13, OwnResponseKept
<1>15. HelloInv'
  <2>1. Kept(s2c, s2c', {"hello"})
    BY <1>1, QueueTypes, QueuesLeft, SuffixKept
  <2>2. \A i \in 1 .. Len(calls') : Shaken(i)' => i \in 1 .. Len(calls) /\ Shaken(i)
    BY <1>1, <1>7, <1>9, <1>10 DEF Shaken
  <2> QED BY <1>1, <2>1, <2>2, HelloKept
<1> QED BY <1>9, <1>11, <1>12, <1>13, <1>14, <1>15

-----------------------------------------------------------------------------
(* The step that takes messages off the connection *)

\* read_some moves the first messages of the connection to the buffer.
LEMMA ReceiveStep ==
  ASSUME ResponseInv, TypeOK', Receive
  PROVE  WireInv' /\ OnceInv' /\ RecordInv' /\ OwnInv' /\ HelloInv' /\ OwnResponse'
<1> USE DEF ResponseInv, PlacesInv, AdapterInv
<1>1. PICK l \in 1 .. Len(s2c) :
        /\ Becomes([calls[cur] EXCEPT !.buf = [n \in 1 .. l |-> Received(s2c[n])]])
        /\ s2c' = SubSeq(s2c, l + 1, Len(s2c))
  BY DEF Receive
<1> DEFINE w == [n \in 1 .. l |-> Received(s2c[n])]
           r == [calls[cur] EXCEPT !.buf = w]
<1>2. /\ pc # "idle" /\ Becomes(r) /\ UNCHANGED <<pc, cur, conn, c2s>>
      /\ calls[cur].buf = <<>> /\ pc \in {"read", "stream"}
  BY <1>1 DEF Receive, Reading, Buf
<1>3. /\ cur \in 1 .. Len(calls) /\ calls[cur] \in CallRecords /\ Consistent(calls[cur])
      /\ pc = "stream" => calls[cur].outcome = "streaming" /\ calls[cur].readers > 0
      /\ pc = "read" => ~calls[cur].stream
      /\ Len(calls) \in Nat
  BY <1>2, Underway, QueueTypes
<1>4. s2c \in Seq(Incoming) /\ s2c' \in Seq(Incoming) /\ Len(s2c) \in Nat /\ l \in Nat
  BY QueueTypes, NextQueueTypes, LenProperties
<1>5. \A n \in 1 .. l : /\ n \in 1 .. Len(s2c) /\ w[n] \in Incoming
                        /\ w[n].id = s2c[n].id /\ w[n].kind \in {s2c[n].kind, "junk"}
  <2>1. \A t \in Incoming : /\ Received(t) \in Incoming /\ Received(t).id = t.id
                            /\ Received(t).kind \in {t.kind, "junk"}
    BY DEF Received, Incoming, Messages
  <2>2. \A n \in 1 .. l : n \in 1 .. Len(s2c) /\ s2c[n] \in Incoming
    BY <1>4, ElementOfSeq
  <2> QED BY <2>1, <2>2
<1>6. w \in Seq(Incoming) /\ Len(w) = l
  BY <1>4, <1>5, SeqDef, LenProperties
<1> HIDE DEF w
<1>7. r \in CallRecords
  BY <1>3, <1>6 DEF CallRecords
<1>8. /\ r.outcome = calls[cur].outcome /\ r.buf = w
      /\ r.clean = calls[cur].clean /\ r.served = calls[cur].served
      /\ r.secure = calls[cur].secure /\ r.stream = calls[cur].stream
      /\ r.readers = calls[cur].readers /\ r.chunked = calls[cur].chunked
      /\ r.answer = calls[cur].answer /\ r.body = calls[cur].body
      /\ r.rst = calls[cur].rst
  BY <1>3 DEF CallRecords
<1> HIDE DEF r
<1>9. Consistent(r)
  BY <1>3, <1>8 DEF Consistent
<1>10. /\ Len(calls') = Len(calls) /\ RecordInv'
       /\ \A i \in 1 .. Len(calls) : calls'[i] = IF i = cur THEN r ELSE calls[i]
  <2>1. r.outcome = "pending" => cur' = cur /\ pc' \in Asking \cup {"read"}
    BY <1>2, <1>3, <1>8
  <2>2. /\ pc' \in {"stream", "terminated"} =>
             cur' = cur /\ r.outcome = "streaming" /\ r.readers > 0
        /\ pc' = "read" => cur' = cur /\ ~r.stream
    BY <1>2, <1>3, <1>8
  <2> QED BY <1>2, <1>7, <1>8, <1>9, <2>1, <2>2, RecordBecomes
<1>11. \A i \in 1 .. Len(calls) :
         /\ calls'[i].clean = calls[i].clean /\ calls'[i].served = calls[i].served
         /\ calls'[i].secure = calls[i].secure /\ calls'[i].stream = calls[i].stream
         /\ calls'[i].answer = calls[i].answer /\ calls'[i].body = calls[i].body
         /\ calls'[i].rst = calls[i].rst /\ calls'[i].readers = calls[i].readers
         /\ calls'[i].buf = IF i = cur THEN w ELSE calls[i].buf
  BY <1>8, <1>10
<1>12. /\ Suffix(s2c, s2c') /\ Fewer(s2c, s2c', Responses)
       /\ Followed(s2c) => Followed(s2c')
  BY <1>1, <1>4, QueuesLeft, SuffixKept, KeptFewer, SuffixFollowed
<1>13. \A ks \in SUBSET Responses :
         /\ \A k : Carries(w, ks, k) => Carries(s2c, ks, k)
         /\ \A ids : Only(s2c, ks, ids) => Only(w, ks, ids)
  <2>1. "junk" \notin Responses
    BY DEF Responses
  <2> QED BY <1>5, <1>6, <2>1 DEF Carries, Only
<1>14. \A ks \in SUBSET Responses : \A k :
         Once(s2c, ks) /\ Carries(w, ks, k) => ~Carries(s2c', ks, k)
  <2>1. SUFFICES ASSUME NEW ks \in SUBSET Responses, NEW k, Once(s2c, ks),
                        NEW n \in 1 .. Len(w), w[n].kind \in ks, w[n].id = k,
                        NEW m \in 1 .. Len(s2c'), s2c'[m].kind \in ks, s2c'[m].id = k
                 PROVE  FALSE
    BY DEF Carries
  <2>2. n \in 1 .. Len(s2c) /\ n <= l /\ s2c[n].kind \in ks /\ s2c[n].id = k
    BY <1>4, <1>5, <1>6, <2>1 DEF Responses
  <2>3. m + l \in 1 .. Len(s2c) /\ s2c'[m] = s2c[m + l] /\ m > 0
    <3> DEFINE q == s2c
               e == q[m + l]
    <3>1. /\ Len(s2c') = IF l + 1 <= Len(q) THEN Len(q) - (l + 1) + 1 ELSE 0
          /\ \A j \in 1 .. Len(q) - (l + 1) + 1 : s2c'[j] = q[(l + 1) + j - 1]
      BY <1>1, <1>4, SubSeqProperties, SMTT(30)
    <3>2. m \in Nat /\ m > 0 /\ m <= Len(q) - l
      BY <1>4, <2>1, <3>1
    <3>3. m \in 1 .. Len(q) - (l + 1) + 1 /\ (l + 1) + m - 1 = m + l
      BY <1>4, <3>2
    <3> QED BY <1>4, <3>1, <3>2, <3>3
  <2>4. n = m + l
    BY <2>1, <2>2, <2>3 DEF Once
  <2> QED BY <1>4, <2>2, <2>3, <2>4
<1>15. WireInv'
  <2>1. Responses \in SUBSET Responses
    OBVIOUS
  <2> QED BY <1>2, <1>10, <1>11, <1>12, <1>13, <2>1 DEF WireInv, Fewer
<1>16. OnceInv'
  <2>1. \A p \in Parts : Kinds(p) \in SUBSET Responses
    BY DEF Parts, Kinds, Responses
  <2>2. \A k : Asked(k)' <=> Asked(k)
    BY <1>2 DEF Asked
  <2>3. ASSUME NEW p \in Parts, NEW k
        PROVE  /\ OnWire(p, k)' => OnWire(p, k)
               /\ \A i \in 1 .. Len(calls) :
                    Has(p, i, k)' => \/ Has(p, i, k)
                                     \/ i = cur /\ OnWire(p, k) /\ ~OnWire(p, k)'
    <3>1. OnWire(p, k)' => OnWire(p, k)
      BY <1>12, <2>1 DEF OnWire, Fewer
    <3>2. ASSUME NEW i \in 1 .. Len(calls), Has(p, i, k)'
          PROVE  Has(p, i, k) \/ (i = cur /\ OnWire(p, k) /\ ~OnWire(p, k)')
      <4>1. CASE calls'[i].rst # "interim" /\ Part(p, i)' = k
        BY <1>11, <4>1 DEF Has, Part
      <4>2. CASE Carries(calls'[i].buf, Kinds(p), k) /\ i # cur
        BY <1>11, <4>2 DEF Has
      <4>3. CASE Carries(calls'[i].buf, Kinds(p), k) /\ i = cur
        <5>1. Carries(w, Kinds(p), k) /\ Once(s2c, Kinds(p)) /\ Kinds(p) \in SUBSET Responses
          BY <1>11, <2>1, <4>3 DEF OnceInv
        <5>2. Carries(s2c, Kinds(p), k) /\ ~Carries(s2c', Kinds(p), k)
          BY <1>13, <1>14, <5>1
        <5> QED BY <4>3, <5>2 DEF OnWire
      <4> QED BY <3>2, <4>1, <4>2, <4>3 DEF Has
    <3> QED BY <3>1, <3>2
  <2>4. \A p \in Parts : Once(s2c', Kinds(p))
    BY <1>12, <2>1 DEF Fewer, OnceInv
  <2>5. Once(c2s', {"req"}) /\ pc' \notin Asking
    BY <1>2 DEF OnceInv, Asking
  <2> QED BY <1>10, <2>2, <2>3, <2>4, <2>5 DEF OnceInv
<1>17. OwnInv'
  <2>1. SUFFICES ASSUME NEW n, n = Len(calls), n > 0, calls'[n].clean, ReadOnce'
                 PROVE  /\ Only(c2s', {"req"}, {n})
                        /\ Only(s2c', Responses, {n})
                        /\ Only(calls'[n].buf, Responses, {n})
                        /\ {calls'[n].answer, calls'[n].body} \subseteq {0, n}
    BY <1>3, <1>10 DEF OwnInv
  <2>2. n \in 1 .. Len(calls) /\ Responses \in SUBSET Responses
    BY <1>3, <2>1
  <2>3. /\ Only(c2s, {"req"}, {n}) /\ Only(s2c, Responses, {n})
        /\ Only(calls[n].buf, Responses, {n})
        /\ {calls[n].answer, calls[n].body} \subseteq {0, n}
    BY <1>10, <1>11, <2>1, <2>2 DEF OwnInv, ReadOnce
  <2> QED BY <1>2, <1>11, <1>12, <1>13, <2>2, <2>3 DEF Fewer
<1>18. OwnResponse'
  BY <1>10, <1>11, <1>17, OwnResponseKept
<1>19. HelloInv'
  <2>1. Kept(s2c, s2c', {"hello"})
    BY <1>4, <1>12, SuffixKept
  <2>2. \A i \in 1 .. Len(calls') : Shaken(i)' => i \in 1 .. Len(calls) /\ Shaken(i)
    BY <1>2, <1>10, <1>11 DEF Shaken
  <2> QED BY <1>2, <2>1, <2>2, HelloKept
<1> QED BY <1>10, <1>15, <1>16, <1>17, <1>18, <1>19

-----------------------------------------------------------------------------
(* The step that serves a request *)

\* A response has each of its parts once, and nothing but them and the 1xx response before
\* them.
LEMMA ResponseParts ==
  ASSUME NEW enc \in BOOLEAN, NEW i \in 0 .. MaxCalls, NEW kind \in Replies, NEW w,
         w = Response(enc, i)[kind]
  PROVE  /\ w \in Seq(Incoming) /\ Followed(w)
         /\ \A n \in 1 .. Len(w) : w[n].id = i /\ w[n].kind \notin {"hello"}
         /\ \A p \in Parts : Once(w, Kinds(p))
<1>1. w \in Seq(Incoming)
  BY ResponseType
<1>2. \/ w = <<ToClient("head", enc, i), ToClient("rest", enc, i)>>
      \/ w = <<ToClient("interim", enc, i), ToClient("head", enc, i), ToClient("rest", enc, i)>>
      \/ w = <<ToClient("bighead", enc, i), ToClient("rest", enc, i)>>
  BY CallsAssumption DEF Response
<1>3. \/ /\ Len(w) = 2 /\ \A n \in 1 .. 2 : w[n].id = i
         /\ w[1].kind \in {"head", "bighead"} /\ w[2].kind = "rest"
      \/ /\ Len(w) = 3 /\ \A n \in 1 .. 3 : w[n].id = i
         /\ w[1].kind = "interim" /\ w[2].kind = "head" /\ w[3].kind = "rest"
  BY <1>2 DEF ToClient
<1>4. 1 .. 2 = {1, 2} /\ 1 .. 3 = {1, 2, 3}
  OBVIOUS
<1>5. Followed(w)
  BY <1>3, <1>4 DEF Followed
<1>6. \A n \in 1 .. Len(w) : w[n].id = i /\ w[n].kind \notin {"hello"}
  BY <1>3, <1>4
<1>7. ASSUME NEW p \in Parts PROVE Once(w, Kinds(p))
  <2>1. PICK l \in 1 .. Len(w) : \A n \in 1 .. Len(w) : w[n].kind \in Kinds(p) => n = l
    <3>1. CASE p = "head"
      <4>1. Kinds(p) = {"head", "bighead"}
        BY <3>1 DEF Kinds
      <4>2. CASE Len(w) = 2
        <5>1. 1 \in 1 .. Len(w) /\ \A n \in 1 .. Len(w) : w[n].kind \in Kinds(p) => n = 1
          BY <1>3, <1>4, <4>1, <4>2
        <5> QED BY <5>1
      <4>3. CASE Len(w) = 3
        <5>1. 2 \in 1 .. Len(w) /\ \A n \in 1 .. Len(w) : w[n].kind \in Kinds(p) => n = 2
          BY <1>3, <1>4, <4>1, <4>3
        <5> QED BY <5>1
      <4> QED BY <1>3, <4>2, <4>3
    <3>2. CASE p = "rest"
      <4>1. Kinds(p) = {"rest"}
        BY <3>2 DEF Kinds
      <4>2. Len(w) \in 1 .. Len(w) /\ \A n \in 1 .. Len(w) : w[n].kind \in Kinds(p) => n = Len(w)
        BY <1>3, <1>4, <4>1
      <4> QED BY <4>2
    <3> QED BY <3>1, <3>2 DEF Parts
  <2> QED BY <2>1 DEF Once
<1> QED BY <1>1, <1>5, <1>6, <1>7

\* The peer that answers a request takes it off the connection and puts its response there.
LEMMA ServeStep ==
  ASSUME ResponseInv, TypeOK', ServeRequest
  PROVE  WireInv' /\ OnceInv' /\ RecordInv' /\ OwnInv' /\ HelloInv' /\ OwnResponse'
<1> USE DEF ResponseInv, PlacesInv, AdapterInv
<1>1. PICK kind \in Replies :
        s2c' = s2c \o Response(Head(c2s).enc, Head(c2s).id)[kind]
  BY DEF ServeRequest
<1>2. /\ c2s # <<>> /\ Head(c2s).kind = "req" /\ c2s' = Tail(c2s)
      /\ conn' \in {"tls", "plain"} /\ UNCHANGED <<pc, cur>>
      /\ calls' = [calls EXCEPT ![Head(c2s).id] = [calls[Head(c2s).id] EXCEPT !.served = peer]]
  BY DEF ServeRequest
<1>3. /\ c2s \in Seq(Outgoing) /\ c2s' \in Seq(Outgoing) /\ s2c \in Seq(Incoming)
      /\ s2c' \in Seq(Incoming)
      /\ calls \in Seq(CallRecords) /\ Len(calls) \in Nat
  BY QueueTypes, NextQueueTypes
<1>4. /\ Len(c2s) \in Nat /\ 1 \in 1 .. Len(c2s) /\ Head(c2s) = c2s[1] /\ Head(c2s) \in Outgoing
      /\ Len(c2s') = Len(c2s) - 1 /\ \A n \in 1 .. Len(c2s') : c2s'[n] = c2s[n + 1]
  BY <1>2, <1>3, HeadTailProperties, EmptySeq, LenProperties
<1>5. PICK i \in 1 .. Len(calls) : i = Head(c2s).id /\ i \in 0 .. MaxCalls
  BY <1>2, <1>4 DEF WireInv, Only, Outgoing, Messages
<1>6. PICK w \in Seq(Incoming) :
        /\ s2c' = s2c \o w /\ Followed(w)
        /\ \A n \in 1 .. Len(w) : w[n].id = i /\ w[n].kind \notin {"hello"}
        /\ \A p \in Parts : Once(w, Kinds(p))
  <2>1. Head(c2s).enc \in BOOLEAN
    BY <1>4 DEF Outgoing, Messages
  <2> DEFINE w == Response(Head(c2s).enc, i)[kind]
  <2>2. s2c' = s2c \o w /\ w = Response(Head(c2s).enc, i)[kind]
    BY <1>1, <1>5
  <2> HIDE DEF w
  <2>3. /\ w \in Seq(Incoming) /\ Followed(w)
        /\ \A n \in 1 .. Len(w) : w[n].id = i /\ w[n].kind \notin {"hello"}
        /\ \A p \in Parts : Once(w, Kinds(p))
    BY <1>5, <2>1, <2>2, ResponseParts
  <2> QED BY <2>2, <2>3
<1>7. /\ \A ks, k : Carries(w, ks, k) => k = i
      /\ \A ks, ids : i \in ids => Only(w, ks, ids)
  BY <1>6 DEF Carries, Only
<1>8. /\ Len(calls') = Len(calls)
      /\ \A j \in 1 .. Len(calls) :
           /\ calls'[j].clean = calls[j].clean /\ calls'[j].secure = calls[j].secure
           /\ calls'[j].stream = calls[j].stream /\ calls'[j].outcome = calls[j].outcome
           /\ calls'[j].answer = calls[j].answer /\ calls'[j].body = calls[j].body
           /\ calls'[j].rst = calls[j].rst /\ calls'[j].buf = calls[j].buf
           /\ calls'[j].readers = calls[j].readers /\ calls'[j].chunked = calls[j].chunked
           /\ j # i => calls'[j].served = calls[j].served
  <2> DEFINE r == [calls[i] EXCEPT !.served = peer]
  <2>1. calls[i] \in CallRecords /\ peer \in Hosts \cup {NoHost}
    BY <1>3, ElementOfSeq DEF TypeOK
  <2>2. /\ r \in CallRecords
        /\ r.clean = calls[i].clean /\ r.secure = calls[i].secure
        /\ r.stream = calls[i].stream /\ r.outcome = calls[i].outcome
        /\ r.answer = calls[i].answer /\ r.body = calls[i].body
        /\ r.rst = calls[i].rst /\ r.buf = calls[i].buf
        /\ r.readers = calls[i].readers /\ r.chunked = calls[i].chunked
    BY <2>1 DEF CallRecords
  <2>3. calls' = [calls EXCEPT ![i] = r]
    BY <1>2, <1>5
  <2> HIDE DEF r
  <2>4. /\ Len(calls') = Len(calls)
        /\ \A j \in 1 .. Len(calls) : calls'[j] = IF j = i THEN r ELSE calls[j]
    BY <1>3, <2>2, <2>3, CallsUpdate
  <2> QED BY <2>2, <2>4
<1>9. /\ Fewer(c2s, c2s', {"req"}) /\ ~Carries(c2s', {"req"}, i) /\ Carries(c2s, {"req"}, i)
  <2>1. Fewer(c2s, c2s', {"req"})
    BY <1>2, <1>3, QueuesLeft, SuffixKept, KeptFewer
  <2>2. ASSUME NEW n \in 1 .. Len(c2s'), c2s'[n].kind \in {"req"}, c2s'[n].id = i PROVE FALSE
    <3>1. n + 1 \in 1 .. Len(c2s) /\ n + 1 # 1 /\ c2s[n + 1] = c2s'[n]
      BY <1>4
    <3>2. n + 1 = 1
      BY <1>2, <1>4, <1>5, <2>2, <3>1 DEF OnceInv, Once
    <3> QED BY <3>1, <3>2
  <2>3. Carries(c2s, {"req"}, i)
    BY <1>2, <1>4, <1>5 DEF Carries
  <2> QED BY <2>1, <2>2, <2>3 DEF Carries
<1>10. /\ Asked(i) /\ ~Asked(i)' /\ \A k : Asked(k)' => Asked(k)
  <2>1. ~(cur = i /\ pc \in Asking)
    BY <1>9 DEF OnceInv
  <2> QED BY <1>2, <1>9, <2>1 DEF Asked, Fewer
<1>11. \A p \in Parts : \A k : OnWire(p, k)' => OnWire(p, k) \/ k = i
  BY <1>3, <1>6, <1>7, ConcatQueues DEF OnWire
<1>12. \A p \in Parts : \A k : \A j \in 1 .. Len(calls) : Has(p, j, k)' <=> Has(p, j, k)
  BY <1>8 DEF Has, Part
<1>13. WireInv'
  <2>1. Only(c2s', {"req"}, 1 .. Len(calls))
    BY <1>9 DEF WireInv, Fewer
  <2>2. Only(s2c', Responses, 1 .. Len(calls)) /\ Followed(s2c')
    BY <1>3, <1>6, <1>7, ConcatQueues DEF WireInv
  <2> QED BY <1>8, <2>1, <2>2 DEF WireInv
<1>14. OnceInv'
  <2>1. Once(c2s', {"req"}) /\ (pc' \in Asking => ~Carries(c2s', {"req"}, cur'))
    BY <1>2, <1>9 DEF OnceInv, Fewer
  <2>2. ASSUME NEW p \in Parts PROVE Once(s2c', Kinds(p))
    <3>1. \A k : Carries(s2c, Kinds(p), k) => ~Carries(w, Kinds(p), k)
      BY <1>7, <1>10 DEF OnceInv, OnWire
    <3> QED BY <1>3, <1>6, <3>1, ConcatQueues DEF OnceInv
  <2>3. ASSUME NEW p \in Parts, NEW k \in 1 .. Len(calls)
        PROVE  /\ OnWire(p, k)' => ~Asked(k)'
               /\ \A j \in 1 .. Len(calls) : Has(p, j, k)' => ~Asked(k)' /\ ~OnWire(p, k)'
               /\ \A j, l \in 1 .. Len(calls) : Has(p, j, k)' /\ Has(p, l, k)' => j = l
    BY <1>10, <1>11, <1>12 DEF OnceInv
  <2> QED BY <1>8, <2>1, <2>2, <2>3 DEF OnceInv
<1>15. RecordInv'
  <2>1. /\ pc' \in {"stream", "terminated"} =>
             calls'[cur'].outcome = "streaming" /\ calls'[cur'].readers > 0
        /\ pc' = "read" => ~calls'[cur'].stream
    <3>1. pc \in {"stream", "terminated", "read"} => cur \in 1 .. Len(calls)
      BY Current
    <3> QED BY <1>2, <1>8, <3>1 DEF RecordInv
  <2>2. ASSUME NEW j \in 1 .. Len(calls)
        PROVE  /\ Consistent(calls'[j]) /\ calls'[j].clean = calls[j].clean
               /\ calls'[j].outcome = "pending" => j = cur' /\ pc' \in Asking \cup {"read"}
               /\ calls'[j].readers = calls[j].readers
               /\ calls[j].outcome = "ok" => calls'[j].outcome = "ok" /\ calls'[j].rst = calls[j].rst
    <3>1. Consistent(calls[j])
      BY DEF RecordInv
    <3>2. Consistent(calls'[j])
      BY <1>8, <3>1 DEF Consistent
    <3> QED BY <1>2, <1>8, <3>2 DEF RecordInv
  <2> QED BY <1>3, <1>8, <2>1, <2>2, RecordInvKept
<1>16. OwnInv'
  <2>1. SUFFICES ASSUME NEW n, n = Len(calls), n > 0, calls'[n].clean, ReadOnce'
                 PROVE  /\ Only(c2s', {"req"}, {n})
                        /\ Only(s2c', Responses, {n})
                        /\ Only(calls'[n].buf, Responses, {n})
                        /\ {calls'[n].answer, calls'[n].body} \subseteq {0, n}
    BY <1>3, <1>8 DEF OwnInv
  <2>2. n \in 1 .. Len(calls)
    BY <1>3, <2>1
  <2>3. /\ Only(c2s, {"req"}, {n}) /\ Only(s2c, Responses, {n})
        /\ Only(calls[n].buf, Responses, {n})
        /\ {calls[n].answer, calls[n].body} \subseteq {0, n}
    BY <1>8, <2>1, <2>2 DEF OwnInv, ReadOnce
  <2>4. i = n
    BY <1>9, <2>3 DEF Carries, Only
  <2>5. Only(s2c', Responses, {n}) /\ Only(c2s', {"req"}, {n})
    BY <1>3, <1>6, <1>7, <1>9, <2>3, <2>4, ConcatQueues DEF Fewer
  <2> QED BY <1>8, <2>2, <2>3, <2>5
<1>17. OwnResponse'
  BY <1>8, <1>16, OwnResponseKept
<1>18. HelloInv'
  <2>1. Kept(s2c, s2c', {"hello"})
    BY <1>3, <1>6, ConcatQueues
  <2>2. \A j \in 1 .. Len(calls') : Shaken(j)' => j \in 1 .. Len(calls) /\ Shaken(j)
    BY <1>2, <1>8, <1>9 DEF Shaken, Fewer
  <2> QED BY <1>2, <2>1, <2>2, HelloKept
<1> QED BY <1>13, <1>14, <1>15, <1>16, <1>17, <1>18

-----------------------------------------------------------------------------
(* The step that makes a call *)

\* When n calls have taken different responses of n, they have taken them all.
LEMMA AllTaken ==
  ASSUME NEW n \in Nat, NEW f \in [1 .. n -> 1 .. n],
         \A i, j \in 1 .. n : f[i] = f[j] => i = j
  PROVE  \A k \in 1 .. n : \E i \in 1 .. n : f[i] = k
<1>1. f \in Injection(1 .. n, 1 .. n)
  BY DEF Injection, IsInjective
<1>2. IsFiniteSet(1 .. n)
  BY FS_Interval
<1>3. f \in Surjection(1 .. n, 1 .. n)
  BY <1>1, <1>2, FS_Injection
<1> QED BY <1>3 DEF Surjection

\* When all responses have been read, both parts of each are with a call, and so neither on
\* the connection nor to be made.
LEMMA AllReadHas ==
  ASSUME TypeOK, RecordInv, OnceInv, AllRead, NEW p \in Parts, NEW k \in 1 .. Len(calls)
  PROVE  ~Asked(k) /\ ~OnWire(p, k)
<1> DEFINE n == Len(calls)
           f == [i \in 1 .. n |-> Part(p, i)]
<1>1. n \in Nat
  BY QueueTypes
<1>2. \A i \in 1 .. n : Part(p, i) \in 1 .. n /\ Has(p, i, Part(p, i))
  <2>1. TAKE i \in 1 .. n
  <2>2. calls[i].outcome = "ok" /\ calls[i].rst = "done" /\ Consistent(calls[i])
    BY DEF AllRead, RecordInv
  <2>3. calls[i].answer \in 1 .. n /\ calls[i].body \in 1 .. n
    BY <1>1, <2>2 DEF Consistent
  <2> QED BY <2>2, <2>3 DEF Has, Part
<1>3. f \in [1 .. n -> 1 .. n]
  BY <1>2
<1>4. \A i, j \in 1 .. n : f[i] = f[j] => i = j
  BY <1>2 DEF OnceInv
<1>5. PICK i \in 1 .. n : f[i] = k
  <2> HIDE DEF f
  <2> QED BY <1>1, <1>3, <1>4, AllTaken
<1>6. Has(p, i, k)
  BY <1>2, <1>5
<1> QED BY <1>6 DEF OnceInv

\* A new call finds what it is asked to find: its request and its response are nowhere, and
\* if all responses have been read there is nothing else.
LEMMA SendKeeps ==
  ASSUME ResponseInv, TypeOK', Send
  PROVE  WireInv' /\ OnceInv' /\ RecordInv' /\ OwnInv' /\ HelloInv' /\ OwnResponse'
<1> USE DEF ResponseInv, PlacesInv, AdapterInv
<1>0. PICK n \in Nat : n = Len(calls)
  BY QueueTypes
<1> USE <1>0
<1>1. PICK h \in Hosts, secure \in BOOLEAN, stream \in BOOLEAN :
        /\ calls' = Append(calls, NewCall(h, secure, stream))
        /\ pc' = IF is_connected THEN Connected(secure) ELSE "connect"
  BY DEF Send
<1>2. /\ pc = "idle" /\ cur = 0 /\ cur' = Len(calls) + 1 /\ UNCHANGED <<conn, c2s, s2c>>
      /\ pc' \in {"connect", "hello", "write"} /\ (pc' = "write" => ~secure)
  BY <1>1 DEF Send, wireVars, Connected, TypeOK
<1> DEFINE r == NewCall(h, secure, stream)
<1>3. /\ r \in CallRecords /\ r.outcome = "pending" /\ r.answer = 0 /\ r.body = 0
      /\ r.served = NoHost /\ r.buf = <<>> /\ r.rst = "start" /\ r.clean = AllRead
      /\ r.secure = secure /\ r.readers = 0 /\ ~r.chunked
  BY NewCallType DEF NewCall
<1> HIDE DEF r
<1>4. calls \in Seq(CallRecords) /\ n \in Nat /\ c2s \in Seq(Outgoing) /\ s2c \in Seq(Incoming)
  BY QueueTypes
<1>5. /\ Len(calls') = n + 1 /\ calls'[n + 1] = r
      /\ \A i \in 1 .. n : calls'[i] = calls[i]
  <2>1. calls' = Append(calls, r)
    BY <1>1 DEF r
  <2> QED BY <1>3, <1>4, <2>1, AppendProperties
<1>6. /\ 1 .. n + 1 = (1 .. n) \cup {n + 1} /\ n + 1 \notin 1 .. n /\ 1 .. Len(<<>>) = {}
      /\ 0 # n + 1 /\ 0 \notin 1 .. n + 1
  BY <1>4, EmptySeq
<1>7. \A i \in 1 .. n : calls[i].outcome # "pending"
  BY <1>2 DEF RecordInv, Asking
<1>8. \A i \in 1 .. n : Consistent(calls[i])
  BY DEF RecordInv
<1>16. ReadOnce' => ReadOnce
  BY <1>5, <1>6 DEF ReadOnce
\* Nothing is of the new call.
<1>9. /\ ~Carries(c2s, {"req"}, n + 1) /\ \A p \in Parts : ~OnWire(p, n + 1)
      /\ \A p \in Parts, i \in 1 .. n : ~Has(p, i, n + 1)
  <2>1. \A p \in Parts : Kinds(p) \subseteq Responses
    BY DEF Parts, Kinds, Responses
  <2>2. /\ Only(c2s, {"req"}, 1 .. n) /\ Only(s2c, Responses, 1 .. n)
        /\ \A i \in 1 .. n : Only(calls[i].buf, Responses, 1 .. n)
    BY DEF WireInv
  <2>3. \A p \in Parts, i \in 1 .. n : Part(p, i) # n + 1
    <3>1. \A i \in 1 .. n : calls[i].answer \in 0 .. n /\ calls[i].body \in 0 .. n
      BY <1>8 DEF Consistent
    <3>2. n + 1 \notin 0 .. n
      BY <1>4
    <3> QED BY <3>1, <3>2 DEF Part
  <2> QED BY <1>6, <2>1, <2>2, <2>3 DEF Carries, Only, OnWire, Has
<1>10. WireInv'
  <2>1. \A q, ks : Only(q, ks, 1 .. n) => Only(q, ks, 1 .. n + 1)
    BY <1>6 DEF Only
  <2>2. \A i \in 1 .. n + 1 : Only(calls'[i].buf, Responses, 1 .. n + 1)
    <3>1. Only(<<>>, Responses, 1 .. n + 1)
      BY <1>6 DEF Only
    <3> QED BY <1>3, <1>5, <1>6, <2>1, <3>1 DEF WireInv
  <2> QED BY <1>2, <1>5, <2>1, <2>2 DEF WireInv
<1>11. OnceInv'
  <2>1. ASSUME NEW p \in Parts, NEW k \in 1 .. n + 1, NEW i \in 1 .. n + 1
        PROVE  /\ Asked(k)' => Asked(k) \/ k = n + 1
               /\ OnWire(p, k)' => OnWire(p, k) /\ k \in 1 .. n
               /\ Has(p, i, k)' => Has(p, i, k) /\ i \in 1 .. n /\ k \in 1 .. n
    <3>1. Asked(k)' => Asked(k) \/ k = n + 1
      BY <1>2 DEF Asked
    <3>2. OnWire(p, k)' => OnWire(p, k) /\ k \in 1 .. n
      BY <1>2, <1>6, <1>9 DEF OnWire
    <3>3. CASE i = n + 1
      <4>1. ~Carries(<<>>, Kinds(p), k) /\ calls'[i] = r
        BY <1>5, <1>6, <3>3 DEF Carries
      <4>2. k # 0
        BY <1>6
      <4> QED BY <1>3, <3>1, <3>2, <4>1, <4>2 DEF Has, Part
    <3>4. CASE i \in 1 .. n
      <4>1. Has(p, i, k)' => Has(p, i, k)
        BY <1>5, <3>4 DEF Has, Part
      <4> QED BY <1>6, <1>9, <3>1, <3>2, <3>4, <4>1
    <3> QED BY <1>6, <3>3, <3>4
  <2>2. \A p \in Parts, k \in 1 .. n :
          /\ OnWire(p, k) => ~Asked(k)
          /\ \A i \in 1 .. n : Has(p, i, k) => ~Asked(k) /\ ~OnWire(p, k)
          /\ \A i, j \in 1 .. n : Has(p, i, k) /\ Has(p, j, k) => i = j
    BY DEF OnceInv
  <2>3. (\A p \in Parts, k \in 1 .. Len(calls) :
          /\ OnWire(p, k) => ~Asked(k)
          /\ \A i \in 1 .. Len(calls) : Has(p, i, k) => ~Asked(k) /\ ~OnWire(p, k)
          /\ \A i, j \in 1 .. Len(calls) : Has(p, i, k) /\ Has(p, j, k) => i = j)'
    BY <1>5, <1>6, <2>1, <2>2
  <2>4. Once(c2s', {"req"}) /\ ~Carries(c2s', {"req"}, cur') /\ \A p \in Parts : Once(s2c', Kinds(p))
    BY <1>2, <1>9 DEF OnceInv
  <2> QED BY <2>3, <2>4 DEF OnceInv
<1>12. RecordInv'
  <2>1. \A i \in 1 .. n + 1 : Consistent(calls[i])'
    <3>1. \A i \in 1 .. n : Consistent(calls[i])'
      BY <1>4, <1>5, <1>8 DEF Consistent
    <3>2. Consistent(calls[n + 1])'
      BY <1>3, <1>4, <1>5 DEF Consistent
    <3> QED BY <1>6, <3>1, <3>2
  <2>2. \A i \in 1 .. n + 1 : calls'[i].outcome = "pending" => i = cur' /\ pc' \in Asking \cup {"read"}
    BY <1>2, <1>5, <1>6, <1>7 DEF Asking
  <2>3. ASSUME NEW i \in 1 .. n + 1, calls'[i].clean, ReadOnce', NEW j \in 1 .. i - 1
        PROVE  calls'[j].outcome = "ok" /\ calls'[j].rst = "done"
    <3>1. j \in 1 .. n
      BY <1>4, <2>3
    <3>2. CASE i \in 1 .. n
      BY <1>5, <1>16, <2>3, <3>1, <3>2 DEF RecordInv
    <3>3. CASE i = n + 1
      BY <1>3, <1>5, <2>3, <3>1, <3>3, ZenonT(30) DEF AllRead
    <3> QED BY <1>6, <3>2, <3>3
  <2>4. pc' \notin {"stream", "terminated", "read"}
    BY <1>2
  <2> QED BY <1>5, <2>1, <2>2, <2>3, <2>4 DEF RecordInv
<1>13. OwnInv'
  <2>1. SUFFICES ASSUME AllRead
                 PROVE  /\ Only(c2s', {"req"}, {n + 1})
                        /\ Only(s2c', Responses, {n + 1})
                        /\ Only(calls'[n + 1].buf, Responses, {n + 1})
                        /\ {calls'[n + 1].answer, calls'[n + 1].body} \subseteq {0, n + 1}
    BY <1>3, <1>5 DEF OwnInv
  <2>2. \A p \in Parts, k \in 1 .. n : ~Asked(k) /\ ~OnWire(p, k)
    BY <2>1, AllReadHas
  <2>3. "head" \in Parts /\ "rest" \in Parts
    BY DEF Parts
  <2>4. Only(c2s', {"req"}, {n + 1})
    BY <1>2, <2>2, <2>3 DEF Only, Asked, Carries, WireInv
  <2>5. ASSUME NEW m \in 1 .. Len(s2c), s2c[m].kind \in Responses PROVE FALSE
    <3>1. s2c[m].id \in 1 .. n
      BY <2>5 DEF WireInv, Only
    <3>2. CASE s2c[m].kind \in {"head", "bighead"}
      BY <2>2, <2>3, <3>1, <3>2 DEF OnWire, Carries, Kinds
    <3>3. CASE s2c[m].kind = "rest"
      <4>1. s2c[m].kind \in Kinds("rest")
        BY <3>3 DEF Kinds
      <4> QED BY <2>2, <2>3, <3>1, <4>1 DEF OnWire, Carries
    <3>4. CASE s2c[m].kind = "interim"
      <4>1. /\ m + 1 \in 1 .. Len(s2c)
            /\ s2c[m + 1].kind = "head" /\ s2c[m + 1].id = s2c[m].id
        <5>1. m < Len(s2c) /\ s2c[m + 1].kind = "head" /\ s2c[m + 1].id = s2c[m].id
          BY <3>4 DEF WireInv, Followed
        <5>2. Len(s2c) \in Nat
          BY <1>4, LenProperties
        <5> QED BY <5>1, <5>2
      <4> QED BY <2>2, <2>3, <3>1, <4>1 DEF OnWire, Carries, Kinds
    <3> QED BY <2>5, <3>2, <3>3, <3>4 DEF Responses
  <2>6. Only(calls'[n + 1].buf, Responses, {n + 1})
    BY <1>3, <1>5, <1>6 DEF Only
  <2> QED BY <1>2, <1>3, <1>5, <2>4, <2>5, <2>6 DEF Only
<1>14. OwnResponse'
  <2>1. SUFFICES ASSUME ReadOnce, NEW i \in 1 .. n + 1, calls'[i].clean,
                        calls'[i].stream /\ i < n + 1 => calls'[i + 1].clean
                 PROVE  {calls'[i].answer, calls'[i].body} \subseteq {0, i}
    BY <1>5, <1>16 DEF OwnResponse
  <2>2. CASE i = n + 1
    BY <1>3, <1>5, <2>2
  <2>3. CASE i \in 1 .. n /\ i = n
    BY <1>4, <1>5, <2>1, <2>3 DEF OwnInv
  <2>4. CASE i \in 1 .. n /\ i # n
    <3>1. i < n /\ i < n + 1 /\ i + 1 \in 1 .. n
      BY <1>4, <2>4
    <3> QED BY <1>5, <2>1, <2>4, <3>1 DEF OwnResponse
  <2> QED BY <1>6, <2>2, <2>3, <2>4
<1>15. HelloInv'
  <2>1. Kept(s2c, s2c', {"hello"})
    BY <1>2, <1>4, QueuesLeft, SuffixKept
  <2>2. \A i \in 1 .. Len(calls') : Shaken(i)' => i \in 1 .. Len(calls) /\ Shaken(i)
    <3>1. ~Shaken(n + 1)'
      BY <1>2, <1>3, <1>5, <1>9 DEF Shaken
    <3>2. \A i \in 1 .. n : Shaken(i)' => Shaken(i)
      BY <1>2, <1>5, <1>6 DEF Shaken
    <3> QED BY <1>5, <1>6, <3>1, <3>2
  <2> QED BY <1>2, <2>1, <2>2, HelloKept
<1> QED BY <1>10, <1>11, <1>12, <1>13, <1>14, <1>15

-----------------------------------------------------------------------------
(* What follows *)

\* The inductive invariant holds from the start, and every step keeps it.
LEMMA ResponseInit == Init => ResponseInv
<1>1. SUFFICES ASSUME Init PROVE ResponseInv
  OBVIOUS
<1>2. 1 .. Len(<<>>) = {} /\ Len(<<>>) = 0
  BY EmptySeq
<1>3. c2s = <<>> /\ s2c = <<>> /\ calls = <<>> /\ cur = 0 /\ pc = "idle" /\ peer = NoHost
  BY <1>1 DEF Init
<1>4. AdapterInv
  BY <1>1, TypeInit, CallsAssumption DEF Init, HostInv, AdapterInv
<1>5. WireInv /\ OwnInv
  BY <1>2, <1>3 DEF WireInv, OwnInv, Only, Followed
<1>6. OnceInv
  BY <1>2, <1>3 DEF OnceInv, Once, Carries, Asking
<1>7. RecordInv /\ OwnResponse
  BY <1>2, <1>3 DEF RecordInv, OwnResponse
<1>8. HelloInv
  BY <1>2, <1>3 DEF HelloInv
<1> QED BY <1>4, <1>5, <1>6, <1>7, <1>8 DEF ResponseInv, PlacesInv

\* Every step keeps ResponseInv.
LEMMA ResponseStep ==
  ASSUME ResponseInv, [Next]_vars PROVE ResponseInv'
<1>1. TypeOK' /\ HostInv'
  BY TypeStep, HostStep DEF ResponseInv, PlacesInv, AdapterInv
<1>2. CASE Send
  BY <1>1, <1>2, SendKeeps DEF ResponseInv, PlacesInv, AdapterInv
<1>3. CASE Write
  BY <1>1, <1>3, WriteStep DEF ResponseInv, PlacesInv, AdapterInv
<1>4. CASE Receive
  BY <1>1, <1>4, ReceiveStep DEF ResponseInv, PlacesInv, AdapterInv
<1>5. CASE ServeRequest
  BY <1>1, <1>5, ServeStep DEF ResponseInv, PlacesInv, AdapterInv
<1> QED BY <1>1, <1>2, <1>3, <1>4, <1>5, LocalSteps DEF Next, Client, Serve

\* Requests and responses are in one place each, every call that is made with all responses
\* read is alone on the connection, and one call at most has used a ServerHello.
THEOREM ResponseInvariant == Spec => []ResponseInv
BY ResponseInit, ResponseStep, PTL DEF Spec

\* Every request, and every part of its response, is in one place: still to be written, on the
\* connection, or with one call (send_impl and the reads of a streamed response).
THEOREM MessagesInPlace == Spec => []PlacesInv
<1>1. ResponseInv => PlacesInv
  BY DEF ResponseInv
<1> QED BY <1>1, ResponseInvariant, PTL

\* A call made when all earlier responses have been read, and, if it is streamed, read to its
\* end before the next call, is given the response to its own request, unless a streamed
\* response is given a second reader, whatever the servers send and whenever the connection
\* ends (send_impl, chunk_response, read_next_chunked_body).
THEOREM OwnResponses == Spec => []OwnResponse
<1>1. ResponseInv => OwnResponse
  BY DEF ResponseInv, PlacesInv
<1> QED BY <1>1, ResponseInvariant, PTL

\* No response is given to two calls, but for the 1xx response that goes before it.
THEOREM EveryResponseOnce == Spec => []AnsweredOnce
<1>1. ASSUME ResponseInv PROVE AnsweredOnce
  <2>1. SUFFICES ASSUME NEW i \in 1 .. Len(calls), NEW j \in 1 .. Len(calls), i # j,
                        calls[i].answer # 0, calls[i].answer = calls[j].answer,
                        "interim" \notin {calls[i].rst, calls[j].rst}
                 PROVE  FALSE
    BY DEF AnsweredOnce
  <2> DEFINE k == calls[i].answer
  <2>2. k \in 1 .. Len(calls)
    BY <1>1, <2>1, QueueTypes DEF ResponseInv, PlacesInv, AdapterInv, RecordInv, Consistent
  <2>3. Has("head", i, k) /\ Has("head", j, k) /\ "head" \in Parts
    BY <2>1 DEF Has, Part, Parts
  <2> QED BY <1>1, <2>1, <2>2, <2>3 DEF ResponseInv, PlacesInv, OnceInv
<1> QED BY <1>1, ResponseInvariant, PTL

\* At most one send_secure of an adapter is served: the second starts a handshake inside the
\* TLS session of the first.
THEOREM SecureCallOnce == Spec => []OneSecureCall
<1>1. ASSUME ResponseInv PROVE OneSecureCall
  <2> DEFINE T == {i \in 1 .. Len(calls) : calls[i].secure /\ calls[i].served # NoHost}
  <2>1. \A i, j \in T : i = j
    BY <1>1 DEF ResponseInv, PlacesInv, HelloInv, Shaken
  <2>2. CASE T = {}
    BY <2>2, FS_EmptySet DEF OneSecureCall
  <2>3. ASSUME NEW i \in T PROVE OneSecureCall
    <3>1. T = {i}
      BY <2>1
    <3> HIDE DEF T
    <3>2. Cardinality(T) = 1
      BY <3>1, FS_Singleton
    <3> QED BY <3>2 DEF OneSecureCall, T
  <2> QED BY <2>2, <2>3
<1> QED BY <1>1, ResponseInvariant, PTL

-----------------------------------------------------------------------------
(* The promise of Exchange *)

\* What Exchange calls handed.
Handed == {i \in DOMAIN calls : calls[i].chunked}

Standings == {"waiting", "unread", "own", "interim", "other", "failed"}

\* How the calls stand, and how they do after a step that leaves their number alone.
LEMMA Stands ==
  ASSUME TypeOK
  PROVE  /\ Len(calls) \in Nat /\ DOMAIN calls = 1 .. Len(calls)
         /\ \A c, i : Standing(c, i) \in Standings
         /\ [i \in DOMAIN calls |-> Standing(calls[i], i)] \in Seq(Standings)
         /\ Len([i \in DOMAIN calls |-> Standing(calls[i], i)]) = Len(calls)
<1>1. DOMAIN calls = 1 .. Len(calls) /\ Len(calls) \in Nat
  BY QueueTypes, LenProperties
<1>2. \A c, i : Standing(c, i) \in Standings
  BY DEF Standing, Standings
<1> DEFINE s == [i \in DOMAIN calls |-> Standing(calls[i], i)]
<1>3. s \in [1 .. Len(calls) -> Standings]
  BY <1>1, <1>2
<1> HIDE DEF s
<1>4. s \in Seq(Standings) /\ Len(s) = Len(calls)
  BY <1>1, <1>3, SeqDef, LenProperties
<1> QED BY <1>1, <1>2, <1>4 DEF s

\* A step that changes how no call stands is none of Exchange's.
LEMMA StandsStill ==
  ASSUME TypeOK, TypeOK', Len(calls') = Len(calls),
         \A i \in 1 .. Len(calls) :
           /\ calls'[i].clean = calls[i].clean /\ calls'[i].chunked = calls[i].chunked
           /\ calls'[i].readers <= 1 <=> calls[i].readers <= 1
           /\ Standing(calls'[i], i) = Standing(calls[i], i)
  PROVE  UNCHANGED Promise!vars
<1>1. DOMAIN calls = 1 .. Len(calls) /\ DOMAIN calls' = 1 .. Len(calls)
  BY Stands, NextQueueTypes, LenProperties
<1>2. /\ (\A i \in DOMAIN calls : calls[i].clean)' <=> \A i \in DOMAIN calls : calls[i].clean
      /\ ReadOnce' <=> ReadOnce
      /\ {i \in DOMAIN calls : calls[i].chunked}' = {i \in DOMAIN calls : calls[i].chunked}
  BY <1>1 DEF ReadOnce
<1>3. [i \in DOMAIN calls |-> Standing(calls[i], i)]' = [i \in DOMAIN calls |-> Standing(calls[i], i)]
  BY <1>1
<1> QED BY <1>2, <1>3 DEF Promise!vars

\* A step that changes how the call the thread is in stands is one of Exchange's.
LEMMA CurrentStands ==
  ASSUME ResponseInv, TypeOK', pc # "idle", NEW r \in CallRecords, Becomes(r),
         r.clean = calls[cur].clean, r.readers = calls[cur].readers
  PROVE  /\ cur \in DOMAIN calls /\ calls'[cur] = r /\ Len(calls') = Len(calls)
         /\ r.chunked = calls[cur].chunked =>
              /\ Standing(r, cur) = Standing(calls[cur], cur) => UNCHANGED Promise!vars
              /\ UNCHANGED Handed
         /\ r.chunked => Handed' = Handed \cup {cur}
         /\ Promise!Becomes(cur, Standing(r, cur))
<1> USE DEF ResponseInv, PlacesInv, AdapterInv
<1>1. /\ cur \in 1 .. Len(calls) /\ Len(calls') = Len(calls)
      /\ calls[cur].outcome \in {"pending", "streaming"}
      /\ \A i \in 1 .. Len(calls) : calls'[i] = IF i = cur THEN r ELSE calls[i]
  BY Underway, CurrentBecomes
<1>2. DOMAIN calls = 1 .. Len(calls) /\ DOMAIN calls' = 1 .. Len(calls)
  BY <1>1, Stands, NextQueueTypes, LenProperties
<1>3. r.chunked = calls[cur].chunked /\ Standing(r, cur) = Standing(calls[cur], cur)
        => UNCHANGED Promise!vars
  BY <1>1, StandsStill
<1>4. Standing(calls[cur], cur) \in {"waiting", "unread"}
  BY <1>1 DEF Standing
<1>5. /\ (\A i \in DOMAIN calls : calls[i].clean)' <=> \A i \in DOMAIN calls : calls[i].clean
      /\ ReadOnce' <=> ReadOnce
  BY <1>1, <1>2 DEF ReadOnce
<1>7. /\ r.chunked = calls[cur].chunked => UNCHANGED Handed
      /\ r.chunked => Handed' = Handed \cup {cur}
  BY <1>1, <1>2 DEF Handed
<1>6. [i \in DOMAIN calls |-> Standing(calls[i], i)]'
        = [[i \in DOMAIN calls |-> Standing(calls[i], i)] EXCEPT ![cur] = Standing(r, cur)]
  BY <1>1, <1>2
<1> QED BY <1>1, <1>2, <1>3, <1>4, <1>5, <1>6, <1>7 DEF Promise!Becomes

\* An exception out of send_impl, or an error in the body of a streamed response.
LEMMA PromiseFail ==
  ASSUME ResponseInv, TypeOK', pc # "idle", Fails \/ StreamFails
  PROVE  Promise!Fail
<1> DEFINE q == [calls[cur] EXCEPT !.outcome = "error", !.buf = <<>>]
           t == [calls[cur] EXCEPT !.outcome = "error", !.buf = <<>>, !.rst = "failed"]
<1>1. calls[cur] \in CallRecords
  BY Current DEF ResponseInv, PlacesInv, AdapterInv
<1>2. PICK r \in CallRecords :
        /\ Becomes(r) /\ r.clean = calls[cur].clean /\ r.outcome = "error"
        /\ r.readers = calls[cur].readers /\ r.chunked = calls[cur].chunked
  <2>1. CASE Fails
    <3>1. /\ q \in CallRecords /\ q.clean = calls[cur].clean /\ q.outcome = "error"
          /\ q.readers = calls[cur].readers /\ q.chunked = calls[cur].chunked
      BY <1>1, EmptySeq DEF CallRecords
    <3> QED BY <2>1, <3>1 DEF Fails
  <2>2. CASE StreamFails
    <3>1. /\ t \in CallRecords /\ t.clean = calls[cur].clean /\ t.outcome = "error"
          /\ t.readers = calls[cur].readers /\ t.chunked = calls[cur].chunked
      BY <1>1, EmptySeq DEF CallRecords
    <3> QED BY <2>2, <3>1 DEF StreamFails
  <2> QED BY <2>1, <2>2
<1>3. Standing(r, cur) = "failed"
  BY <1>2 DEF Standing
<1>4. Promise!Becomes(cur, Standing(r, cur)) /\ cur \in DOMAIN calls /\ UNCHANGED Handed
  BY <1>2, CurrentStands
<1> QED BY <1>3, <1>4 DEF Promise!Fail, Handed

\* The return of a streamed response, unread, or none at all.
LEMMA PromiseWrite ==
  ASSUME ResponseInv, TypeOK', Write
  PROVE  Promise!HandOver \/ UNCHANGED Promise!vars
<1> DEFINE r == Marked(calls[cur])
<1>1. pc # "idle" /\ Becomes(r) /\ pc \notin {"stream", "terminated"}
  BY DEF Write
<1>2. calls[cur] \in CallRecords /\ calls[cur].outcome = "pending" /\ cur \in 1 .. Len(calls)
  BY <1>1, Underway DEF ResponseInv, PlacesInv, AdapterInv
<1>3. /\ r \in CallRecords /\ r.clean = calls[cur].clean
      /\ r.readers = calls[cur].readers
      /\ \/ r.outcome = "streaming" /\ r.chunked
         \/ r.outcome = "pending" /\ r.chunked = calls[cur].chunked
  BY <1>2 DEF CallRecords, Marked
<1> HIDE DEF r
<1>4. /\ Standing(calls[cur], cur) = "waiting"
      /\ Standing(r, cur) = IF r.outcome = "streaming" THEN "unread" ELSE "waiting"
  BY <1>2, <1>3 DEF Standing
<1>5. /\ cur \in DOMAIN calls
      /\ r.chunked = calls[cur].chunked /\ Standing(r, cur) = Standing(calls[cur], cur)
           => UNCHANGED Promise!vars
      /\ r.chunked => Handed' = Handed \cup {cur}
      /\ Promise!Becomes(cur, Standing(r, cur))
  BY <1>1, <1>3, CurrentStands
<1>6. CASE r.outcome = "streaming"
  BY <1>3, <1>4, <1>5, <1>6 DEF Promise!HandOver, Handed
<1>7. CASE r.outcome = "pending"
  BY <1>3, <1>4, <1>5, <1>7
<1> QED BY <1>3, <1>6, <1>7

\* What is read of a response without coming to its end does not show.
LEMMA PromiseRead ==
  ASSUME ResponseInv, TypeOK', Receive \/ ParseHead
  PROVE  UNCHANGED Promise!vars
<1>1. pc # "idle"
  BY DEF Receive, ParseHead, Reading
<1>2. /\ calls[cur] \in CallRecords /\ cur \in 1 .. Len(calls)
      /\ calls[cur].outcome \in {"pending", "streaming"}
  BY <1>1, Underway DEF ResponseInv, PlacesInv, AdapterInv
<1>3. PICK r : /\ Becomes(r) /\ r.clean = calls[cur].clean /\ r.outcome = calls[cur].outcome
               /\ r.readers = calls[cur].readers /\ r.chunked = calls[cur].chunked
  <2>1. CASE Receive
    <3>1. PICK b : Becomes([calls[cur] EXCEPT !.buf = b])
      BY <2>1 DEF Receive
    <3> QED BY <1>2, <3>1 DEF CallRecords
  <2>2. CASE ParseHead
    <3> DEFINE t == [calls[cur] EXCEPT !.buf = Tail(@), !.answer = Head(Buf).id, !.rst = "body"]
    <3>1. Becomes(t)
      BY <2>2 DEF ParseHead
    <3>2. /\ t.clean = calls[cur].clean /\ t.outcome = calls[cur].outcome
          /\ t.readers = calls[cur].readers /\ t.chunked = calls[cur].chunked
      BY <1>2 DEF CallRecords
    <3> HIDE DEF t
    <3> QED BY <3>1, <3>2
  <2> QED BY <2>1, <2>2
<1>4. r \in CallRecords
  <2>1. DOMAIN calls = 1 .. Len(calls) /\ DOMAIN calls' = 1 .. Len(calls')
    BY QueueTypes, NextQueueTypes, LenProperties DEF ResponseInv, PlacesInv, AdapterInv
  <2>2. calls' = [calls EXCEPT ![cur] = r]
    BY <1>3 DEF Becomes
  <2>3. cur \in 1 .. Len(calls') /\ calls'[cur] = r
    BY <1>2, <2>1, <2>2
  <2> QED BY <2>3, NextQueueTypes
<1>5. Standing(r, cur) = Standing(calls[cur], cur)
  BY <1>2, <1>3 DEF Standing
<1> QED BY <1>1, <1>3, <1>4, <1>5, CurrentStands

\* A response that is read to its end is the one of its call, as long as every call was made
\* with all responses read, and none has been read again.
LEMMA PromiseAnswer ==
  ASSUME ResponseInv, ResponseInv', ParseRest \/ ParseInterim
  PROVE  Promise!Answer \/ Promise!Mistake
<1> DEFINE rst == IF ParseRest THEN "done" ELSE "interim"
           r == [calls[cur] EXCEPT
                   !.buf = <<>>,
                   !.answer = IF rst = "interim" THEN Head(Buf).id ELSE @,
                   !.body = Head(Buf).id, !.rst = rst, !.outcome = "ok"]
<1>1. pc # "idle" /\ Becomes(r) /\ rst \in {"done", "interim"}
  BY DEF ParseRest, ParseInterim, Complete, Reading
<1>2. calls[cur] \in CallRecords /\ cur \in 1 .. Len(calls)
  BY <1>1, Underway DEF ResponseInv, PlacesInv, AdapterInv
<1>3. /\ r.clean = calls[cur].clean /\ r.outcome = "ok" /\ r.rst = rst
      /\ r.readers = calls[cur].readers /\ r.chunked = calls[cur].chunked
  BY <1>2 DEF CallRecords
<1> HIDE DEF r, rst
<1>4. r \in CallRecords
  <2>1. DOMAIN calls = 1 .. Len(calls) /\ DOMAIN calls' = 1 .. Len(calls')
    BY QueueTypes, NextQueueTypes, LenProperties DEF ResponseInv, PlacesInv, AdapterInv
  <2>2. calls' = [calls EXCEPT ![cur] = r]
    BY <1>1 DEF Becomes
  <2>3. cur \in 1 .. Len(calls') /\ calls'[cur] = r
    BY <1>2, <2>1, <2>2
  <2> QED BY <2>3, NextQueueTypes DEF ResponseInv, PlacesInv, AdapterInv
<1>5. /\ cur \in DOMAIN calls /\ calls'[cur] = r /\ Len(calls') = Len(calls)
      /\ Promise!Becomes(cur, Standing(r, cur)) /\ UNCHANGED Handed
  BY <1>1, <1>3, <1>4, CurrentStands DEF ResponseInv, PlacesInv, AdapterInv
<1>6. CASE rst = "interim"
  <2>1. Standing(r, cur) = "interim"
    BY <1>3, <1>6 DEF Standing
  <2> QED BY <1>5, <2>1 DEF Promise!Answer, Handed
<1>7. CASE rst = "done" /\ r.answer = cur /\ r.body = cur
  <2>1. Standing(r, cur) = "own"
    BY <1>3, <1>7 DEF Standing
  <2> QED BY <1>5, <2>1 DEF Promise!Answer, Handed
<1>8. CASE rst = "done" /\ ~(r.answer = cur /\ r.body = cur)
  <2>1. Standing(r, cur) = "other"
    BY <1>3, <1>8 DEF Standing
  <2>2. ~(ReadOnce /\ \A i \in DOMAIN calls : calls[i].clean)
    <3>1. SUFFICES ASSUME ReadOnce, \A i \in DOMAIN calls : calls[i].clean PROVE FALSE
      OBVIOUS
    <3>2. DOMAIN calls = 1 .. Len(calls) /\ Len(calls) \in Nat
      BY QueueTypes, LenProperties DEF ResponseInv, PlacesInv, AdapterInv
    <3>3. ReadOnce' /\ \A i \in 1 .. Len(calls) : calls'[i].clean
      <4>1. ReadOnce' /\ (\A i \in DOMAIN calls : calls[i].clean)'
        BY <1>5, <3>1 DEF Promise!Becomes
      <4>2. DOMAIN calls' = 1 .. Len(calls')
        BY NextQueueTypes, LenProperties DEF ResponseInv, PlacesInv, AdapterInv
      <4> QED BY <1>5, <4>1, <4>2
    <3>4. cur < Len(calls) => cur + 1 \in 1 .. Len(calls)
      BY <1>2, <3>2
    <3>5. {r.answer, r.body} \subseteq {0, cur}
      BY <1>2, <1>5, <3>3, <3>4 DEF ResponseInv, PlacesInv, OwnResponse
    <3>6. r.answer # 0 /\ r.body # 0
      BY <1>2, <1>3, <1>5, <1>8 DEF ResponseInv, PlacesInv, RecordInv, Consistent
    <3> QED BY <1>8, <3>5, <3>6
  <2> QED BY <1>5, <2>1, <2>2 DEF Promise!Mistake, Handed
<1> QED BY <1>1, <1>6, <1>7, <1>8

\* A call is made with all responses read exactly when, until then, all calls have their own.
LEMMA PromiseAsk ==
  ASSUME ResponseInv, ResponseInv', Send
  PROVE  Promise!Ask
<1> USE DEF ResponseInv, PlacesInv, AdapterInv
<1>0. PICK n \in Nat : n = Len(calls)
  BY QueueTypes
<1>1. PICK h \in Hosts, secure \in BOOLEAN, stream \in BOOLEAN :
        calls' = Append(calls, NewCall(h, secure, stream))
  BY DEF Send
<1> DEFINE r == NewCall(h, secure, stream)
<1>2. /\ r \in CallRecords /\ r.outcome = "pending" /\ r.clean = AllRead
      /\ r.readers = 0 /\ ~r.chunked
  BY NewCallType DEF NewCall
<1> HIDE DEF r
<1>3. /\ Len(calls') = n + 1 /\ calls'[n + 1] = r
      /\ \A i \in 1 .. n : calls'[i] = calls[i]
  <2>1. calls' = Append(calls, r) /\ calls \in Seq(CallRecords)
    BY <1>1, QueueTypes DEF r
  <2> QED BY <1>0, <1>2, <2>1, AppendProperties
<1>4. /\ DOMAIN calls = 1 .. n /\ DOMAIN calls' = 1 .. n + 1
      /\ 1 .. n + 1 = (1 .. n) \cup {n + 1} /\ n + 1 \notin 1 .. n
  BY <1>0, <1>3, QueueTypes, NextQueueTypes, LenProperties
<1> DEFINE s == [i \in DOMAIN calls |-> Standing(calls[i], i)]
           t == [i \in DOMAIN calls' |-> Standing(calls'[i], i)]
           orderly == ReadOnce /\ \A i \in DOMAIN calls : calls[i].clean
<1>5. t = Append(s, "waiting")
  <2>1. s \in Seq(Standings) /\ Len(s) = n /\ "waiting" \in Standings
    BY <1>0, Stands DEF Standings
  <2>2. t \in Seq(Standings) /\ Len(t) = n + 1
    <3>1. \A c, i : Standing(c, i) \in Standings
      BY Stands
    <3>2. t \in [1 .. n + 1 -> Standings]
      BY <1>4, <3>1
    <3> HIDE DEF t
    <3> QED BY <1>0, <3>2, SeqDef, LenProperties
  <2>3. \A i \in 1 .. n : s[i] = t[i]
    BY <1>3, <1>4
  <2>4. t[n + 1] = "waiting"
    BY <1>2, <1>3, <1>4 DEF Standing
  <2> HIDE DEF s, t
  <2> DEFINE u == Append(s, "waiting")
  <2>5. /\ u \in Seq(Standings) /\ Len(u) = n + 1
        /\ \A i \in 1 .. n : u[i] = s[i]
        /\ u[n + 1] = "waiting"
    BY <2>1, AppendProperties
  <2> HIDE DEF u
  <2>6. \A i \in 1 .. Len(t) : t[i] = u[i]
    BY <1>4, <2>2, <2>3, <2>4, <2>5
  <2>7. t = u
    BY <2>2, <2>5, <2>6, SeqEqual
  <2> QED BY <2>7 DEF u
<1>9. (ReadOnce' <=> ReadOnce) /\ UNCHANGED Handed
  BY <1>0, <1>2, <1>3, <1>4 DEF ReadOnce, Handed
<1>6. ReadOnce' /\ (\A i \in DOMAIN calls' : calls'[i].clean) <=> orderly /\ AllRead
  BY <1>2, <1>3, <1>4, <1>9
<1>7. ASSUME orderly PROVE AllRead <=> \A i \in DOMAIN s : s[i] = "own"
  <2>1. ASSUME AllRead, NEW i \in 1 .. n PROVE s[i] = "own"
    <3>1. calls[i].outcome = "ok" /\ calls[i].rst = "done" /\ Consistent(calls[i])
      BY <1>0, <2>1 DEF AllRead, RecordInv
    <3>2. calls[i].answer # 0 /\ calls[i].body # 0
      BY <3>1 DEF Consistent
    <3>3. calls[i].clean /\ (i < n => calls[i + 1].clean)
      BY <1>0, <1>4, <1>7
    <3>4. {calls[i].answer, calls[i].body} \subseteq {0, i}
      BY <1>0, <1>7, <3>3 DEF OwnResponse
    <3>5. Standing(calls[i], i) = "own"
      BY <3>1, <3>2, <3>4 DEF Standing
    <3> QED BY <1>4, <3>5
  <2>2. ASSUME \A i \in 1 .. n : s[i] = "own", NEW i \in 1 .. n
        PROVE  calls[i].outcome = "ok" /\ calls[i].rst = "done"
    <3>1. Standing(calls[i], i) = "own"
      BY <1>4, <2>2
    <3>2. calls[i] \in CallRecords /\ Consistent(calls[i])
      BY <1>0, QueueTypes DEF RecordInv
    <3>3. calls[i].outcome = "ok" /\ calls[i].rst # "interim"
      BY <3>1, <3>2 DEF Standing, CallRecords
    <3> QED BY <3>2, <3>3 DEF Consistent
  <2>3. DOMAIN s = 1 .. n
    BY <1>4
  <2> HIDE DEF s
  <2> QED BY <1>0, <2>1, <2>2, <2>3 DEF AllRead
<1>8. (ReadOnce' /\ \A i \in DOMAIN calls' : calls'[i].clean) = (orderly /\ \A i \in DOMAIN s : s[i] = "own")
  <2> HIDE DEF s
  <2> QED BY <1>6, <1>7
<1> QED BY <1>5, <1>8, <1>9 DEF Promise!Ask, Handed

\* A new reader: the first does not show, another reads again what was handed over.
LEMMA PromiseOpen ==
  ASSUME ResponseInv, TypeOK', StreamOpen
  PROVE  Promise!ReadAgain \/ UNCHANGED Promise!vars
<1> USE DEF ResponseInv, PlacesInv, AdapterInv
<1>1. PICK i \in 1 .. Len(calls) :
        calls[i].chunked /\ calls' = [calls EXCEPT ![i] = Reopened(calls[i])]
  BY DEF StreamOpen
<1>2. PICK r : r = Reopened(calls[i])
  OBVIOUS
<1>3. /\ r \in CallRecords /\ r.readers > 0 /\ r.outcome = "streaming" /\ r.chunked
      /\ r.clean = calls[i].clean
      /\ r.readers <= 1 => calls[i].readers = 0 /\ calls[i].outcome = "streaming"
  <2>1. Consistent(calls[i])
    BY DEF RecordInv
  <2> QED BY <1>1, <1>2, <2>1, ReopenedRecord
<1>4. /\ Len(calls') = Len(calls) /\ Len(calls) \in Nat
      /\ \A j \in 1 .. Len(calls) : calls'[j] = IF j = i THEN r ELSE calls[j]
  BY <1>1, <1>2, <1>3, QueueTypes, CallsUpdate
<1>5. DOMAIN calls = 1 .. Len(calls) /\ DOMAIN calls' = 1 .. Len(calls)
  BY <1>4, Stands, NextQueueTypes, LenProperties
<1>6. Standing(r, i) = "unread" /\ (calls[i].outcome = "streaming" => Standing(calls[i], i) = "unread")
  BY <1>3 DEF Standing
<1>7. calls[i].chunked = r.chunked /\ calls[i].chunked \in BOOLEAN
  <2>1. calls[i] \in CallRecords
    BY QueueTypes
  <2> QED BY <1>1, <1>3, <2>1 DEF CallRecords
<1>8. CASE r.readers <= 1
  <2>1. \A j \in 1 .. Len(calls) :
          /\ calls'[j].clean = calls[j].clean /\ calls'[j].chunked = calls[j].chunked
          /\ calls'[j].readers <= 1 <=> calls[j].readers <= 1
          /\ Standing(calls'[j], j) = Standing(calls[j], j)
    <3>1. /\ calls[i].readers = 0 /\ calls[i].outcome = "streaming"
          /\ Standing(r, i) = Standing(calls[i], i)
      BY <1>3, <1>6, <1>8
    <3>2. calls[i].readers <= 1
      BY <3>1
    <3> QED BY <1>3, <1>4, <1>7, <1>8, <3>1, <3>2
  <2> QED BY <1>4, <2>1, StandsStill
<1>9. CASE ~(r.readers <= 1)
  <2>1. ~ReadOnce'
    BY <1>4, <1>9 DEF ReadOnce
  <2>2. UNCHANGED Handed /\ i \in Handed
    BY <1>1, <1>4, <1>5, <1>7 DEF Handed
  <2>3. [j \in DOMAIN calls |-> Standing(calls[j], j)]'
          = [[j \in DOMAIN calls |-> Standing(calls[j], j)] EXCEPT ![i] = "unread"]
    BY <1>4, <1>5, <1>6
  <2> QED BY <2>1, <2>2, <2>3 DEF Promise!ReadAgain, Handed
<1> QED BY <1>8, <1>9

\* Every step of the adapter is one of Exchange's, or none.
LEMMA PromiseStep ==
  ASSUME ResponseInv, ResponseInv', [Next]_vars
  PROVE  [Promise!Next]_(Promise!vars)
<1> USE DEF ResponseInv, PlacesInv, AdapterInv
<1>1. CASE Send
  BY <1>1, PromiseAsk DEF Promise!Next
<1>2. CASE Write
  BY <1>2, PromiseWrite DEF Promise!Next
<1>3. CASE Receive \/ ParseHead
  BY <1>3, PromiseRead
<1>4. CASE ParseRest \/ ParseInterim
  BY <1>4, PromiseAnswer DEF Promise!Next
<1>5. CASE ConnectFails \/ SetupFails \/ HandshakeRefused \/ HandshakeFails \/ WriteFails
             \/ ReadFails \/ StreamFails
  <2>1. pc # "idle" /\ (Fails \/ StreamFails)
    BY <1>5 DEF ConnectFails, SetupFails, HandshakeRefused, HandshakeFails, WriteFails,
                ReadFails, StreamFails
  <2> QED BY <2>1, PromiseFail DEF Promise!Next
<1>6. CASE ServeRequest
  <2> DEFINE i == Head(c2s).id
  <2>1. calls' = [calls EXCEPT ![i] = [calls[i] EXCEPT !.served = peer]]
    BY <1>6 DEF ServeRequest
  <2> HIDE DEF i
  <2>2. Len(calls') = Len(calls) /\ DOMAIN calls = 1 .. Len(calls)
    BY <1>6, ServeRequestStep, Stands
  <2>3. \A j \in 1 .. Len(calls) :
          /\ calls'[j].clean = calls[j].clean /\ calls'[j].chunked = calls[j].chunked
          /\ calls'[j].readers = calls[j].readers
          /\ calls'[j].outcome = calls[j].outcome /\ calls'[j].rst = calls[j].rst
          /\ calls'[j].answer = calls[j].answer /\ calls'[j].body = calls[j].body
    <3>1. TAKE j \in 1 .. Len(calls)
    <3>2. calls[j] \in CallRecords
      BY QueueTypes
    <3>3. calls'[j] = calls[j] \/ calls'[j] = [calls[j] EXCEPT !.served = peer]
      BY <2>1, <2>2
    <3> QED BY <3>2, <3>3 DEF CallRecords
  <2>4. \A j \in 1 .. Len(calls) : Standing(calls'[j], j) = Standing(calls[j], j)
    BY <2>3 DEF Standing
  <2> QED BY <2>2, <2>3, <2>4, StandsStill
<1>7. CASE Connect \/ Hello \/ HandshakeDone \/ StreamTerminates \/ StreamBegin \/ StreamLeave
             \/ ServeHello \/ ServeJunk \/ ServerCloses \/ UNCHANGED vars
  <2>1. UNCHANGED calls
    BY <1>7 DEF Connect, Hello, HandshakeDone, StreamTerminates, StreamBegin, StreamLeave,
                ServeHello, ServeJunk, ServerCloses, vars
  <2> QED BY <2>1, StandsStill
<1>8. CASE StreamOpen
  BY <1>8, PromiseOpen DEF Promise!Next
<1> QED BY <1>1, <1>2, <1>3, <1>4, <1>5, <1>6, <1>7, <1>8 DEF Next, Client, Serve

\* The adapter keeps the promise of Exchange: it gives every response to its call, or a
\* failure, to a caller who makes his calls one after the other and reads what he is given once,
\* and it changes what it has given only for a caller who reads a response again.
THEOREM KeepsPromise == Spec => InOrder
<1>1. Init => Promise!Init
  <2>1. SUFFICES ASSUME Init PROVE Promise!Init
    OBVIOUS
  <2>2. calls = <<>> /\ DOMAIN <<>> = {}
    BY <2>1 DEF Init
  <2>3. [i \in DOMAIN calls |-> Standing(calls[i], i)] = <<>>
    BY <2>2
  <2>4. ReadOnce
    BY <2>2, EmptySeq DEF ReadOnce
  <2> QED BY <2>2, <2>3, <2>4 DEF Promise!Init
<1>2. ResponseInv /\ ResponseInv' /\ [Next]_vars => [Promise!Next]_(Promise!vars)
  BY PromiseStep
<1> QED BY <1>1, <1>2, ResponseInvariant, PTL DEF Spec, InOrder, Promise!Spec

-----------------------------------------------------------------------------
(* What a step other than Send leaves of the calls *)

\* What a call was given when it was made.
ArgumentsKept ==
  /\ Len(calls') = Len(calls)
  /\ \A i \in 1 .. Len(calls) :
       /\ calls'[i].host = calls[i].host /\ calls'[i].secure = calls[i].secure
       /\ calls'[i].stream = calls[i].stream /\ calls'[i].clean = calls[i].clean

\* What changes one record and leaves its arguments, changes no arguments.
LEMMA OneRecord ==
  ASSUME TypeOK, TypeOK', NEW k \in 1 .. Len(calls), NEW r,
         calls' = [calls EXCEPT ![k] = r],
         /\ r.host = calls[k].host /\ r.secure = calls[k].secure
         /\ r.stream = calls[k].stream /\ r.clean = calls[k].clean
  PROVE  /\ ArgumentsKept
         /\ \A i \in 1 .. Len(calls) : calls'[i] = IF i = k THEN r ELSE calls[i]
<1>1. /\ DOMAIN calls = 1 .. Len(calls) /\ DOMAIN calls' = 1 .. Len(calls')
      /\ Len(calls) \in Nat /\ Len(calls') \in Nat
  BY QueueTypes, NextQueueTypes, LenProperties
<1>2. DOMAIN calls' = DOMAIN calls
  OBVIOUS
<1>3. Len(calls') = Len(calls)
  BY <1>1, <1>2
<1>4. \A i \in 1 .. Len(calls) : calls'[i] = IF i = k THEN r ELSE calls[i]
  BY <1>1
<1> QED BY <1>3, <1>4 DEF ArgumentsKept

\* The steps of this section.
Later == StreamOpen \/ StreamBegin \/ StreamLeave \/ Client \/ Serve \/ ServerCloses \/ UNCHANGED vars

\* A call keeps its arguments when the thread or the server changes the rest of its record, and
\* it comes to a good end only where it is read, and gets a reader only from StreamOpen.
LEMMA CallsKept ==
  ASSUME ResponseInv, ResponseInv', Later
  PROVE  /\ ArgumentsKept
         /\ \A i \in 1 .. Len(calls) :
              /\ calls'[i].outcome = "ok" =>
                   calls[i].outcome = "ok" \/ (i = cur /\ pc \in {"read", "stream"})
              /\ calls'[i].readers = calls[i].readers \/ StreamOpen
<1> USE DEF ResponseInv, PlacesInv, AdapterInv
<1>1. \A i \in 1 .. Len(calls) : calls[i] \in CallRecords
  BY QueueTypes
<1>2. CASE UNCHANGED calls
  BY <1>2 DEF ArgumentsKept
<1>3. ASSUME pc # "idle", NEW r, Becomes(r),
             /\ r.host = calls[cur].host /\ r.secure = calls[cur].secure
             /\ r.stream = calls[cur].stream /\ r.clean = calls[cur].clean
             /\ r.readers = calls[cur].readers,
             r.outcome = "ok" => calls[cur].outcome = "ok" \/ pc \in {"read", "stream"}
      PROVE  /\ ArgumentsKept
             /\ \A i \in 1 .. Len(calls) :
                  /\ calls'[i].outcome = "ok" =>
                       calls[i].outcome = "ok" \/ (i = cur /\ pc \in {"read", "stream"})
                  /\ calls'[i].readers = calls[i].readers
  <2>1. TypeOK /\ TypeOK' /\ cur \in 1 .. Len(calls) /\ calls' = [calls EXCEPT ![cur] = r]
    BY <1>3, Current DEF Becomes
  <2>2. /\ ArgumentsKept
        /\ \A i \in 1 .. Len(calls) : calls'[i] = IF i = cur THEN r ELSE calls[i]
    BY <1>3, <2>1, OneRecord
  <2> QED BY <1>3, <2>2
<1>4. pc # "idle" => calls[cur] \in CallRecords
  BY Current
<1>5. CASE Fails /\ pc # "idle"
  <2> DEFINE r == [calls[cur] EXCEPT !.outcome = "error", !.buf = <<>>]
  <2>1. /\ Becomes(r) /\ r.outcome = "error"
        /\ r.host = calls[cur].host /\ r.secure = calls[cur].secure
        /\ r.stream = calls[cur].stream /\ r.clean = calls[cur].clean
        /\ r.readers = calls[cur].readers
    BY <1>4, <1>5 DEF Fails, CallRecords
  <2> HIDE DEF r
  <2> QED BY <1>3, <1>5, <2>1
<1>6. CASE StreamFails
  <2> DEFINE r == [calls[cur] EXCEPT !.outcome = "error", !.buf = <<>>, !.rst = "failed"]
  <2>1. /\ Becomes(r) /\ r.outcome = "error" /\ pc # "idle"
        /\ r.host = calls[cur].host /\ r.secure = calls[cur].secure
        /\ r.stream = calls[cur].stream /\ r.clean = calls[cur].clean
        /\ r.readers = calls[cur].readers
    BY <1>4, <1>6 DEF StreamFails, CallRecords
  <2> HIDE DEF r
  <2> QED BY <1>3, <2>1
<1>7. CASE Write
  <2> DEFINE r == Marked(calls[cur])
  <2>1. /\ Becomes(r) /\ (r.outcome = "ok" => calls[cur].outcome = "ok") /\ pc # "idle"
        /\ r.host = calls[cur].host /\ r.secure = calls[cur].secure
        /\ r.stream = calls[cur].stream /\ r.clean = calls[cur].clean
        /\ r.readers = calls[cur].readers
    BY <1>4, <1>7 DEF Write, CallRecords, Marked
  <2> HIDE DEF r
  <2> QED BY <1>3, <2>1
<1>8. CASE Receive
  <2>1. PICK b : Becomes([calls[cur] EXCEPT !.buf = b])
    BY <1>8 DEF Receive
  <2> DEFINE r == [calls[cur] EXCEPT !.buf = b]
  <2>2. /\ Becomes(r) /\ r.outcome = calls[cur].outcome /\ pc # "idle"
        /\ r.host = calls[cur].host /\ r.secure = calls[cur].secure
        /\ r.stream = calls[cur].stream /\ r.clean = calls[cur].clean
        /\ r.readers = calls[cur].readers
    BY <1>4, <1>8, <2>1 DEF Receive, Reading, CallRecords
  <2> HIDE DEF r
  <2> QED BY <1>3, <2>2
<1>9. CASE ParseHead
  <2> DEFINE r == [calls[cur] EXCEPT !.buf = Tail(@), !.answer = Head(Buf).id, !.rst = "body"]
  <2>1. /\ Becomes(r) /\ r.outcome = calls[cur].outcome /\ pc # "idle"
        /\ r.host = calls[cur].host /\ r.secure = calls[cur].secure
        /\ r.stream = calls[cur].stream /\ r.clean = calls[cur].clean
        /\ r.readers = calls[cur].readers
    BY <1>4, <1>9 DEF ParseHead, Reading, CallRecords
  <2> HIDE DEF r
  <2> QED BY <1>3, <2>1
<1>10. ASSUME NEW rst, Complete(rst), Reading
       PROVE  /\ ArgumentsKept
              /\ \A i \in 1 .. Len(calls) :
                   /\ calls'[i].outcome = "ok" =>
                        calls[i].outcome = "ok" \/ (i = cur /\ pc \in {"read", "stream"})
                   /\ calls'[i].readers = calls[i].readers
  <2> DEFINE r == [calls[cur] EXCEPT
                     !.buf = <<>>,
                     !.answer = IF rst = "interim" THEN Head(Buf).id ELSE @,
                     !.body = Head(Buf).id, !.rst = rst, !.outcome = "ok"]
  <2>1. /\ Becomes(r) /\ pc \in {"read", "stream"}
        /\ r.host = calls[cur].host /\ r.secure = calls[cur].secure
        /\ r.stream = calls[cur].stream /\ r.clean = calls[cur].clean
        /\ r.readers = calls[cur].readers
    BY <1>4, <1>10 DEF Complete, Reading, CallRecords
  <2> HIDE DEF r
  <2> QED BY <1>3, <2>1
<1>11. CASE ServeRequest
  <2>1. PICK k : k = Head(c2s).id
    OBVIOUS
  <2> DEFINE r == [calls[k] EXCEPT !.served = peer]
  <2>2. calls' = [calls EXCEPT ![k] = r]
    BY <1>11, <2>1 DEF ServeRequest
  <2>3. k \in 1 .. Len(calls)
    <3>1. 1 \in 1 .. Len(c2s) /\ Head(c2s) = c2s[1] /\ c2s[1].kind = "req"
      BY <1>11, QueueTypes, HeadTailProperties, LenProperties, EmptySeq DEF ServeRequest
    <3> QED BY <2>1, <3>1 DEF WireInv, Only
  <2>4. /\ r.host = calls[k].host /\ r.secure = calls[k].secure /\ r.outcome = calls[k].outcome
        /\ r.stream = calls[k].stream /\ r.clean = calls[k].clean
        /\ r.readers = calls[k].readers
    BY <1>1, <2>3 DEF CallRecords
  <2> HIDE DEF r
  <2>5. TypeOK /\ TypeOK'
    OBVIOUS
  <2>6. /\ ArgumentsKept
        /\ \A i \in 1 .. Len(calls) : calls'[i] = IF i = k THEN r ELSE calls[i]
    BY <2>2, <2>3, <2>4, <2>5, OneRecord
  <2> QED BY <2>4, <2>6
<1>12. CASE ConnectFails \/ SetupFails \/ HandshakeRefused \/ HandshakeFails \/ WriteFails \/ ReadFails
  BY <1>5, <1>12 DEF ConnectFails, SetupFails, HandshakeRefused, HandshakeFails, WriteFails, ReadFails
<1>13. CASE ParseRest \/ ParseInterim
  BY <1>10, <1>13 DEF ParseRest, ParseInterim
<1>14. CASE Connect \/ Hello \/ HandshakeDone \/ StreamTerminates \/ StreamBegin \/ StreamLeave
              \/ ServeHello \/ ServeJunk \/ ServerCloses \/ UNCHANGED vars
  BY <1>2, <1>14 DEF Connect, Hello, HandshakeDone, StreamTerminates, StreamBegin, StreamLeave,
                     ServeHello, ServeJunk, ServerCloses, vars
<1>15. CASE StreamOpen
  <2>1. PICK k \in 1 .. Len(calls) : calls' = [calls EXCEPT ![k] = Reopened(calls[k])]
    BY <1>15 DEF StreamOpen
  <2> DEFINE r == Reopened(calls[k])
  <2>2. /\ r.host = calls[k].host /\ r.secure = calls[k].secure /\ r.outcome = "streaming"
        /\ r.stream = calls[k].stream /\ r.clean = calls[k].clean
    BY <1>1 DEF CallRecords, Reopened
  <2>3. calls' = [calls EXCEPT ![k] = r]
    BY <2>1
  <2> HIDE DEF r
  <2>4. TypeOK /\ TypeOK'
    OBVIOUS
  <2>5. /\ ArgumentsKept
        /\ \A i \in 1 .. Len(calls) : calls'[i] = IF i = k THEN r ELSE calls[i]
    BY <2>2, <2>3, <2>4, OneRecord
  <2> QED BY <1>15, <2>2, <2>5
<1> QED BY <1>6, <1>7, <1>8, <1>9, <1>11, <1>12, <1>13, <1>14, <1>15 DEF Later, Client, Serve

\* The server is asked by a call only once, and a handshake is made only in HandshakeDone.
LEMMA AskedKept ==
  ASSUME ResponseInv, ResponseInv', Later, NEW i \in 1 .. Len(calls)
  PROVE  /\ calls'[i].served # NoHost \/ Asked(i)' => calls[i].served # NoHost \/ Asked(i)
         /\ Shaken(i)' => Shaken(i) \/ (HandshakeDone /\ i = cur)
<1> USE DEF ResponseInv, PlacesInv, AdapterInv
<1>1. Len(calls') = Len(calls) /\ calls'[i].secure = calls[i].secure
  BY CallsKept DEF ArgumentsKept
<1>2. CASE Write
  <2> DEFINE m == ToServer("req", calls[cur].secure, cur)
             w == <<m>>
  <2>1. /\ pc = "write" /\ pc' \notin Asking /\ m.id = cur
        /\ c2s' \in {c2s, c2s \o w}
        /\ calls' = [calls EXCEPT ![cur] = Marked(calls[cur])]
    BY <1>2 DEF Write, Written, Becomes, Asking, ToServer
  <2>2. w \in Seq(Outgoing) /\ Len(w) = 1 /\ w[1] = m
    <3>1. m \in Outgoing
      <4>1. calls[cur].secure \in BOOLEAN /\ cur \in 0 .. MaxCalls
        BY <2>1, Current DEF CallRecords
      <4> QED BY <4>1, MessageTypes DEF ToServerKinds
    <3> HIDE DEF m
    <3> QED BY <3>1
  <2> HIDE DEF m
  <2>3. Carries(w, {"req"}, i) => i = cur
    BY <2>1, <2>2 DEF Carries
  <2> HIDE DEF w
  <2>4. Carries(c2s \o w, {"req"}, i) => Carries(c2s, {"req"}, i) \/ i = cur
    BY <2>2, <2>3, ConcatQueues, QueueTypes
  <2>5. Carries(c2s', {"req"}, i) => Carries(c2s, {"req"}, i) \/ i = cur
    BY <2>1, <2>4
  <2>6. calls'[i].served = calls[i].served
    <3>1. DOMAIN calls = 1 .. Len(calls) /\ calls[i] \in CallRecords
      BY QueueTypes, LenProperties
    <3> QED BY <2>1, <3>1 DEF CallRecords, Marked
  <2>7. pc' # "write" /\ "write" \in Asking
    BY <2>1 DEF Asking
  <2> QED BY <1>1, <2>1, <2>5, <2>6, <2>7 DEF Asked, Shaken
<1>3. CASE Receive
  <2>1. UNCHANGED <<c2s, pc, cur>> /\ \E b : calls' = [calls EXCEPT ![cur] = [calls[cur] EXCEPT !.buf = b]]
    BY <1>3 DEF Receive, Becomes
  <2>2. calls'[i].served = calls[i].served
    <3>1. DOMAIN calls = 1 .. Len(calls) /\ calls[i] \in CallRecords
      BY QueueTypes, LenProperties
    <3> QED BY <2>1, <3>1 DEF CallRecords
  <2> QED BY <1>1, <2>1, <2>2 DEF Asked, Shaken
<1>4. CASE ServeRequest
  <2>1. /\ c2s # <<>> /\ Head(c2s).kind = "req" /\ c2s' = Tail(c2s)
        /\ calls' = [calls EXCEPT ![Head(c2s).id] = [calls[Head(c2s).id] EXCEPT !.served = peer]]
        /\ UNCHANGED <<pc, cur>>
    BY <1>4 DEF ServeRequest
  <2>2. i # Head(c2s).id => calls'[i] = calls[i]
    BY <2>1
  <2>3. i = Head(c2s).id => Carries(c2s, {"req"}, i)
    <3>1. 1 \in 1 .. Len(c2s) /\ Head(c2s) = c2s[1]
      BY <2>1, QueueTypes, HeadTailProperties, LenProperties, EmptySeq
    <3> QED BY <2>1, <3>1 DEF Carries
  <2>4. Carries(c2s', {"req"}, i) => Carries(c2s, {"req"}, i)
    <3>1. Suffix(c2s, c2s')
      BY <2>1, QueuesLeft
    <3> QED BY <3>1, QueueTypes, NextQueueTypes, SuffixKept, KeptFewer DEF Fewer
  <2> QED BY <1>1, <2>1, <2>2, <2>3, <2>4 DEF Asked, Shaken
<1>5. CASE HandshakeDone
  <2>1. pc = "handshake" /\ pc' = "write" /\ UNCHANGED <<cur, c2s, calls>>
    BY <1>5 DEF HandshakeDone
  <2> QED BY <1>5, <2>1 DEF Asked, Shaken, Asking
<1>6. ASSUME Local, calls'[i].served = calls[i].served,
             pc' = "write" => pc = "write" \/ ~calls[cur].secure
      PROVE  /\ Asked(i)' => Asked(i)
             /\ Shaken(i)' => Shaken(i)
  <2>1. "head" \in Parts
    BY DEF Parts
  <2> QED BY <1>6, <2>1, LocalPlaces, LocalShaken
<1>7. CASE \/ Connect \/ Hello
           \/ ConnectFails \/ SetupFails \/ HandshakeRefused \/ HandshakeFails \/ WriteFails \/ ReadFails
           \/ ParseHead \/ ParseRest \/ ParseInterim \/ StreamFails \/ StreamTerminates
           \/ StreamOpen \/ StreamBegin \/ StreamLeave \/ ServeHello \/ ServeJunk \/ ServerCloses \/ UNCHANGED vars
  <2>1. RecordsKept /\ Local
    BY <1>7, SetupLocal, FailsLocal, ReaderLocal, PeerLocal
  <2>2. calls'[i].served = calls[i].served
    BY <2>1 DEF RecordsKept, RecordKept
  <2>3. pc' = "write" => pc = "write" \/ ~calls[cur].secure
    <3>1. CASE Connect \/ Hello \/ ServeHello \/ ServeJunk \/ ServerCloses \/ UNCHANGED vars
      BY <3>1 DEF Connect, Connected, Hello, ServeHello, ServeJunk, ServerCloses, vars
    <3>2. CASE ConnectFails \/ SetupFails \/ HandshakeRefused \/ HandshakeFails \/ WriteFails \/ ReadFails
      BY <3>2, FailsLocal
    <3>3. CASE ParseHead \/ ParseRest \/ ParseInterim \/ StreamFails \/ StreamTerminates
               \/ StreamOpen \/ StreamBegin \/ StreamLeave
      BY <3>3, ReaderLocal DEF Asking
    <3> QED BY <1>7, <3>1, <3>2, <3>3
  <2> QED BY <1>6, <2>1, <2>2, <2>3
<1> QED BY <1>2, <1>3, <1>4, <1>5, <1>7 DEF Later, Client, Serve

\* The peer is chosen by connect_to_peer, in the last call.
LEMMA PeerKept ==
  ASSUME ResponseInv, Later \/ Send
  PROVE  peer' = peer \/ (Connect /\ cur = Len(calls) /\ cur \in 1 .. Len(calls) /\ peer' = calls[cur].host)
<1> USE DEF ResponseInv, PlacesInv, AdapterInv
<1>1. CASE Connect
  <2>1. pc = "connect" /\ peer' = calls[cur].host
    BY <1>1 DEF Connect
  <2> QED BY <1>1, <2>1, Underway
<1>2. CASE ~Connect
  BY <1>2 DEF Later, Client, Serve, Send, ConnectFails, Hello, SetupFails, HandshakeDone, HandshakeRefused,
              HandshakeFails, Write, WriteFails, Receive, ParseHead, ParseRest, ParseInterim, Complete,
              ReadFails, StreamFails, StreamTerminates, StreamOpen, StreamBegin, StreamLeave, ServeHello,
              ServeRequest, ServeJunk, ServerCloses, adapterVars, vars
<1> QED BY <1>1, <1>2

\* Every step keeps PeerInv.
LEMMA PeerStep ==
  ASSUME ResponseInv, ResponseInv', PeerInv, [Next]_vars
  PROVE  PeerInv'
<1> USE DEF ResponseInv, PlacesInv, AdapterInv
<1>1. SUFFICES ASSUME peer' # NoHost
               PROVE  \E j \in 1 .. Len(calls') :
                        /\ calls'[j].host = peer'
                        /\ \A i \in 1 .. j - 1 : calls'[i].served = NoHost /\ ~Asked(i)'
  BY DEF PeerInv
<1>2. Len(calls) \in Nat
  BY QueueTypes
<1>3. CASE Later /\ ~Connect
  <2>1. peer' = peer
    BY <1>3, PeerKept
  <2>2. PICK j \in 1 .. Len(calls) :
          /\ calls[j].host = peer
          /\ \A i \in 1 .. j - 1 : calls[i].served = NoHost /\ ~Asked(i)
    BY <1>1, <2>1 DEF PeerInv
  <2>3. ArgumentsKept
    BY <1>3, CallsKept
  <2>4. \A i \in 1 .. j - 1 : calls'[i].served = NoHost /\ ~Asked(i)'
    <3>1. TAKE i \in 1 .. j - 1
    <3>2. i \in 1 .. Len(calls)
      BY <1>2
    <3> QED BY <1>3, <2>2, <3>2, AskedKept
  <2>5. calls'[j].host = calls[j].host /\ j \in 1 .. Len(calls')
    BY <2>3 DEF ArgumentsKept
  <2> QED BY <2>1, <2>2, <2>4, <2>5
<1>4. CASE Connect
  <2>1. /\ pc = "connect" /\ UNCHANGED <<calls, cur>> /\ c2s' = <<>>
        /\ peer' = calls[cur].host /\ cur \in 1 .. Len(calls)
    BY <1>4, Current DEF Connect
  <2>2. \A i \in 1 .. Len(calls) : calls[i].served = NoHost
    BY <2>1 DEF HostInv
  <2>3. \A i : ~Carries(<<>>, {"req"}, i)
    BY EmptySeq DEF Carries
  <2>4. \A i \in 1 .. cur - 1 : calls'[i].served = NoHost /\ ~Asked(i)'
    BY <1>2, <2>1, <2>2, <2>3 DEF Asked
  <2> QED BY <2>1, <2>4
<1>5. CASE Send
  <2>1. /\ Len(calls') = Len(calls) + 1 /\ cur' = Len(calls) + 1 /\ UNCHANGED <<peer, c2s>>
        /\ \A i \in 1 .. Len(calls) : calls'[i] = calls[i]
    <3>1. PICK h \in Hosts, secure \in BOOLEAN, stream \in BOOLEAN :
            calls' = Append(calls, NewCall(h, secure, stream))
      BY <1>5 DEF Send
    <3>2. NewCall(h, secure, stream) \in CallRecords
      BY NewCallType
    <3> QED BY <1>5, <3>1, <3>2, QueueTypes, AppendProperties DEF Send, adapterVars, wireVars
  <2>2. PICK j \in 1 .. Len(calls) :
          /\ calls[j].host = peer
          /\ \A i \in 1 .. j - 1 : calls[i].served = NoHost /\ ~Asked(i)
    BY <1>1, <2>1 DEF PeerInv
  <2>3. \A i \in 1 .. j - 1 : calls'[i].served = NoHost /\ ~Asked(i)'
    BY <1>2, <2>1, <2>2 DEF Asked
  <2> QED BY <1>2, <2>1, <2>2, <2>3
<1> QED BY <1>3, <1>4, <1>5 DEF Next, Later

\* The host that serves a call is named by it or by an earlier one, the first that connected; before
\* that one, none is served (connect_to_peer).
THEOREM PeerOfFirstCall == Spec => []PeerInv
<1>1. Init => PeerInv
  BY DEF Init, PeerInv
<1>2. ResponseInv /\ ResponseInv' /\ PeerInv /\ [Next]_vars => PeerInv'
  BY PeerStep
<1> QED BY <1>1, <1>2, ResponseInvariant, PTL DEF Spec

\* A call is read in send_impl only if it is not streamed, and in a loop only after StreamOpen
\* or StreamBegin.
LEMMA ReadersAre ==
  ASSUME Later
  PROVE  /\ pc' = "read" => UNCHANGED cur /\ (pc = "read" \/ (pc = "write" /\ ~calls[cur].stream))
         /\ pc' \in {"stream", "terminated"} =>
              pc \in {"stream", "terminated"} \/ StreamOpen \/ StreamBegin
BY DEF Later, Client, Serve, Connect, ConnectFails, Connected, Hello, SetupFails, HandshakeDone, HandshakeRefused,
       HandshakeFails, Write, WriteFails, Receive, ParseHead, ParseRest, ParseInterim, Complete, Fails,
       ReadFails, StreamFails, StreamTerminates, StreamOpen, StreamBegin, StreamLeave, ServeHello,
       ServeRequest, ServeJunk, ServerCloses, adapterVars, vars

\* Send adds a call for which no handshake was made yet, and leaves the others alone.
LEMMA SendLeaves ==
  ASSUME ResponseInv, Send
  PROVE  LET n == Len(calls)
         IN  /\ n \in Nat /\ Len(calls') = n + 1 /\ calls'[n + 1].outcome = "pending"
             /\ calls'[n + 1].clean = AllRead /\ calls'[n + 1].readers = 0
             /\ \A i \in 1 .. n : calls'[i] = calls[i]
             /\ pc' \in {"connect", "hello", "write"}
             /\ \A i \in 1 .. n + 1 : Shaken(i)' => i \in 1 .. n /\ Shaken(i)
<1> USE DEF ResponseInv, PlacesInv, AdapterInv
<1>1. PICK h \in Hosts, secure \in BOOLEAN, stream \in BOOLEAN :
        /\ calls' = Append(calls, NewCall(h, secure, stream))
        /\ pc' = IF is_connected THEN Connected(secure) ELSE "connect"
  BY DEF Send
<1> DEFINE r == NewCall(h, secure, stream)
<1>2. /\ r \in CallRecords /\ r.outcome = "pending" /\ r.clean = AllRead /\ r.served = NoHost
      /\ r.secure = secure /\ r.readers = 0
  BY NewCallType DEF NewCall
<1> HIDE DEF r
<1>3. PICK n \in Nat : n = Len(calls)
  BY QueueTypes
<1>4. Len(calls') = n + 1 /\ calls'[n + 1] = r /\ \A i \in 1 .. n : calls'[i] = calls[i]
  <2>1. calls' = Append(calls, r)
    BY <1>1 DEF r
  <2> QED BY <1>2, <1>3, <2>1, QueueTypes, AppendProperties
<1>5. /\ pc = "idle" /\ cur' = n + 1 /\ c2s' = c2s
      /\ pc' \in {"connect", "hello", "write"} /\ (pc' = "write" => ~secure)
  BY <1>1, <1>3 DEF Send, wireVars, Connected
<1>6. ~Carries(c2s, {"req"}, n + 1)
  <2>1. n + 1 \notin 1 .. n
    BY <1>3
  <2> QED BY <1>3, <2>1 DEF WireInv, Only, Carries
<1>7. ASSUME NEW i \in 1 .. n + 1, Shaken(i)' PROVE i \in 1 .. n /\ Shaken(i)
  <2>1. i # n + 1
    BY <1>2, <1>4, <1>5, <1>6, <1>7 DEF Shaken
  <2>2. i \in 1 .. n
    BY <1>3, <2>1
  <2>3. calls'[i] = calls[i] /\ cur' # i
    BY <1>3, <1>4, <1>5, <2>2
  <2> QED BY <1>5, <1>7, <2>2, <2>3 DEF Shaken
<1> QED BY <1>2, <1>3, <1>4, <1>5, <1>7

=============================================================================
