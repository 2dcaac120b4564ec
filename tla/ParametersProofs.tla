--------------------------- MODULE ParametersProofs ---------------------------
(***************************************************************************)
(* Theorems about Parameters: what its folds come to, for lists of any     *)
(* length.                                                                 *)
(***************************************************************************)
EXTENDS Parameters, WellFoundedInduction, TLAPS

\* A set of natural numbers has a least element.
LEMMA Least ==
  ASSUME NEW T \in SUBSET Nat, T # {}
  PROVE  \E x \in T : \A y \in T : x <= y
<1> DEFINE R == OpToRel(<, Nat)
<1>1. \E x \in T : \A y \in T : ~ (<<y, x>> \in R)
  <2>1. IsWellFoundedOn(R, Nat)
    BY NatLessThanWellFounded
  <2> HIDE DEF R
  <2> QED BY <2>1, WFMin
<1>2. \A x, y \in Nat : (<<y, x>> \in R) <=> (y < x)
  BY DEF OpToRel
<1> HIDE DEF R
<1>3. PICK x \in T : \A y \in T : ~ (<<y, x>> \in R)
  BY <1>1
<1>4. ASSUME NEW y \in T
      PROVE  x <= y
  <2>1. ~(y < x)
    BY <1>2, <1>3
  <2> QED BY <2>1
<1> QED BY <1>3, <1>4

\* The largest and the smallest of some of the places in a list.
LEMMA Extremes ==
  ASSUME NEW n \in Nat, NEW S \in SUBSET (1 .. n), S # {}
  PROVE  /\ Max(S) \in S /\ \A y \in S : y <= Max(S)
         /\ Min(S) \in S /\ \A y \in S : Min(S) <= y
<1>1. Min(S) \in S /\ \A y \in S : Min(S) <= y
  <2>1. \E x \in S : \A y \in S : x <= y
    BY Least
  <2> QED BY <2>1 DEF Min
<1>2. \E x \in S : \A y \in S : x >= y
  <2> DEFINE T == {n - y : y \in S}
  <2>1. T \in SUBSET Nat /\ T # {}
    <3>1. \A y \in S : n - y \in Nat
      OBVIOUS
    <3> QED BY <3>1
  <2>2. PICK t \in T : \A u \in T : t <= u
    BY <2>1, Least
  <2>3. PICK x \in S : t = n - x
    OBVIOUS
  <2>4. \A y \in S : n - x <= n - y
    BY <2>2, <2>3
  <2>5. \A y \in S : x >= y
    BY <2>4
  <2> QED BY <2>5
<1>3. Max(S) \in S /\ \A y \in S : Max(S) >= y
  BY <1>2 DEF Max
<1> QED BY <1>1, <1>3

\* There is one largest of them.
LEMMA SameBound ==
  ASSUME NEW n \in Nat, NEW S \in SUBSET (1 .. n),
         NEW x \in S, NEW m \in S, \A y \in S : y <= x, \A y \in S : y <= m
  PROVE  x = m
<1>1. x <= m /\ m <= x /\ x \in Nat /\ m \in Nat
  OBVIOUS
<1> QED BY <1>1

\* A place after all others does not change which is the first.
LEMMA SameLeast ==
  ASSUME NEW n \in Nat, NEW S \in SUBSET (1 .. n), NEW m \in 1 .. n, \A y \in S : y < m,
         NEW x \in S \cup {m}, \A y \in S \cup {m} : x <= y, NEW z \in S, \A y \in S : z <= y
  PROVE  x = z
<1>1. x <= z /\ z < m /\ {x, z, m} \subseteq Nat
  OBVIOUS
<1>2. x # m
  BY <1>1
<1>3. z <= x
  BY <1>2
<1> QED BY <1>1, <1>3

\* Two functions on sets of places that take the same steps agree on all places.
LEMMA SameFolds ==
  ASSUME NEW n \in Nat, NEW f, NEW g, f[{}] = g[{}],
         \A m \in 1 .. n : f[1 .. (m - 1)] = g[1 .. (m - 1)] => f[1 .. m] = g[1 .. m]
  PROVE  f[1 .. n] = g[1 .. n]
<1> DEFINE T == {m \in 0 .. n : f[1 .. m] # g[1 .. m]}
<1>1. SUFFICES ASSUME T # {}
               PROVE  FALSE
  OBVIOUS
<1>2. PICK m \in T : \A k \in T : m <= k
  <2>1. T \in SUBSET Nat
    OBVIOUS
  <2> HIDE DEF T
  <2> QED BY <1>1, <2>1, Least
<1>3. m # 0
  <2>1. 1 .. 0 = {}
    OBVIOUS
  <2> QED BY <2>1
<1>4. m - 1 \notin T /\ m - 1 \in 0 .. n /\ m \in 1 .. n
  BY <1>2, <1>3
<1> QED BY <1>2, <1>4

\* The last of the first m places is m.
LEMMA InitialPlaces ==
  ASSUME NEW n \in Nat, NEW m \in 1 .. n
  PROVE  /\ Max(1 .. m) = m
         /\ 1 .. m \in SUBSET (1 .. n) /\ 1 .. m # {}
         /\ (1 .. m) \ {m} = 1 .. (m - 1)
<1>1. 1 .. m \in SUBSET (1 .. n) /\ 1 .. m # {} /\ m \in 1 .. m
  OBVIOUS
<1>2. Max(1 .. m) \in 1 .. m /\ m <= Max(1 .. m)
  BY <1>1, Extremes
<1>3. Max(1 .. m) = m
  BY <1>2
<1>4. (1 .. m) \ {m} = 1 .. (m - 1)
  OBVIOUS
<1> QED BY <1>1, <1>3, <1>4

-----------------------------------------------------------------------------
(* set_param *)

\* The places of the parameters of kind k among some of them.
OfKind(params, k, S) == {i \in S : params[i].kind = k}

\* What set_param has made of some of the parameters.
SetSome(params, S) ==
  [k \in ParamKinds |->
     IF OfKind(params, k, S) = {} THEN <<>> ELSE <<params[Max(OfKind(params, k, S))].arg>>]

\* The parameter that is set last is that of its kind; those of the others stay.
LEMMA SetOneMore ==
  ASSUME NEW params, NEW n \in Nat, NEW S \in SUBSET (1 .. n), S # {}
  PROVE  SetSome(params, S) =
           [SetSome(params, S \ {Max(S)}) EXCEPT ![params[Max(S)].kind] = <<params[Max(S)].arg>>]
<1> DEFINE m == Max(S)
           R == S \ {m}
<1>1. m \in S /\ \A y \in S : y <= m
  BY Extremes
<1> HIDE DEF m
<1>2. ASSUME NEW k \in ParamKinds, k # params[m].kind
      PROVE  OfKind(params, k, S) = OfKind(params, k, R)
  BY <1>1, <1>2 DEF OfKind
<1>3. ASSUME NEW k \in ParamKinds, k = params[m].kind
      PROVE  OfKind(params, k, S) # {} /\ Max(OfKind(params, k, S)) = m
  <2> DEFINE T == OfKind(params, k, S)
  <2>1. m \in T /\ T \in SUBSET (1 .. n) /\ \A y \in T : y <= m
    BY <1>1, <1>3 DEF OfKind
  <2> HIDE DEF T
  <2>2. Max(T) \in T /\ \A y \in T : y <= Max(T)
    BY <2>1, Extremes
  <2>3. Max(T) = m
    BY <2>1, <2>2, SameBound
  <2> QED BY <2>1, <2>3 DEF T
<1>4. ASSUME NEW k \in ParamKinds
      PROVE  SetSome(params, S)[k] =
               [SetSome(params, R) EXCEPT ![params[m].kind] = <<params[m].arg>>][k]
  BY <1>2, <1>3 DEF SetSome
<1> QED BY <1>4 DEF SetSome, m

\* request_parameters has, of every kind, the argument of the last parameter of it.
LEMMA LastOfEveryKind ==
  ASSUME NEW params, NEW n \in Nat, DOMAIN params = 1 .. n
  PROVE  RequestParameters(params) = SetSome(params, 1 .. n)
<1> DEFINE Rec(h) ==
      h = [s \in SUBSET (1 .. n) |->
             IF s = {} THEN NoParameters
             ELSE [h[s \ {Max(s)}] EXCEPT ![params[Max(s)].kind] = <<params[Max(s)].arg>>]]
           f == CHOOSE h : Rec(h)
           g == [s \in SUBSET (1 .. n) |-> SetSome(params, s)]
<1>1. RequestParameters(params) = f[1 .. n]
  BY DEF RequestParameters, FoldLeft, MapThenFoldSet
<1>2. Rec(g)
  <2>1. ASSUME NEW s \in SUBSET (1 .. n), s # {}
        PROVE  /\ s \ {Max(s)} \in SUBSET (1 .. n)
               /\ g[s] = [g[s \ {Max(s)}] EXCEPT ![params[Max(s)].kind] = <<params[Max(s)].arg>>]
    BY <2>1, SetOneMore
  <2>2. g[{}] = NoParameters
    BY DEF SetSome, OfKind, NoParameters
  <2> QED BY <2>1, <2>2
<1>3. Rec(f)
  BY <1>2
<1>4. f[1 .. n] = g[1 .. n]
  <2>1. f[{}] = g[{}]
    BY <1>2, <1>3
  <2> DEFINE Step(h, m) == [h EXCEPT ![params[m].kind] = <<params[m].arg>>]
  <2> HIDE DEF f, g
  <2>3. \A s \in SUBSET (1 .. n) : s # {} => /\ f[s] = Step(f[s \ {Max(s)}], Max(s))
                                           /\ g[s] = Step(g[s \ {Max(s)}], Max(s))
    BY <1>2, <1>3
  <2> HIDE DEF Step
  <2>2. ASSUME NEW m \in 1 .. n, f[1 .. (m - 1)] = g[1 .. (m - 1)]
        PROVE  f[1 .. m] = g[1 .. m]
    <3>1. /\ Max(1 .. m) = m /\ 1 .. m \in SUBSET (1 .. n) /\ 1 .. m # {}
          /\ (1 .. m) \ {m} = 1 .. (m - 1)
      BY InitialPlaces
    <3>2. /\ f[1 .. m] = Step(f[(1 .. m) \ {m}], m)
          /\ g[1 .. m] = Step(g[(1 .. m) \ {m}], m)
      BY <2>3, <3>1
    <3> QED BY <2>2, <3>1, <3>2
  <2> QED BY <2>1, <2>2, SameFolds
<1> QED BY <1>1, <1>4

\* In terms of the places: nothing of a kind, or the argument at the last place of it.
THEOREM LastParameter ==
  ASSUME NEW P, NEW params \in Seq(P), NEW k \in ParamKinds
  PROVE  LET n == SelectLastInSeq(params, LAMBDA p : p.kind = k)
         IN  /\ n \in 0 .. Len(params)
             /\ n # 0 => params[n].kind = k
             /\ RequestParameters(params)[k] = IF n = 0 THEN <<>> ELSE <<params[n].arg>>
<1> DEFINE T == OfKind(params, k, 1 .. Len(params))
           n == SelectLastInSeq(params, LAMBDA p : p.kind = k)
<1>1. n = IF T # {} THEN Max(T) ELSE 0
  BY DEF SelectLastInSeq, OfKind
<1>2. T \in SUBSET (1 .. Len(params)) /\ \A i \in T : params[i].kind = k
  BY DEF OfKind
<1>3. RequestParameters(params)[k] = IF T = {} THEN <<>> ELSE <<params[Max(T)].arg>>
  BY LastOfEveryKind DEF SetSome
<1> HIDE DEF T, n
<1>4. CASE T = {}
  BY <1>1, <1>3, <1>4 DEF n
<1>5. CASE T # {}
  <2>1. Max(T) \in T
    <3>1. Len(params) \in Nat
      OBVIOUS
    <3> QED BY <1>2, <1>5, <3>1, Extremes
  <2>2. n = Max(T) /\ n \in 1 .. Len(params)
    BY <1>1, <1>2, <1>5, <2>1
  <2> QED BY <1>2, <1>3, <1>5, <2>1, <2>2 DEF n
<1> QED BY <1>4, <1>5

-----------------------------------------------------------------------------
(* Dictionaries *)

\* The places of key x among some of those of a list.
PlacesOf(keys, x, S) == {i \in S : keys[i] = x}

\* Some of the keys, each with its last place, and with its first.
LastPlaces(keys, S) == [x \in {keys[i] : i \in S} |-> Max(PlacesOf(keys, x, S))]
FirstPlaces(keys, S) == [x \in {keys[i] : i \in S} |-> Min(PlacesOf(keys, x, S))]

\* A list that is one key longer.
LEMMA OneMoreKey ==
  ASSUME NEW keys, NEW n \in Nat, NEW S \in SUBSET (1 .. n), S # {}
  PROVE  /\ LastPlaces(keys, S) = SetField(LastPlaces(keys, S \ {Max(S)}), keys[Max(S)], Max(S))
         /\ FirstPlaces(keys, S) = Emplace(FirstPlaces(keys, S \ {Max(S)}), keys[Max(S)], Max(S))
<1> DEFINE m == Max(S)
           R == S \ {m}
           Keys(A) == {keys[i] : i \in A}
<1>1. m \in S /\ \A y \in S : y <= m
  BY Extremes
<1> HIDE DEF m
<1>2. /\ Keys(S) = Keys(R) \cup {keys[m]}
      /\ \A x \in Keys(S) : x # keys[m] => PlacesOf(keys, x, S) = PlacesOf(keys, x, R)
  BY <1>1 DEF PlacesOf
<1>3. Max(PlacesOf(keys, keys[m], S)) = m
  <2> DEFINE T == PlacesOf(keys, keys[m], S)
  <2>1. m \in T /\ T \in SUBSET (1 .. n) /\ \A y \in T : y <= m
    BY <1>1 DEF PlacesOf
  <2> HIDE DEF T
  <2>2. Max(T) \in T /\ \A y \in T : y <= Max(T)
    BY <2>1, Extremes
  <2>3. Max(T) = m
    BY <2>1, <2>2, SameBound
  <2> QED BY <2>3 DEF T
<1>4. LastPlaces(keys, S) = SetField(LastPlaces(keys, R), keys[m], m)
  <2> DEFINE d == LastPlaces(keys, R)
  <2>1. ASSUME NEW x \in Keys(S)
        PROVE  LastPlaces(keys, S)[x] = IF x = keys[m] THEN m ELSE d[x]
    BY <1>2, <1>3 DEF LastPlaces
  <2>2. DOMAIN LastPlaces(keys, S) = Keys(S) /\ DOMAIN d = Keys(R)
    BY DEF LastPlaces
  <2>3. LastPlaces(keys, S) = [x \in Keys(S) |-> LastPlaces(keys, S)[x]]
    BY DEF LastPlaces
  <2> QED BY <1>2, <2>1, <2>2, <2>3 DEF SetField, With
<1>5. FirstPlaces(keys, S) = Emplace(FirstPlaces(keys, R), keys[m], m)
  <2> DEFINE d == FirstPlaces(keys, R)
             e == FirstPlaces(keys, S)
  <2>1. \A x \in Keys(S) : x # keys[m] => e[x] = d[x]
    BY <1>2 DEF FirstPlaces
  <2>2. DOMAIN e = Keys(S) /\ DOMAIN d = Keys(R)
    BY DEF FirstPlaces
  <2>3. e = [x \in Keys(S) |-> e[x]] /\ d = [x \in Keys(R) |-> d[x]]
    BY DEF FirstPlaces
  <2>4. e[keys[m]] = IF keys[m] \in Keys(R) THEN d[keys[m]] ELSE m
    <3> DEFINE T == PlacesOf(keys, keys[m], S)
               Q == PlacesOf(keys, keys[m], R)
    <3>1. e[keys[m]] = Min(T) /\ (keys[m] \in Keys(R) => d[keys[m]] = Min(Q))
      BY <1>1 DEF FirstPlaces
    <3>2. T = Q \cup {m} /\ Q \in SUBSET (1 .. n) /\ \A y \in Q : y < m
      <4>1. m \in 1 .. n /\ \A y \in R : y \in 1 .. n /\ y <= m /\ y # m
        BY <1>1
      <4>2. \A y \in R : y < m
        BY <4>1
      <4> QED BY <1>1, <4>1, <4>2 DEF PlacesOf
    <3>3. Q # {} <=> keys[m] \in Keys(R)
      BY DEF PlacesOf
    <3>4. m \in 1 .. n
      BY <1>1
    <3> HIDE DEF T, Q
    <3>5. Min(T) \in T /\ \A y \in T : Min(T) <= y
      BY <3>2, <3>4, Extremes
    <3>6. CASE Q = {}
      BY <3>1, <3>2, <3>3, <3>5, <3>6
    <3>7. CASE Q # {}
      <4>1. Min(Q) \in Q /\ \A y \in Q : Min(Q) <= y
        BY <3>2, <3>7, Extremes
      <4>4. Min(T) = Min(Q)
        BY <3>2, <3>4, <3>5, <4>1, SameLeast, ZenonT(30)
      <4> QED BY <3>1, <3>3, <3>7, <4>4
    <3> QED BY <3>6, <3>7
  <2> HIDE DEF d, e
  <2>5. e = Emplace(d, keys[m], m)
    <3>1. CASE keys[m] \in Keys(R)
      BY <1>2, <2>1, <2>2, <2>3, <2>4, <3>1, ZenonT(30) DEF Emplace
    <3>2. CASE keys[m] \notin Keys(R)
      BY <1>2, <2>1, <2>2, <2>3, <2>4, <3>2 DEF Emplace, With
    <3> QED BY <3>1, <3>2
  <2> QED BY <2>5 DEF d, e
<1> QED BY <1>4, <1>5 DEF m

\* headers(...): a field has the place of its last pair.
LEMMA HeadersHaveLast ==
  ASSUME NEW keys, NEW n \in Nat, Len(keys) = n
  PROVE  HeadersOf(keys) = LastPlaces(keys, 1 .. n)
<1> DEFINE id == [i \in 1 .. Len(keys) |-> i]
           Rec(h) ==
             h = [s \in SUBSET (1 .. n) |->
                    IF s = {} THEN EmptyDictionary
                    ELSE SetField(h[s \ {Max(s)}], keys[id[Max(s)]], id[Max(s)])]
           f == CHOOSE h : Rec(h)
           g == [s \in SUBSET (1 .. n) |-> LastPlaces(keys, s)]
<1>1. AddAll(SetField, keys) = f[1 .. n]
  <2>1. DOMAIN id = 1 .. n
    OBVIOUS
  <2> HIDE DEF id
  <2> QED BY <2>1 DEF AddAll, FoldLeft, MapThenFoldSet, id
<1>2. Rec(g)
  <2>1. ASSUME NEW s \in SUBSET (1 .. n), s # {}
        PROVE  /\ s \ {Max(s)} \in SUBSET (1 .. n)
               /\ g[s] = SetField(g[s \ {Max(s)}], keys[id[Max(s)]], id[Max(s)])
    <3>1. Max(s) \in s
      BY <2>1, Extremes
    <3>2. id[Max(s)] = Max(s)
      BY <3>1
    <3> HIDE DEF id
    <3> QED BY <2>1, <3>2, OneMoreKey
  <2>2. g[{}] = EmptyDictionary
    BY DEF LastPlaces, EmptyDictionary
  <2> HIDE DEF id
  <2> QED BY <2>1, <2>2
<1>3. Rec(f)
  BY <1>2
<1>4. f[1 .. n] = g[1 .. n]
  <2> HIDE DEF id
  <2>1. f[{}] = g[{}]
    BY <1>2, <1>3
  <2> DEFINE Step(h, m) == SetField(h, keys[id[m]], id[m])
  <2> HIDE DEF f, g
  <2>2. \A s \in SUBSET (1 .. n) : s # {} => /\ f[s] = Step(f[s \ {Max(s)}], Max(s))
                                           /\ g[s] = Step(g[s \ {Max(s)}], Max(s))
    BY <1>2, <1>3
  <2> HIDE DEF Step
  <2>3. ASSUME NEW m \in 1 .. n, f[1 .. (m - 1)] = g[1 .. (m - 1)]
        PROVE  f[1 .. m] = g[1 .. m]
    <3>1. /\ Max(1 .. m) = m /\ 1 .. m \in SUBSET (1 .. n) /\ 1 .. m # {}
          /\ (1 .. m) \ {m} = 1 .. (m - 1)
      BY InitialPlaces
    <3>2. /\ f[1 .. m] = Step(f[(1 .. m) \ {m}], m)
          /\ g[1 .. m] = Step(g[(1 .. m) \ {m}], m)
      BY <2>2, <3>1
    <3> QED BY <2>3, <3>1, <3>2
  <2> QED BY <2>1, <2>3, SameFolds
<1> QED BY <1>1, <1>4 DEF HeadersOf

\* A dictionary made by emplace: a key has the place of its first pair.
LEMMA EmplacedHaveFirst ==
  ASSUME NEW keys, NEW n \in Nat, Len(keys) = n
  PROVE  AddAll(Emplace, keys) = FirstPlaces(keys, 1 .. n)
<1> DEFINE id == [i \in 1 .. Len(keys) |-> i]
           Rec(h) ==
             h = [s \in SUBSET (1 .. n) |->
                    IF s = {} THEN EmptyDictionary
                    ELSE Emplace(h[s \ {Max(s)}], keys[id[Max(s)]], id[Max(s)])]
           f == CHOOSE h : Rec(h)
           g == [s \in SUBSET (1 .. n) |-> FirstPlaces(keys, s)]
<1>1. AddAll(Emplace, keys) = f[1 .. n]
  <2>1. DOMAIN id = 1 .. n
    OBVIOUS
  <2> HIDE DEF id
  <2> QED BY <2>1 DEF AddAll, FoldLeft, MapThenFoldSet, id
<1>2. Rec(g)
  <2>1. ASSUME NEW s \in SUBSET (1 .. n), s # {}
        PROVE  /\ s \ {Max(s)} \in SUBSET (1 .. n)
               /\ g[s] = Emplace(g[s \ {Max(s)}], keys[id[Max(s)]], id[Max(s)])
    <3>1. Max(s) \in s
      BY <2>1, Extremes
    <3>2. id[Max(s)] = Max(s)
      BY <3>1
    <3> HIDE DEF id
    <3> QED BY <2>1, <3>2, OneMoreKey
  <2>2. g[{}] = EmptyDictionary
    BY DEF FirstPlaces, EmptyDictionary
  <2> HIDE DEF id
  <2> QED BY <2>1, <2>2
<1>3. Rec(f)
  BY <1>2
<1>4. f[1 .. n] = g[1 .. n]
  <2> HIDE DEF id
  <2>1. f[{}] = g[{}]
    BY <1>2, <1>3
  <2> DEFINE Step(h, m) == Emplace(h, keys[id[m]], id[m])
  <2> HIDE DEF f, g
  <2>2. \A s \in SUBSET (1 .. n) : s # {} => /\ f[s] = Step(f[s \ {Max(s)}], Max(s))
                                           /\ g[s] = Step(g[s \ {Max(s)}], Max(s))
    BY <1>2, <1>3
  <2> HIDE DEF Step
  <2>3. ASSUME NEW m \in 1 .. n, f[1 .. (m - 1)] = g[1 .. (m - 1)]
        PROVE  f[1 .. m] = g[1 .. m]
    <3>1. /\ Max(1 .. m) = m /\ 1 .. m \in SUBSET (1 .. n) /\ 1 .. m # {}
          /\ (1 .. m) \ {m} = 1 .. (m - 1)
      BY InitialPlaces
    <3>2. /\ f[1 .. m] = Step(f[(1 .. m) \ {m}], m)
          /\ g[1 .. m] = Step(g[(1 .. m) \ {m}], m)
      BY <2>2, <3>1
    <3> QED BY <2>3, <3>1, <3>2
  <2> QED BY <2>1, <2>3, SameFolds
<1> QED BY <1>1, <1>4

\* A dictionary of headers has every field of its list once, with its last value (set).
THEOREM DictionaryHasLast ==
  ASSUME NEW K, NEW keys \in Seq(K)
  PROVE  LET d == HeadersOf(keys)
         IN  /\ DOMAIN d = Range(keys)
             /\ \A x \in DOMAIN d :
                  /\ d[x] \in 1 .. Len(keys) /\ keys[d[x]] = x
                  /\ \A j \in 1 .. Len(keys) : keys[j] = x => j <= d[x]
                  /\ d[x] = Max({j \in DOMAIN keys : keys[j] = x})
<1> DEFINE n == Len(keys)
<1>1. n \in Nat /\ DOMAIN keys = 1 .. n
  OBVIOUS
<1>2. HeadersOf(keys) = LastPlaces(keys, 1 .. n)
  BY <1>1, HeadersHaveLast
<1> HIDE DEF n
<1>3. ASSUME NEW x \in Range(keys)
      PROVE  LET p == Max(PlacesOf(keys, x, 1 .. n))
             IN  p \in 1 .. n /\ keys[p] = x /\ \A j \in 1 .. n : keys[j] = x => j <= p
  <2>1. PlacesOf(keys, x, 1 .. n) # {} /\ PlacesOf(keys, x, 1 .. n) \in SUBSET (1 .. n)
    BY <1>1 DEF Range, PlacesOf
  <2>2. LET p == Max(PlacesOf(keys, x, 1 .. n))
        IN  p \in PlacesOf(keys, x, 1 .. n) /\ \A j \in PlacesOf(keys, x, 1 .. n) : j <= p
    BY <1>1, <2>1, Extremes
  <2> QED BY <2>2 DEF PlacesOf
<1>4. {keys[i] : i \in 1 .. n} = Range(keys)
  BY <1>1 DEF Range
<1>5. \A x : {j \in DOMAIN keys : keys[j] = x} = PlacesOf(keys, x, 1 .. n)
  BY <1>1 DEF PlacesOf
<1>6. DOMAIN HeadersOf(keys) = Range(keys)
      /\ \A x \in Range(keys) : HeadersOf(keys)[x] = Max(PlacesOf(keys, x, 1 .. n))
  BY <1>2, <1>4 DEF LastPlaces
<1>7. ASSUME NEW x \in Range(keys)
      PROVE  LET d == HeadersOf(keys)
             IN  /\ d[x] \in 1 .. Len(keys) /\ keys[d[x]] = x
                 /\ \A j \in 1 .. Len(keys) : keys[j] = x => j <= d[x]
                 /\ d[x] = Max({j \in DOMAIN keys : keys[j] = x})
  <2>1. HeadersOf(keys)[x] = Max(PlacesOf(keys, x, 1 .. n))
    BY <1>6
  <2>2. HeadersOf(keys)[x] = Max({j \in DOMAIN keys : keys[j] = x})
    BY <1>5, <2>1
  <2> QED BY <1>3, <2>1, <2>2 DEF n
<1> QED BY <1>6, <1>7

\* A dictionary of pairs has every key of its list once, as its C string, with its first
\* value (emplace).
THEOREM DictionaryHasFirst ==
  ASSUME NEW K, NEW keys \in Seq(K)
  PROVE  LET d == ParamsOf(keys)
         IN  /\ DOMAIN d = {CString(keys[i]) : i \in DOMAIN keys}
             /\ \A x \in DOMAIN d :
                  /\ d[x] \in 1 .. Len(keys) /\ CString(keys[d[x]]) = x
                  /\ \A j \in 1 .. Len(keys) : CString(keys[j]) = x => d[x] <= j
<1> DEFINE n == Len(keys)
           strings == [i \in DOMAIN keys |-> CString(keys[i])]
<1>1. n \in Nat /\ DOMAIN keys = 1 .. n
  OBVIOUS
<1>2. Len(strings) = n /\ DOMAIN strings = 1 .. n /\ \A i \in 1 .. n : strings[i] = CString(keys[i])
  BY <1>1
<1>3. ParamsOf(keys) = AddAll(Emplace, strings)
  BY DEF ParamsOf
<1> HIDE DEF n, strings
<1>4. AddAll(Emplace, strings) = FirstPlaces(strings, 1 .. n)
  BY <1>1, <1>2, EmplacedHaveFirst
<1>5. ASSUME NEW x \in {strings[i] : i \in 1 .. n}
      PROVE  LET p == Min(PlacesOf(strings, x, 1 .. n))
             IN  p \in 1 .. n /\ strings[p] = x /\ \A j \in 1 .. n : strings[j] = x => p <= j
  <2>1. PlacesOf(strings, x, 1 .. n) # {} /\ PlacesOf(strings, x, 1 .. n) \in SUBSET (1 .. n)
    BY DEF PlacesOf
  <2>2. LET p == Min(PlacesOf(strings, x, 1 .. n))
        IN  p \in PlacesOf(strings, x, 1 .. n) /\ \A j \in PlacesOf(strings, x, 1 .. n) : p <= j
    BY <1>1, <2>1, Extremes
  <2> QED BY <2>2 DEF PlacesOf
<1>6. DOMAIN ParamsOf(keys) = {strings[i] : i \in 1 .. n}
      /\ \A x \in {strings[i] : i \in 1 .. n} :
           ParamsOf(keys)[x] = Min(PlacesOf(strings, x, 1 .. n))
  BY <1>3, <1>4 DEF FirstPlaces
<1>7. {strings[i] : i \in 1 .. n} = {CString(keys[i]) : i \in DOMAIN keys}
  BY <1>1, <1>2
<1> QED BY <1>1, <1>2, <1>5, <1>6, <1>7 DEF n

=============================================================================
