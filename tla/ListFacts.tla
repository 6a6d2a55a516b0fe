------------------------------ MODULE ListFacts ------------------------------
(***************************************************************************)
(* Lemmas about natural numbers and lists that the proofs about several    *)
(* components cite.                                                        *)
(***************************************************************************)
EXTENDS Lists, SequencesExt, FiniteSetTheorems, WellFoundedInduction, TLAPS

(* Every nonempty set of natural numbers has a least element: what the     *)
(* other lemmas use in place of an induction.                              *)
LEMMA LeastExists ==
  ASSUME NEW S \in SUBSET Nat, S # {}
  PROVE  \E n \in S : \A m \in S : n <= m
<1> DEFINE T == {0 .. n : n \in S}
           W == FiniteSubsetsOf(Nat)
           R == StrictSubsetOrdering(Nat)
<1>1. \A n \in S : 0 .. n \in W
  <2> SUFFICES ASSUME NEW n \in S PROVE 0 .. n \in W
    OBVIOUS
  <2>1. IsFiniteSet(0 .. n)
    BY FS_Interval
  <2>2. 0 .. n \in SUBSET Nat
    OBVIOUS
  <2> QED BY <2>1, <2>2 DEF FiniteSubsetsOf
<1>2. T \subseteq W /\ T # {}
  BY <1>1
<1>3. IsWellFoundedOn(R, W)
  BY FS_StrictSubsetOrderingWellFounded
<1> HIDE DEF R, W
<1>4. PICK x \in T : \A y \in T : ~(<<y, x>> \in R)
  BY <1>2, <1>3, WFMin, Zenon
<1>5. PICK n \in S : x = 0 .. n
  OBVIOUS
<1>6. ASSUME NEW m \in S, m < n
      PROVE  FALSE
  <2>1. 0 .. m \in T /\ <<0 .. m, 0 .. n>> \notin R
    BY <1>4, <1>5
  <2>2. 0 .. m \in SUBSET Nat /\ 0 .. n \in SUBSET Nat
    OBVIOUS
  <2>3. (0 .. m) \subseteq (0 .. n)
    BY <1>6
  <2>4. n \in 0 .. n /\ n \notin 0 .. m
    BY <1>6
  <2> QED BY <2>1, <2>2, <2>3, <2>4 DEF R, StrictSubsetOrdering
<1> QED BY <1>6

(* The elements of a list, and a list that has none of them twice.         *)
Elems(q) == {q[i] : i \in DOMAIN q}
NoRepeat(q) == \A i, j \in DOMAIN q : q[i] = q[j] => i = j

\* A list over T has elements of T.
LEMMA ElemsType ==
  ASSUME NEW T, NEW q \in Seq(T)
  PROVE  Elems(q) \subseteq T
BY DEF Elems

\* The list without elements.
LEMMA EmptyList ==
  /\ Elems(<< >>) = {} /\ NoRepeat(<< >>)
  /\ \A T : \A q \in Seq(T) : Elems(q) = {} <=> q = << >>
<1>1. ASSUME NEW T, NEW q \in Seq(T), q # << >>
      PROVE  Elems(q) # {}
  <2>1. 1 \in DOMAIN q
    BY <1>1
  <2> QED BY <2>1 DEF Elems
<1> QED BY <1>1 DEF Elems, NoRepeat

\* And without length.
LEMMA NoLength ==
  ASSUME NEW T, NEW q \in Seq(T)
  PROVE  Len(q) = 0 <=> q = << >>
OBVIOUS

\* A list with one more at its end.
LEMMA Appended ==
  ASSUME NEW T, NEW q \in Seq(T), NEW t \in T
  PROVE  /\ Append(q, t) \in Seq(T)
         /\ Elems(Append(q, t)) = Elems(q) \cup {t}
         /\ NoRepeat(q) /\ t \notin Elems(q) => NoRepeat(Append(q, t))
<1>1. /\ DOMAIN Append(q, t) = 1 .. Len(q) + 1 /\ DOMAIN q = 1 .. Len(q)
      /\ \A i \in 1 .. Len(q) : Append(q, t)[i] = q[i]
      /\ Append(q, t)[Len(q) + 1] = t /\ Len(q) \in Nat
  OBVIOUS
<1>2. Elems(Append(q, t)) = Elems(q) \cup {t}
  BY <1>1 DEF Elems
<1>3. NoRepeat(q) /\ t \notin Elems(q) => NoRepeat(Append(q, t))
  BY <1>1 DEF NoRepeat, Elems
<1> QED BY <1>2, <1>3

\* A list of one.
LEMMA Single ==
  ASSUME NEW T, NEW t \in T
  PROVE  /\ <<t>> \in Seq(T) /\ <<t>> # << >>
         /\ Elems(<<t>>) = {t} /\ NoRepeat(<<t>>) /\ Head(<<t>>) = t /\ Tail(<<t>>) = << >>
BY DEF Elems, NoRepeat

\* A list and what is left without its first element.
LEMMA HeadTail ==
  ASSUME NEW T, NEW q \in Seq(T), q # << >>
  PROVE  /\ Head(q) \in T /\ Head(q) \in Elems(q) /\ Tail(q) \in Seq(T)
         /\ Elems(q) = Elems(Tail(q)) \cup {Head(q)}
         /\ NoRepeat(q) => NoRepeat(Tail(q)) /\ Elems(Tail(q)) = Elems(q) \ {Head(q)}
<1>1. /\ Len(q) \in Nat /\ Len(q) > 0 /\ DOMAIN q = 1 .. Len(q) /\ Head(q) = q[1]
      /\ DOMAIN Tail(q) = 1 .. Len(q) - 1 /\ Tail(q) \in Seq(T)
      /\ \A i \in 1 .. Len(q) - 1 : Tail(q)[i] = q[i + 1]
  OBVIOUS
<1>2. Head(q) \in T /\ Head(q) \in Elems(q)
  BY <1>1 DEF Elems
<1>3. \A i \in DOMAIN q : i = 1 \/ (i - 1 \in DOMAIN Tail(q) /\ Tail(q)[i - 1] = q[i])
  BY <1>1
<1>4. \A i \in DOMAIN Tail(q) : i + 1 \in DOMAIN q /\ Tail(q)[i] = q[i + 1] /\ i + 1 # 1
  BY <1>1
<1>5. Elems(q) = Elems(Tail(q)) \cup {Head(q)}
  <2>1. ASSUME NEW x \in Elems(q), x # Head(q)
        PROVE  x \in Elems(Tail(q))
    <3>1. PICK i \in DOMAIN q : x = q[i]
      BY DEF Elems
    <3>2. i - 1 \in DOMAIN Tail(q) /\ Tail(q)[i - 1] = x
      BY <1>1, <1>3, <2>1, <3>1
    <3> QED BY <3>2 DEF Elems
  <2>2. Elems(Tail(q)) \subseteq Elems(q)
    BY <1>4 DEF Elems
  <2> QED BY <1>2, <2>1, <2>2
<1>6. ASSUME NoRepeat(q)
      PROVE  NoRepeat(Tail(q)) /\ Head(q) \notin Elems(Tail(q))
  BY <1>1, <1>4, <1>6 DEF NoRepeat, Elems
<1> QED BY <1>1, <1>2, <1>5, <1>6

\* The elements of two lists, one behind the other.
LEMMA JoinedAt ==
  ASSUME NEW T, NEW p \in Seq(T), NEW q \in Seq(T)
  PROVE  /\ p \o q \in Seq(T) /\ Len(p \o q) = Len(p) + Len(q)
         /\ \A i \in 1 .. Len(p) + Len(q) : (p \o q)[i] = IF i <= Len(p) THEN p[i] ELSE q[i - Len(p)]
OBVIOUS

\* The elements behind the a-th, up to the m-th.
LEMMA PartIs ==
  ASSUME NEW T, NEW q \in Seq(T), NEW a \in Nat, NEW m \in Nat, m <= Len(q)
  PROVE  /\ SubSeq(q, a + 1, m) \in Seq(T)
         /\ Len(SubSeq(q, a + 1, m)) = IF a + 1 <= m THEN m - a ELSE 0
         /\ \A i \in 1 .. m - a : SubSeq(q, a + 1, m)[i] = q[a + i]
OBVIOUS

\* The first n places.
LEMMA FirstPlaces ==
  ASSUME NEW n \in Nat
  PROVE  IsFiniteSet(1 .. n) /\ Cardinality(1 .. n) = n
BY FS_Interval

\* Two lists, one behind the other.
LEMMA Joined ==
  ASSUME NEW T, NEW p \in Seq(T), NEW q \in Seq(T)
  PROVE  /\ p \o q \in Seq(T)
         /\ Elems(p \o q) = Elems(p) \cup Elems(q)
         /\ NoRepeat(p) /\ NoRepeat(q) /\ Elems(p) \cap Elems(q) = {} => NoRepeat(p \o q)
         /\ p \o << >> = p /\ << >> \o p = p
<1> DEFINE r == p \o q
<1>1. /\ Len(p) \in Nat /\ Len(q) \in Nat /\ DOMAIN p = 1 .. Len(p) /\ DOMAIN q = 1 .. Len(q)
      /\ DOMAIN r = 1 .. Len(p) + Len(q) /\ r \in Seq(T)
      /\ \A i \in 1 .. Len(p) + Len(q) : r[i] = IF i <= Len(p) THEN p[i] ELSE q[i - Len(p)]
  OBVIOUS
<1> HIDE DEF r
<1>2. \A i \in DOMAIN r : (i \in DOMAIN p /\ r[i] = p[i])
                          \/ (i - Len(p) \in DOMAIN q /\ r[i] = q[i - Len(p)])
  BY <1>1
<1>3. \A i \in DOMAIN p : i \in DOMAIN r /\ r[i] = p[i]
  BY <1>1
<1>4. \A i \in DOMAIN q : i + Len(p) \in DOMAIN r /\ r[i + Len(p)] = q[i]
  <2> SUFFICES ASSUME NEW i \in DOMAIN q
               PROVE  i + Len(p) \in DOMAIN r /\ r[i + Len(p)] = q[i]
    OBVIOUS
  <2>1. i \in Int /\ i + Len(p) \in 1 .. Len(p) + Len(q) /\ ~(i + Len(p) <= Len(p))
        /\ i + Len(p) - Len(p) = i
    BY <1>1
  <2>2. r[i + Len(p)] = q[i + Len(p) - Len(p)]
    BY <1>1, <2>1
  <2> QED BY <1>1, <2>1, <2>2
<1>5. Elems(r) = Elems(p) \cup Elems(q)
  BY <1>2, <1>3, <1>4 DEF Elems
<1>6. ASSUME NoRepeat(p), NoRepeat(q), Elems(p) \cap Elems(q) = {},
             NEW i \in DOMAIN r, NEW j \in DOMAIN r, r[i] = r[j]
      PROVE  i = j
  <2>1. \A a \in DOMAIN p, b \in DOMAIN q : p[a] # q[b]
    BY <1>6 DEF Elems
  <2>2. i \in Int /\ j \in Int
    BY <1>1
  <2> QED BY <1>1, <1>2, <1>6, <2>1, <2>2 DEF NoRepeat
<1>7. p \o << >> = p /\ << >> \o p = p
  OBVIOUS
<1> QED BY <1>1, <1>5, <1>6, <1>7 DEF r, NoRepeat

(* The list without its i-th element, and without the first element of a   *)
(* kind.                                                                   *)
LEMMA RemovedAt ==
  ASSUME NEW T, NEW q \in Seq(T), NEW i \in DOMAIN q
  PROVE  /\ RemoveAt(q, i) \in Seq(T) /\ Len(RemoveAt(q, i)) = Len(q) - 1
         /\ \A j \in 1 .. Len(q) - 1 : RemoveAt(q, i)[j] = IF j < i THEN q[j] ELSE q[j + 1]
<1> DEFINE a == SubSeq(q, 1, i - 1)
           b == SubSeq(q, i + 1, Len(q))
<1>1. i \in Nat /\ i >= 1 /\ i <= Len(q) /\ Len(q) \in Nat
  OBVIOUS
<1>2. a \in Seq(T) /\ Len(a) = i - 1 /\ \A j \in 1 .. i - 1 : a[j] = q[j]
  BY <1>1
<1>3. b \in Seq(T) /\ Len(b) = Len(q) - i /\ \A j \in 1 .. Len(q) - i : b[j] = q[i + j]
  BY <1>1
<1> HIDE DEF a, b
<1>4. /\ a \o b \in Seq(T) /\ Len(a \o b) = Len(q) - 1
      /\ \A j \in 1 .. Len(q) - 1 : (a \o b)[j] = IF j <= Len(a) THEN a[j] ELSE b[j - Len(a)]
  <2>1. /\ a \o b \in Seq(T) /\ Len(a \o b) = Len(a) + Len(b)
        /\ \A j \in 1 .. Len(a) + Len(b) : (a \o b)[j] = IF j <= Len(a) THEN a[j] ELSE b[j - Len(a)]
    <3>1. a \in Seq(T) /\ b \in Seq(T)
      BY <1>2, <1>3
    <3> QED BY <3>1, JoinedAt, Zenon
  <2>2. Len(a) + Len(b) = Len(q) - 1
    BY <1>1, <1>2, <1>3
  <2> QED BY <2>1, <2>2
<1>5. ASSUME NEW j \in 1 .. Len(q) - 1
      PROVE  (a \o b)[j] = IF j < i THEN q[j] ELSE q[j + 1]
  <2>1. CASE j < i
    BY <1>1, <1>2, <1>4, <2>1
  <2>2. CASE ~(j < i)
    <3>1. j - (i - 1) \in 1 .. Len(q) - i /\ i + (j - (i - 1)) = j + 1 /\ ~(j <= Len(a))
      BY <1>1, <1>2, <2>2
    <3>2. (a \o b)[j] = b[j - (i - 1)]
      BY <1>2, <1>4, <3>1
    <3> QED BY <1>3, <2>2, <3>1, <3>2
  <2> QED BY <2>1, <2>2
<1>6. RemoveAt(q, i) = a \o b
  BY DEF RemoveAt, a, b
<1> QED BY <1>4, <1>5, <1>6

\* What is left without the i-th element.
LEMMA RemovedAtElems ==
  ASSUME NEW T, NEW q \in Seq(T), NEW i \in DOMAIN q
  PROVE  /\ Elems(q) = Elems(RemoveAt(q, i)) \cup {q[i]}
         /\ NoRepeat(q) => NoRepeat(RemoveAt(q, i)) /\ q[i] \notin Elems(RemoveAt(q, i))
<1> DEFINE r == RemoveAt(q, i)
<1>1. /\ r \in Seq(T) /\ DOMAIN r = 1 .. Len(q) - 1 /\ DOMAIN q = 1 .. Len(q) /\ Len(q) \in Nat
      /\ \A j \in 1 .. Len(q) - 1 : r[j] = IF j < i THEN q[j] ELSE q[j + 1]
  BY RemovedAt
<1> HIDE DEF r
<1>2. \A j \in DOMAIN r : \E m \in DOMAIN q : m = (IF j < i THEN j ELSE j + 1) /\ m # i /\ r[j] = q[m]
  BY <1>1
<1>3. ASSUME NEW x \in Elems(q), x # q[i]
      PROVE  x \in Elems(r)
  <2>1. PICK m \in DOMAIN q : x = q[m] /\ m # i
    BY <1>3 DEF Elems
  <2>2. CASE m < i
    <3>1. m \in DOMAIN r /\ r[m] = q[m]
      BY <1>1, <2>2
    <3> QED BY <2>1, <3>1 DEF Elems
  <2>3. CASE m > i
    <3>1. m - 1 \in DOMAIN r /\ ~(m - 1 < i) /\ m - 1 + 1 = m
      BY <1>1, <2>3
    <3>2. r[m - 1] = q[m]
      BY <1>1, <3>1
    <3> QED BY <2>1, <3>1, <3>2 DEF Elems
  <2> QED BY <1>1, <2>1, <2>2, <2>3
<1>4. Elems(r) \subseteq Elems(q)
  BY <1>2 DEF Elems
<1>5. q[i] \in Elems(q)
  BY DEF Elems
<1>6. ASSUME NoRepeat(q)
      PROVE  q[i] \notin Elems(r)
  BY <1>2, <1>6 DEF Elems, NoRepeat
<1>7. ASSUME NoRepeat(q), NEW j \in DOMAIN r, NEW k \in DOMAIN r, r[j] = r[k]
      PROVE  j = k
  <2>1. j \in Int /\ k \in Int /\ i \in Int
    BY <1>1
  <2> QED BY <1>2, <1>7, <2>1 DEF NoRepeat
<1>8. NoRepeat(q) => NoRepeat(r)
  BY <1>7 DEF NoRepeat
<1> QED BY <1>3, <1>4, <1>5, <1>6, <1>8 DEF r

\* RemoveFirst removes the element at some index that equals x.
LEMMA FirstMatch ==
  ASSUME NEW T, NEW q \in Seq(T), NEW x \in Elems(q)
  PROVE  \E i \in DOMAIN q : q[i] = x /\ RemoveFirst(q, x) = RemoveAt(q, i)
<1> DEFINE I == {j \in 1 .. Len(q) : q[j] = x}
<1>1. I # {} /\ I \subseteq Nat /\ DOMAIN q = 1 .. Len(q)
  BY DEF Elems
<1>2. PICK n \in I : \A m \in I : n <= m
  BY <1>1, LeastExists
<1>3. Min(I) \in I
  BY <1>1, <1>2 DEF Min
<1>4. SelectInSeq(q, LAMBDA v : v = x) = Min(I)
  BY <1>1 DEF SelectInSeq
<1>5. RemoveFirst(q, x) = RemoveAt(q, Min(I))
  BY <1>1, <1>4 DEF RemoveFirst
<1> QED BY <1>1, <1>3, <1>5

\* From a list without repetitions it takes x away.
LEMMA Removed ==
  ASSUME NEW T, NEW q \in Seq(T), NoRepeat(q), NEW x \in Elems(q)
  PROVE  /\ RemoveFirst(q, x) \in Seq(T) /\ NoRepeat(RemoveFirst(q, x))
         /\ Elems(RemoveFirst(q, x)) = Elems(q) \ {x}
<1>1. PICK i \in DOMAIN q : q[i] = x /\ RemoveFirst(q, x) = RemoveAt(q, i)
  BY FirstMatch
<1>2. RemoveAt(q, i) \in Seq(T)
  BY RemovedAt
<1>3. /\ Elems(q) = Elems(RemoveAt(q, i)) \cup {x}
      /\ NoRepeat(RemoveAt(q, i)) /\ x \notin Elems(RemoveAt(q, i))
  BY <1>1, RemovedAtElems
<1> QED BY <1>1, <1>2, <1>3

(* The list q with b behind its p-th element.                              *)
IsInserted(r, q, p, b) ==
  /\ Len(r) = Len(q) + 1 /\ r[p + 1] = b
  /\ \A j \in 1 .. p : r[j] = q[j]
  /\ \A j \in p + 1 .. Len(q) : r[j + 1] = q[j]

\* InsertAt puts b behind the p-th element.
LEMMA Inserted ==
  ASSUME NEW T, NEW q \in Seq(T), NEW p \in 0 .. Len(q), NEW b \in T
  PROVE  InsertAt(q, p + 1, b) \in Seq(T) /\ IsInserted(InsertAt(q, p + 1, b), q, p, b)
<1> DEFINE x == SubSeq(q, 1, p)
           y == SubSeq(q, p + 1, Len(q))
           z == x \o <<b>>
           r == z \o y
<1>1. p \in Nat /\ p <= Len(q) /\ Len(q) \in Nat
  OBVIOUS
<1>2. x \in Seq(T) /\ Len(x) = p /\ \A j \in 1 .. p : x[j] = q[j]
  BY <1>1
<1>3. /\ y \in Seq(T) /\ Len(y) = Len(q) - p
      /\ \A j \in 1 .. Len(q) - p : y[j] = q[p + j]
  BY <1>1
<1>4. r = InsertAt(q, p + 1, b)
  <2>1. (p + 1) - 1 = p
    BY <1>1
  <2>2. InsertAt(q, p + 1, b) = SubSeq(q, 1, (p + 1) - 1) \o <<b>> \o SubSeq(q, p + 1, Len(q))
    BY DEF InsertAt
  <2> QED BY <2>1, <2>2, Zenon
<1> HIDE DEF x, y
<1>5. /\ z \in Seq(T) /\ Len(z) = p + 1 /\ z[p + 1] = b /\ \A j \in 1 .. p : z[j] = q[j]
  <2>1. z = Append(x, b)
    BY <1>2
  <2> QED BY <1>1, <1>2, <2>1
<1> HIDE DEF z
<1>6. /\ r \in Seq(T) /\ Len(r) = Len(q) + 1
      /\ \A j \in 1 .. Len(z) + Len(y) : r[j] = IF j <= Len(z) THEN z[j] ELSE y[j - Len(z)]
  BY <1>1, <1>3, <1>5
<1>7. r[p + 1] = b /\ \A j \in 1 .. p : r[j] = q[j]
  BY <1>1, <1>3, <1>5, <1>6
<1>8. ASSUME NEW j \in p + 1 .. Len(q)
      PROVE  r[j + 1] = q[j]
  <2>1. j \in Int /\ j + 1 - (p + 1) = j - p /\ j - p \in 1 .. Len(q) - p /\ p + (j - p) = j
        /\ j + 1 \in 1 .. Len(q) + 1 /\ ~(j + 1 <= p + 1)
    BY <1>1
  <2>2. r[j + 1] = y[j - p]
    <3>1. r[j + 1] = y[j + 1 - Len(z)]
      BY <1>1, <1>3, <1>5, <1>6, <2>1
    <3> QED BY <1>5, <2>1, <3>1
  <2> QED BY <1>3, <2>1, <2>2
<1> QED BY <1>4, <1>6, <1>7, <1>8 DEF IsInserted

\* A function over 1 .. n is a list.
LEMMA MadeList ==
  ASSUME NEW T, NEW n \in Nat, NEW f \in [1 .. n -> T]
  PROVE  f \in Seq(T) /\ Len(f) = n
OBVIOUS

\* Lists are equal when their elements are.
LEMMA SameList ==
  ASSUME NEW T, NEW p \in Seq(T), NEW q \in Seq(T), DOMAIN p = DOMAIN q,
         \A i \in DOMAIN p : p[i] = q[i]
  PROVE  p = q
OBVIOUS

\* The least of a set of numbers,
LEMMA MinIs ==
  ASSUME NEW S \in SUBSET Int, NEW m \in S, \A y \in S : m <= y
  PROVE  Min(S) = m
<1>1. \A x \in S : (\A y \in S : x <= y) => x = m
  OBVIOUS
<1> QED BY <1>1 DEF Min

\* and the greatest.
LEMMA MaxIs ==
  ASSUME NEW S \in SUBSET Int, NEW m \in S, \A y \in S : m >= y
  PROVE  Max(S) = m
<1>1. \A x \in S : (\A y \in S : x >= y) => x = m
  OBVIOUS
<1> QED BY <1>1 DEF Max

(* Primitive recursion: a sequence of values, each made from the one       *)
(* before it, exists.                                                      *)
IsIteration(f, V, a, N, s) ==
  /\ f \in [0 .. N -> V]
  /\ f[0] = a
  /\ \A n \in 1 .. N : f[n] = s[<<n, f[n - 1]>>]

\* A function defined from the value before it exists, by an induction over
\* the least number for which it does not.
LEMMA Iterated ==
  ASSUME NEW V, NEW a \in V, NEW N \in Nat, NEW s \in [(1 .. N) \X V -> V]
  PROVE  \E f : IsIteration(f, V, a, N, s)
<1> DEFINE Upto(m) == \E f \in [0 .. m -> V] :
                         f[0] = a /\ \A n \in 1 .. m : f[n] = s[<<n, f[n - 1]>>]
           D == {m \in 0 .. N : ~ Upto(m)}
<1> SUFFICES ASSUME D # {} PROVE FALSE
  <2>1. Upto(N) => \E f : IsIteration(f, V, a, N, s)
    BY DEF IsIteration
  <2> HIDE DEF Upto
  <2> QED BY <2>1
<1>1. Upto(0)
  <2>1. /\ [i \in 0 .. 0 |-> a] \in [0 .. 0 -> V] /\ [i \in 0 .. 0 |-> a][0] = a
        /\ 1 .. 0 = {}
    OBVIOUS
  <2> QED BY <2>1
<1>2. D \in SUBSET Nat
  OBVIOUS
<1> HIDE DEF D
<1>3. PICK m \in D : \A k \in D : m <= k
  BY <1>2, LeastExists
<1> USE DEF D
<1> HIDE DEF Upto
<1>4. m # 0 /\ m \in Nat
  BY <1>1
<1>5. m - 1 \in 0 .. N /\ Upto(m - 1)
  BY <1>3, <1>4
<1> USE DEF Upto
<1>6. PICK f \in [0 .. m - 1 -> V] : f[0] = a /\ \A n \in 1 .. m - 1 : f[n] = s[<<n, f[n - 1]>>]
  BY <1>5
<1> DEFINE g == [n \in 0 .. m |-> IF n = m THEN s[<<m, f[m - 1]>>] ELSE f[n]]
<1>7. s[<<m, f[m - 1]>>] \in V
  BY <1>4, <1>6
<1>8. g \in [0 .. m -> V] /\ g[0] = a
  BY <1>4, <1>6, <1>7
<1>9. ASSUME NEW n \in 1 .. m
      PROVE  g[n] = s[<<n, g[n - 1]>>]
  <2>1. n - 1 # m /\ n - 1 \in 0 .. m /\ g[n - 1] = f[n - 1]
    BY <1>4
  <2>2. CASE n = m
    <3>1. g[m] = s[<<m, f[m - 1]>>]
      BY <1>4
    <3> QED BY <2>1, <2>2, <3>1
  <2>3. CASE n # m
    <3>1. n \in 1 .. m - 1 /\ n \in 0 .. m /\ g[n] = f[n]
      BY <1>4, <2>3
    <3> QED BY <1>6, <2>1, <3>1
  <2> QED BY <2>2, <2>3
<1>10. Upto(m)
  BY <1>8, <1>9
<1> HIDE DEF Upto
<1> QED BY <1>10

(* What holds of the empty list, and of every list with one more element   *)
(* when it holds of the list, holds of all: P is the set of lists it holds *)
(* of.                                                                     *)
LEMMA EveryList ==
  ASSUME NEW T, NEW P, << >> \in P,
         \A q \in Seq(T), e \in T : q \in P => Append(q, e) \in P
  PROVE  Seq(T) \subseteq P
<1> DEFINE D == {n \in Nat : \E q \in Seq(T) : Len(q) = n /\ q \notin P}
<1> SUFFICES ASSUME D # {} PROVE FALSE
  OBVIOUS
<1>1. D \in SUBSET Nat
  OBVIOUS
<1> HIDE DEF D
<1>2. PICK n \in D : \A m \in D : n <= m
  BY <1>1, LeastExists
<1> USE DEF D
<1>3. PICK q \in Seq(T) : Len(q) = n /\ q \notin P
  OBVIOUS
<1>4. n # 0
  BY <1>3
<1> DEFINE r == SubSeq(q, 1, n - 1)
           e == q[n]
<1>5. r \in Seq(T) /\ Len(r) = n - 1 /\ e \in T /\ q = Append(r, e)
  BY <1>3, <1>4
<1>6. n - 1 \in Nat /\ n - 1 \notin D
  BY <1>2, <1>4
<1> HIDE DEF r, e
<1>7. r \in P
  BY <1>5, <1>6
<1> QED BY <1>3, <1>5, <1>7

-----------------------------------------------------------------------------
(* Among.                                                                  *)

IsFilter(g, q, xs) ==
  g = [n \in 0 .. Len(q) |->
         IF n = 0 THEN << >>
         ELSE IF q[n] \in xs THEN Append(g[n - 1], q[n]) ELSE g[n - 1]]

(* Among is the last value of any function that filters step by step.      *)
LEMMA AmongIs ==
  ASSUME NEW T, NEW q \in Seq(T), NEW xs, NEW g, IsFilter(g, q, xs)
  PROVE  Among(q, xs) = g[Len(q)]
<1> DEFINE F(h) == [n \in 0 .. Len(q) |->
                      IF n = 0 THEN << >>
                      ELSE IF q[n] \in xs THEN Append(h[n - 1], q[n]) ELSE h[n - 1]]
           f == CHOOSE h : h = F(h)
<1>1. f = F(f)
  <2>1. g = F(g)
    BY DEF IsFilter
  <2> HIDE DEF F
  <2> QED BY <2>1
<1>2. Among(q, xs) = f[Len(q)]
  BY DEF Among
<1> HIDE DEF f
<1>3. \A n \in 0 .. Len(q) : f[n] = g[n]
  <2> DEFINE D == {n \in 0 .. Len(q) : f[n] # g[n]}
  <2> SUFFICES ASSUME D # {} PROVE FALSE
    OBVIOUS
  <2>1. D \in SUBSET Nat
    OBVIOUS
  <2> HIDE DEF D
  <2>2. PICK n \in D : \A m \in D : n <= m
    BY <2>1, LeastExists
  <2> USE DEF D
  <2>3. n # 0
    BY <1>1 DEF IsFilter
  <2>4. n - 1 \in 0 .. Len(q) /\ n - 1 \notin D
    BY <2>2, <2>3
  <2>5. f[n - 1] = g[n - 1]
    BY <2>4
  <2>6. f[n] = IF q[n] \in xs THEN Append(f[n - 1], q[n]) ELSE f[n - 1]
    BY <1>1, <2>3
  <2>7. g[n] = IF q[n] \in xs THEN Append(g[n - 1], q[n]) ELSE g[n - 1]
    BY <2>3 DEF IsFilter
  <2> QED BY <2>5, <2>6, <2>7
<1> QED BY <1>2, <1>3

(* There is such a function.                                               *)
LEMMA FilterExists ==
  ASSUME NEW T, NEW q \in Seq(T), NEW xs
  PROVE  \E g : IsFilter(g, q, xs) /\ g \in [0 .. Len(q) -> Seq(T)]
<1> DEFINE N == Len(q)
           s == [p \in (1 .. N) \X Seq(T) |->
                   IF q[p[1]] \in xs THEN Append(p[2], q[p[1]]) ELSE p[2]]
<1>1. s \in [(1 .. N) \X Seq(T) -> Seq(T)]
  <2> SUFFICES ASSUME NEW p \in (1 .. N) \X Seq(T)
               PROVE  (IF q[p[1]] \in xs THEN Append(p[2], q[p[1]]) ELSE p[2]) \in Seq(T)
    OBVIOUS
  <2>1. p[1] \in 1 .. N /\ p[2] \in Seq(T) /\ q[p[1]] \in T
    OBVIOUS
  <2> QED BY <2>1
<1>2. << >> \in Seq(T) /\ N \in Nat
  OBVIOUS
<1> HIDE DEF s
<1>3. PICK g : IsIteration(g, Seq(T), << >>, N, s)
  BY <1>1, <1>2, Iterated, Zenon
<1>4. g \in [0 .. N -> Seq(T)] /\ g[0] = << >> /\ \A n \in 1 .. N : g[n] = s[<<n, g[n - 1]>>]
  BY <1>3 DEF IsIteration
<1>5. \A n \in 0 .. N :
        g[n] = IF n = 0 THEN << >>
               ELSE IF q[n] \in xs THEN Append(g[n - 1], q[n]) ELSE g[n - 1]
  <2> SUFFICES ASSUME NEW n \in 1 .. N
               PROVE  g[n] = IF q[n] \in xs THEN Append(g[n - 1], q[n]) ELSE g[n - 1]
    <3>1. \A n \in 0 .. N : n = 0 \/ n \in 1 .. N
      BY <1>2
    <3>2. \A n \in 1 .. N : n # 0
      OBVIOUS
    <3> HIDE DEF N
    <3> QED BY <1>4, <3>1, <3>2
  <2>1. <<n, g[n - 1]>> \in (1 .. N) \X Seq(T)
    <3>1. n - 1 \in 0 .. N
      BY <1>2
    <3> QED BY <1>4, <3>1
  <2>2. s[<<n, g[n - 1]>>] = IF q[n] \in xs THEN Append(g[n - 1], q[n]) ELSE g[n - 1]
    BY <2>1 DEF s
  <2> QED BY <1>4, <2>2
<1>6. IsFilter(g, q, xs)
  BY <1>4, <1>5 DEF IsFilter
<1> QED BY <1>4, <1>6

(* A list of elements of T is filtered to one.                             *)
LEMMA AmongType ==
  ASSUME NEW T, NEW q \in Seq(T), NEW xs
  PROVE  Among(q, xs) \in Seq(T)
<1>1. PICK g : IsFilter(g, q, xs) /\ g \in [0 .. Len(q) -> Seq(T)]
  BY FilterExists
<1>2. Among(q, xs) = g[Len(q)]
  BY <1>1, AmongIs, Zenon
<1> QED BY <1>1, <1>2

(* The two equations Among is computed by.                                 *)
LEMMA AmongEmpty ==
  ASSUME NEW xs
  PROVE  Among(<< >>, xs) = << >>
<1>1. << >> \in Seq({}) /\ Len(<< >>) = 0
  OBVIOUS
<1>2. PICK g : IsFilter(g, << >>, xs)
  BY <1>1, FilterExists, Zenon
<1>3. Among(<< >>, xs) = g[0]
  BY <1>1, <1>2, AmongIs
<1>4. g[0] = << >>
  BY <1>1, <1>2 DEF IsFilter
<1> QED BY <1>3, <1>4

(* And when the list gets longer.                                          *)
LEMMA AmongAppend ==
  ASSUME NEW T, NEW q \in Seq(T), NEW e \in T, NEW xs
  PROVE  Among(Append(q, e), xs) = IF e \in xs THEN Append(Among(q, xs), e) ELSE Among(q, xs)
<1> DEFINE r == Append(q, e)
           N == Len(q)
<1>1. /\ r \in Seq(T) /\ Len(r) = N + 1 /\ N \in Nat /\ r[N + 1] = e
      /\ \A n \in 1 .. N : r[n] = q[n]
  OBVIOUS
<1> HIDE DEF r
<1>2. PICK g : IsFilter(g, r, xs)
  BY <1>1, FilterExists, Zenon
<1>3. Among(r, xs) = g[N + 1]
  BY <1>1, <1>2, AmongIs
<1> DEFINE h == [n \in 0 .. N |-> g[n]]
<1>4. \A n \in 0 .. N + 1 :
        g[n] = IF n = 0 THEN << >>
               ELSE IF r[n] \in xs THEN Append(g[n - 1], r[n]) ELSE g[n - 1]
  BY <1>1, <1>2 DEF IsFilter
<1>5. \A n \in 0 .. N :
        h[n] = IF n = 0 THEN << >>
               ELSE IF q[n] \in xs THEN Append(h[n - 1], q[n]) ELSE h[n - 1]
  <2> SUFFICES ASSUME NEW n \in 1 .. N
               PROVE  h[n] = IF q[n] \in xs THEN Append(h[n - 1], q[n]) ELSE h[n - 1]
    BY <1>1, <1>4
  <2>1. h[n] = g[n] /\ h[n - 1] = g[n - 1] /\ n \in 0 .. N + 1 /\ n # 0
    BY <1>1
  <2> QED BY <1>1, <1>4, <2>1
<1>6. IsFilter(h, q, xs)
  BY <1>5 DEF IsFilter
<1>7. Among(q, xs) = g[N]
  <2>1. Among(q, xs) = h[N]
    BY <1>6, AmongIs, Zenon
  <2> QED BY <1>1, <2>1
<1>8. g[N + 1] = IF e \in xs THEN Append(g[N], e) ELSE g[N]
  <2>1. N + 1 \in 0 .. N + 1 /\ N + 1 # 0 /\ (N + 1) - 1 = N
    BY <1>1
  <2> QED BY <1>1, <1>4, <2>1
<1> QED BY <1>3, <1>7, <1>8 DEF r

(* Only what is in xs of the list counts.                                  *)
LEMMA AmongSame ==
  ASSUME NEW T, NEW q \in Seq(T), NEW xs, NEW ys,
         \A e \in Elems(q) : e \in xs <=> e \in ys
  PROVE  Among(q, xs) = Among(q, ys)
<1> DEFINE P == {p \in Seq(T) : (\A e \in Elems(p) : e \in xs <=> e \in ys)
                                  => Among(p, xs) = Among(p, ys)}
<1>1. << >> \in P
  BY AmongEmpty
<1>2. ASSUME NEW p \in Seq(T), NEW e \in T, p \in P
      PROVE  Append(p, e) \in P
  <2>1. Append(p, e) \in Seq(T) /\ Elems(Append(p, e)) = Elems(p) \cup {e}
    BY Appended
  <2>2. /\ Among(Append(p, e), xs) = IF e \in xs THEN Append(Among(p, xs), e) ELSE Among(p, xs)
        /\ Among(Append(p, e), ys) = IF e \in ys THEN Append(Among(p, ys), e) ELSE Among(p, ys)
    BY AmongAppend
  <2>3. ASSUME \A d \in Elems(Append(p, e)) : d \in xs <=> d \in ys
        PROVE  Among(Append(p, e), xs) = Among(Append(p, e), ys)
    <3>1. (\A d \in Elems(p) : d \in xs <=> d \in ys) /\ (e \in xs <=> e \in ys)
      BY <2>1, <2>3
    <3>2. Among(p, xs) = Among(p, ys)
      BY <1>2, <3>1
    <3> QED BY <2>2, <3>1, <3>2
  <2> QED BY <2>1, <2>3
<1> HIDE DEF P
<1>3. q \in P
  BY <1>1, <1>2, EveryList
<1> QED BY <1>3 DEF P

(* An element behind two lists.                                           *)
JoinsBehind(a, b, e) == Append(a \o b, e) = a \o Append(b, e)

\* It is the last one of the second.
LEMMA AppendJoined ==
  ASSUME NEW T, NEW a \in Seq(T), NEW b \in Seq(T), NEW e \in T
  PROVE  JoinsBehind(a, b, e)
<1> USE DEF JoinsBehind
<1> DEFINE x == a \o b
           y == Append(b, e)
<1>1. /\ x \in Seq(T) /\ Len(x) = Len(a) + Len(b) /\ Len(a) \in Nat /\ Len(b) \in Nat
      /\ \A i \in 1 .. Len(a) + Len(b) : x[i] = IF i <= Len(a) THEN a[i] ELSE b[i - Len(a)]
  OBVIOUS
<1>2. /\ y \in Seq(T) /\ Len(y) = Len(b) + 1 /\ y[Len(b) + 1] = e
      /\ \A i \in 1 .. Len(b) : y[i] = b[i]
  OBVIOUS
<1> HIDE DEF x, y
<1>3. /\ a \o y \in Seq(T) /\ Len(a \o y) = Len(a) + Len(y) /\ Len(y) \in Nat
      /\ \A i \in 1 .. Len(a) + Len(y) : (a \o y)[i] = IF i <= Len(a) THEN a[i] ELSE y[i - Len(a)]
  <2>1. y \in Seq(T)
    BY <1>2
  <2> QED BY <2>1
<1>4. /\ Append(x, e) \in Seq(T) /\ Len(Append(x, e)) = Len(x) + 1 /\ Append(x, e)[Len(x) + 1] = e
      /\ \A i \in 1 .. Len(x) : Append(x, e)[i] = x[i]
  BY <1>1
<1>5. DOMAIN Append(x, e) = 1 .. Len(a) + Len(b) + 1 /\ DOMAIN (a \o y) = 1 .. Len(a) + Len(b) + 1
  BY <1>1, <1>2, <1>3, <1>4
<1>6. ASSUME NEW i \in 1 .. Len(a) + Len(b) + 1
      PROVE  Append(x, e)[i] = (a \o y)[i]
  <2>1. CASE i <= Len(a)
    BY <1>1, <1>2, <1>3, <1>4, <2>1
  <2>2. CASE i > Len(a) /\ i <= Len(a) + Len(b)
    <3>1. i - Len(a) \in 1 .. Len(b) /\ ~(i <= Len(a)) /\ i \in 1 .. Len(a) + Len(y) /\ i \in 1 .. Len(x)
      BY <1>1, <1>2, <2>2
    <3>2. (a \o y)[i] = y[i - Len(a)] /\ y[i - Len(a)] = b[i - Len(a)]
      BY <1>2, <1>3, <3>1
    <3>3. Append(x, e)[i] = x[i] /\ x[i] = b[i - Len(a)]
      BY <1>1, <1>4, <3>1
    <3> QED BY <3>2, <3>3
  <2>3. CASE i = Len(a) + Len(b) + 1
    <3>1. i - Len(a) = Len(b) + 1 /\ ~(i <= Len(a)) /\ i \in 1 .. Len(a) + Len(y) /\ i = Len(x) + 1
      BY <1>1, <1>2, <2>3
    <3>2. (a \o y)[i] = y[i - Len(a)]
      BY <1>3, <3>1
    <3>3. y[i - Len(a)] = e
      BY <1>2, <3>1
    <3>4. Append(x, e)[i] = e
      BY <1>4, <3>1
    <3> QED BY <3>2, <3>3, <3>4
  <2>4. i <= Len(a) \/ (i > Len(a) /\ i <= Len(a) + Len(b)) \/ i = Len(a) + Len(b) + 1
    <3>1. Len(a) \in Nat /\ Len(b) \in Nat
      OBVIOUS
    <3> HIDE DEF x, y
    <3> QED BY <3>1
  <2> QED BY <2>1, <2>2, <2>3, <2>4, Zenon
<1>7. Append(x, e) = a \o y
  BY <1>3, <1>4, <1>5, <1>6, SameList, Zenon
<1> QED BY <1>7 DEF x, y

(* Of two lists, one behind the other.                                     *)
AmongSplits(p, q, xs) == Among(p \o q, xs) = Among(p, xs) \o Among(q, xs)

\* What counts of both is what counts of the first, then of the second.
LEMMA AmongJoined ==
  ASSUME NEW T, NEW p \in Seq(T), NEW q \in Seq(T), NEW xs
  PROVE  AmongSplits(p, q, xs)
<1> USE DEF AmongSplits
<1> DEFINE P == {r \in Seq(T) : Among(p \o r, xs) = Among(p, xs) \o Among(r, xs)}
<1>1. << >> \in P
  <2>1. Among(p, xs) \in Seq(T) /\ Among(<< >>, xs) = << >>
    BY AmongEmpty, AmongType
  <2> HIDE DEF P
  <2>2. p \o << >> = p /\ Among(p, xs) \o << >> = Among(p, xs)
    BY <2>1
  <2> QED BY <2>1, <2>2 DEF P
<1>2. ASSUME NEW r \in Seq(T), NEW e \in T, r \in P
      PROVE  Append(r, e) \in P
  <2>1. Append(r, e) \in Seq(T) /\ p \o r \in Seq(T) /\ p \o Append(r, e) = Append(p \o r, e)
    OBVIOUS
  <2>2. Among(p, xs) \in Seq(T) /\ Among(r, xs) \in Seq(T)
    BY AmongType
  <2>3. /\ Among(Append(p \o r, e), xs) =
              IF e \in xs THEN Append(Among(p \o r, xs), e) ELSE Among(p \o r, xs)
        /\ Among(Append(r, e), xs) = IF e \in xs THEN Append(Among(r, xs), e) ELSE Among(r, xs)
    BY <2>1, AmongAppend
  <2>5. Append(Among(p, xs) \o Among(r, xs), e) = Among(p, xs) \o Append(Among(r, xs), e)
    <3>1. JoinsBehind(Among(p, xs), Among(r, xs), e)
      BY <2>2, AppendJoined, Zenon
    <3> QED BY <3>1 DEF JoinsBehind
  <2> QED BY <1>2, <2>1, <2>3, <2>5
<1> HIDE DEF P
<1>3. q \in P
  BY <1>1, <1>2, EveryList
<1> QED BY <1>3 DEF P

(* Filtered twice.                                                         *)
LEMMA AmongTwice ==
  ASSUME NEW T, NEW q \in Seq(T), NEW xs, NEW ys
  PROVE  Among(Among(q, xs), ys) = Among(q, xs \cap ys)
<1> DEFINE P == {r \in Seq(T) : Among(Among(r, xs), ys) = Among(r, xs \cap ys)}
<1>1. << >> \in P
  BY AmongEmpty
<1>2. ASSUME NEW r \in Seq(T), NEW e \in T, r \in P
      PROVE  Append(r, e) \in P
  <2>1. Append(r, e) \in Seq(T) /\ Among(r, xs) \in Seq(T)
    BY AmongType
  <2>2. /\ Among(Append(r, e), xs) = IF e \in xs THEN Append(Among(r, xs), e) ELSE Among(r, xs)
        /\ Among(Append(r, e), xs \cap ys) =
              IF e \in xs \cap ys THEN Append(Among(r, xs \cap ys), e) ELSE Among(r, xs \cap ys)
        /\ Among(Append(Among(r, xs), e), ys) =
              IF e \in ys THEN Append(Among(Among(r, xs), ys), e) ELSE Among(Among(r, xs), ys)
    BY <2>1, AmongAppend
  <2>3. Among(Among(r, xs), ys) = Among(r, xs \cap ys)
    BY <1>2
  <2>4. Among(Among(Append(r, e), xs), ys) = Among(Append(r, e), xs \cap ys)
    <3> HIDE DEF P
    <3>1. CASE e \in xs /\ e \in ys
      BY <2>2, <2>3, <3>1
    <3>2. CASE e \in xs /\ e \notin ys
      BY <2>2, <2>3, <3>2
    <3>3. CASE e \notin xs
      BY <2>2, <2>3, <3>3
    <3> QED BY <3>1, <3>2, <3>3
  <2> QED BY <2>1, <2>4
<1> HIDE DEF P
<1>3. q \in P
  BY <1>1, <1>2, EveryList
<1> QED BY <1>3 DEF P

(* A list none of whose elements is left out,                              *)
LEMMA AmongAll ==
  ASSUME NEW T, NEW q \in Seq(T), NEW xs, Elems(q) \subseteq xs
  PROVE  Among(q, xs) = q
<1> DEFINE P == {p \in Seq(T) : Elems(p) \subseteq xs => Among(p, xs) = p}
<1>1. << >> \in P
  BY AmongEmpty
<1>2. ASSUME NEW p \in Seq(T), NEW e \in T, p \in P
      PROVE  Append(p, e) \in P
  <2>1. Append(p, e) \in Seq(T) /\ Elems(Append(p, e)) = Elems(p) \cup {e}
    BY Appended
  <2>2. Among(Append(p, e), xs) = IF e \in xs THEN Append(Among(p, xs), e) ELSE Among(p, xs)
    BY AmongAppend
  <2> QED BY <1>2, <2>1, <2>2
<1> HIDE DEF P
<1>3. q \in P
  BY <1>1, <1>2, EveryList
<1> QED BY <1>3 DEF P

(* and one all of whose elements are.                                      *)
LEMMA AmongNone ==
  ASSUME NEW T, NEW q \in Seq(T), NEW xs, Elems(q) \cap xs = {}
  PROVE  Among(q, xs) = << >>
<1> DEFINE P == {p \in Seq(T) : Elems(p) \cap xs = {} => Among(p, xs) = << >>}
<1>1. << >> \in P
  BY AmongEmpty
<1>2. ASSUME NEW p \in Seq(T), NEW e \in T, p \in P
      PROVE  Append(p, e) \in P
  <2>1. Append(p, e) \in Seq(T) /\ Elems(Append(p, e)) = Elems(p) \cup {e}
    BY Appended
  <2>2. Among(Append(p, e), xs) = IF e \in xs THEN Append(Among(p, xs), e) ELSE Among(p, xs)
    BY AmongAppend
  <2> QED BY <1>2, <2>1, <2>2
<1> HIDE DEF P
<1>3. q \in P
  BY <1>1, <1>2, EveryList
<1> QED BY <1>3 DEF P

(* None of the elements of xs is twice in q, as it may be in a list in     *)
(* which others are.                                                       *)
OnceAmong(q, xs) == \A i, j \in DOMAIN q : q[i] = q[j] /\ q[i] \in xs => i = j

(* What is left of a list, and that nothing is in it twice.                *)
LEMMA AmongElems ==
  ASSUME NEW T, NEW q \in Seq(T), NEW xs
  PROVE  /\ Elems(Among(q, xs)) = Elems(q) \cap xs
         /\ OnceAmong(q, xs) => NoRepeat(Among(q, xs))
<1> DEFINE P == {p \in Seq(T) : /\ Elems(Among(p, xs)) = Elems(p) \cap xs
                                /\ OnceAmong(p, xs) => NoRepeat(Among(p, xs))}
<1>1. << >> \in P
  BY AmongEmpty, EmptyList
<1>2. ASSUME NEW p \in Seq(T), NEW e \in T, p \in P
      PROVE  Append(p, e) \in P
  <2>1. Append(p, e) \in Seq(T) /\ Elems(Append(p, e)) = Elems(p) \cup {e}
    BY Appended
  <2>2. Among(Append(p, e), xs) = IF e \in xs THEN Append(Among(p, xs), e) ELSE Among(p, xs)
    BY AmongAppend
  <2>3. Among(p, xs) \in Seq(T)
    BY AmongType
  <2>4. OnceAmong(Append(p, e), xs) => OnceAmong(p, xs) /\ (e \in xs => e \notin Elems(p))
    <3>1. /\ DOMAIN Append(p, e) = 1 .. Len(p) + 1 /\ DOMAIN p = 1 .. Len(p) /\ Len(p) \in Nat
          /\ \A i \in 1 .. Len(p) : Append(p, e)[i] = p[i]
          /\ Append(p, e)[Len(p) + 1] = e
      OBVIOUS
    <3> QED BY <3>1 DEF OnceAmong, Elems
  <2>5. CASE e \in xs
    <3>1. /\ Elems(Append(Among(p, xs), e)) = Elems(Among(p, xs)) \cup {e}
          /\ NoRepeat(Among(p, xs)) /\ e \notin Elems(Among(p, xs)) => NoRepeat(Append(Among(p, xs), e))
      BY <2>3, Appended
    <3> QED BY <1>2, <2>1, <2>2, <2>4, <2>5, <3>1
  <2>6. CASE e \notin xs
    BY <1>2, <2>1, <2>2, <2>4, <2>6
  <2> QED BY <2>5, <2>6
<1> HIDE DEF P
<1>3. q \in P
  BY <1>1, <1>2, EveryList
<1> QED BY <1>3 DEF P

(* A list without repetition is as long as it has elements.                *)
LEMMA NoRepeatCount ==
  ASSUME NEW T, NEW q \in Seq(T), NoRepeat(q)
  PROVE  Cardinality(Elems(q)) = Len(q)
<1>1. Len(q) \in Nat /\ DOMAIN q = 1 .. Len(q) /\ q = [i \in 1 .. Len(q) |-> q[i]]
  OBVIOUS
<1>2. q \in Bijection(1 .. Len(q), Elems(q))
  <2>1. q \in [1 .. Len(q) -> Elems(q)]
    BY <1>1 DEF Elems
  <2>2. IsInjective(q)
    BY <1>1 DEF NoRepeat, IsInjective
  <2>3. \A e \in Elems(q) : \E i \in 1 .. Len(q) : q[i] = e
    BY <1>1 DEF Elems
  <2> QED BY <2>1, <2>2, <2>3 DEF Bijection, Injection, Surjection
<1>3. ExistsBijection(1 .. Len(q), Elems(q))
  BY <1>2 DEF ExistsBijection
<1> QED BY <1>1, <1>3, FS_CountingElements

(* Lists put together in another way.                                      *)
Regroups(a, b, c) == (a \o b) \o c = a \o (b \o c)

\* Of three lists it does not matter which two are put together first.
LEMMA Regrouped ==
  ASSUME NEW T, NEW a \in Seq(T), NEW b \in Seq(T), NEW c \in Seq(T)
  PROVE  Regroups(a, b, c)
<1> DEFINE P == {q \in Seq(T) : (a \o b) \o q = a \o (b \o q)}
<1>1. << >> \in P
  <2>1. a \o b \in Seq(T) /\ (a \o b) \o << >> = a \o b /\ b \o << >> = b
    <3>1. a \o b \in Seq(T)
      OBVIOUS
    <3> QED BY <3>1, Joined
  <2> QED BY <2>1
<1>2. ASSUME NEW q \in Seq(T), NEW e \in T, q \in P
      PROVE  Append(q, e) \in P
  <2>1. a \o b \in Seq(T) /\ b \o q \in Seq(T) /\ Append(q, e) \in Seq(T)
    BY Joined, Appended
  <2>2. JoinsBehind(a \o b, q, e) /\ JoinsBehind(b, q, e) /\ JoinsBehind(a, b \o q, e)
    BY <2>1, AppendJoined, Zenon
  <2>3. (a \o b) \o q = a \o (b \o q)
    BY <1>2
  <2>4. (a \o b) \o Append(q, e) = a \o (b \o Append(q, e))
    BY <2>2, <2>3, Zenon DEF JoinsBehind
  <2> QED BY <2>1, <2>4
<1> HIDE DEF P
<1>3. c \in P
  BY <1>1, <1>2, EveryList
<1> QED BY <1>3 DEF P, Regroups

\* A list is its first element and the rest.
LEMMA FirstAndRest ==
  ASSUME NEW T, NEW q \in Seq(T), q # << >>
  PROVE  q = <<Head(q)>> \o Tail(q)
OBVIOUS

\* One more at the end.
LEMMA AppendIs ==
  ASSUME NEW T, NEW q \in Seq(T), NEW e \in T
  PROVE  Append(q, e) = q \o <<e>>
OBVIOUS

SplitsAt(q, k, a, b) == q = a \o (<<q[k]>> \o b) /\ RemoveAt(q, k) = a \o b

\* What is before and what is behind an element that is removed.
LEMMA RemovedParts ==
  ASSUME NEW T, NEW q \in Seq(T), NEW k \in DOMAIN q
  PROVE  \E a \in Seq(T), b \in Seq(T) : SplitsAt(q, k, a, b)
<1> DEFINE a == SubSeq(q, 1, k - 1)
           b == SubSeq(q, k + 1, Len(q))
<1>1. k \in Nat /\ k >= 1 /\ k <= Len(q) /\ Len(q) \in Nat /\ q[k] \in T
  OBVIOUS
<1>2. a \in Seq(T) /\ Len(a) = k - 1 /\ \A j \in 1 .. k - 1 : a[j] = q[j]
  BY <1>1
<1>3. b \in Seq(T) /\ Len(b) = Len(q) - k /\ \A j \in 1 .. Len(q) - k : b[j] = q[k + j]
  BY <1>1
<1>4. RemoveAt(q, k) = a \o b
  BY DEF RemoveAt
<1> DEFINE c == <<q[k]>> \o b
           N == Len(q)
<1>5. /\ c \in Seq(T) /\ Len(c) = N - k + 1 /\ c[1] = q[k]
      /\ \A j \in 1 .. N - k : c[j + 1] = q[k + j]
  <2>1. /\ <<q[k]>> \in Seq(T) /\ Len(<<q[k]>>) = 1 /\ <<q[k]>>[1] = q[k]
    BY <1>1
  <2> DEFINE s == <<q[k]>>
  <2> HIDE DEF s, b, a
  <2>2. /\ s \o b \in Seq(T) /\ Len(s \o b) = Len(s) + Len(b)
        /\ \A j \in 1 .. Len(s) + Len(b) : (s \o b)[j] = IF j <= Len(s) THEN s[j] ELSE b[j - Len(s)]
    BY <1>3, <2>1 DEF s
  <2>3. Len(s) = 1 /\ s[1] = q[k]
    BY <2>1 DEF s
  <2>4. (s \o b)[1] = q[k]
    BY <1>1, <1>3, <2>2, <2>3
  <2>5. ASSUME NEW j \in 1 .. N - k PROVE (s \o b)[j + 1] = q[k + j]
    <3>1. j + 1 \in 1 .. Len(s) + Len(b) /\ ~(j + 1 <= Len(s)) /\ (j + 1) - Len(s) = j
      BY <1>1, <1>3, <2>3
    <3>2. (s \o b)[j + 1] = b[j]
      BY <2>2, <3>1
    <3> QED BY <1>3, <3>2
  <2> QED BY <1>1, <1>3, <2>2, <2>3, <2>4, <2>5 DEF s
<1> HIDE DEF a, b, c, N
<1>6. /\ a \o c \in Seq(T) /\ Len(a \o c) = Len(a) + Len(c)
      /\ \A j \in 1 .. Len(a) + Len(c) : (a \o c)[j] = IF j <= Len(a) THEN a[j] ELSE c[j - Len(a)]
  <2>1. a \in Seq(T) /\ c \in Seq(T)
    BY <1>2, <1>5
  <2> QED BY <2>1
<1>7. N \in Nat /\ N = Len(q) /\ DOMAIN q = 1 .. N /\ DOMAIN (a \o c) = 1 .. N /\ Len(a) + Len(c) = N
  <2>1. N \in Nat /\ N = Len(q) /\ DOMAIN q = 1 .. N
    BY DEF N
  <2>2. Len(a) + Len(c) = N
    BY <1>1, <1>2, <1>5, <2>1
  <2>3. DOMAIN (a \o c) = 1 .. Len(a) + Len(c)
    BY <1>6
  <2> QED BY <2>1, <2>2, <2>3
<1>8. ASSUME NEW j \in 1 .. N PROVE (a \o c)[j] = q[j]
  <2>1. CASE j < k
    <3>1. j <= Len(a) /\ j \in 1 .. Len(a) + Len(c) /\ j \in 1 .. k - 1
      BY <1>1, <1>2, <1>7, <2>1
    <3> QED BY <1>2, <1>6, <3>1
  <2>2. CASE j = k
    <3>1. ~(j <= Len(a)) /\ j \in 1 .. Len(a) + Len(c) /\ j - Len(a) = 1
      BY <1>1, <1>2, <1>7, <2>2
    <3> QED BY <1>5, <1>6, <2>2, <3>1
  <2>3. CASE j > k
    <3>1. /\ ~(j <= Len(a)) /\ j \in 1 .. Len(a) + Len(c) /\ j - k \in 1 .. N - k
          /\ j - Len(a) = (j - k) + 1 /\ k + (j - k) = j
      BY <1>1, <1>2, <1>7, <2>3
    <3>2. (a \o c)[j] = c[(j - k) + 1]
      BY <1>6, <3>1
    <3>3. c[(j - k) + 1] = q[k + (j - k)]
      BY <1>5, <3>1
    <3> QED BY <3>1, <3>2, <3>3
  <2>4. j < k \/ j = k \/ j > k
    BY <1>1, <1>7
  <2> QED BY <2>1, <2>2, <2>3, <2>4
<1>9. a \o c = q
  BY <1>6, <1>7, <1>8, SameList, Zenon
<1> QED BY <1>2, <1>3, <1>4, <1>9 DEF c, SplitsAt
=============================================================================
