--------------------------- MODULE EventListProofs ---------------------------
(***************************************************************************)
(* Proofs about what EventQueue does with events: the Java queue, the      *)
(* events the dispatch table merges into, the threads that wait for a      *)
(* notification, and the order of the events on their way from the ring to *)
(* the listeners.                                                          *)
(***************************************************************************)
EXTENDS EventQueueProofs, ListFacts

-----------------------------------------------------------------------------
(* A linked list.                                                          *)

(* The references link, from first, form the list q, which ends in last.   *)
IsChain(q, first, last, link) ==
  /\ q \in Seq(Events) /\ NoRepeat(q)
  /\ first = (IF q = << >> THEN None ELSE q[1])
  /\ last = (IF q = << >> THEN None ELSE Last(q))
  /\ link \in [Events -> Events \cup {None}]
  /\ \A k \in DOMAIN q : link[q[k]] = IF k = Len(q) THEN None ELSE q[k + 1]
  /\ \A e \in Events \ Elems(q) : link[e] = None

(* The youngest event of type y in the list q is w.                        *)
IsLatest(w, y, q) ==
  /\ EventType(w) = y
  /\ \E k \in DOMAIN q : /\ q[k] = w
                         /\ \A j \in k + 1 .. Len(q) : EventType(q[j]) # y

\* A chain that ends has no element.
LEMMA ChainEmpty ==
  ASSUME NEW q, NEW first, NEW last, NEW link, IsChain(q, first, last, link)
  PROVE  /\ first = None <=> q = << >>
         /\ last = None <=> q = << >>
         /\ first \in Events \cup {None} /\ last \in Events \cup {None}
<1>1. CASE q = << >>
  BY <1>1 DEF IsChain
<1>2. CASE q # << >>
  <2>1. q \in Seq(Events) /\ first = q[1] /\ last = q[Len(q)]
    BY <1>2 DEF IsChain, Last
  <2>2. q[1] \in Events /\ q[Len(q)] \in Events
    BY <1>2, <2>1
  <2> QED BY <1>2, <2>1, <2>2, Names
<1> QED BY <1>1, <1>2

\* No reference at all is the empty list.
LEMMA ChainOfNone ==
  ASSUME NEW link, link = [e \in Events |-> None]
  PROVE  IsChain(<< >>, None, None, link)
BY EmptyList DEF IsChain

\* The list the references link form is the only one.
LEMMA LinkedIs ==
  ASSUME NEW q, NEW first, NEW last, NEW link, IsChain(q, first, last, link)
  PROVE  Linked(first, link) = q
<1> DEFINE C == Cardinality(Events)
           N == Len(q)
           w == [k \in 1 .. C |-> IF k <= N THEN q[k] ELSE None]
           F(h) == [k \in 1 .. C |-> IF k = 1 THEN first
                                     ELSE IF h[k - 1] = None THEN None ELSE link[h[k - 1]]]
           f == CHOOSE h : h = F(h)
<1>1. IsFiniteSet(Events) /\ C \in Nat /\ C > 0
  <2>1. IsFiniteSet(Events)
    BY Sizes, FS_Union DEF Events
  <2>2. Events # {}
    BY Sizes DEF Events
  <2> QED BY <2>1, <2>2, FS_EmptySet, FS_CardinalityType
<1>2. q \in Seq(Events) /\ N \in Nat /\ DOMAIN q = 1 .. N
  BY DEF IsChain
<1>3. N <= C
  <2>1. q \in Injection(1 .. N, Events)
    BY <1>2 DEF IsChain, NoRepeat, Injection, IsInjective
  <2>2. IsFiniteSet(1 .. N) /\ Cardinality(1 .. N) = N
    BY <1>2, FirstPlaces
  <2> QED BY <1>1, <2>1, <2>2, FS_Injection
<1>4. w = F(w)
  <2>1. ASSUME NEW k \in 1 .. C
        PROVE  w[k] = IF k = 1 THEN first
                      ELSE IF w[k - 1] = None THEN None ELSE link[w[k - 1]]
    <3>1. CASE k = 1
      BY <1>1, <1>2, <3>1 DEF IsChain
    <3>2. CASE k # 1 /\ k - 1 <= N
      <4>1. k - 1 \in 1 .. N /\ k - 1 \in 1 .. C /\ k \in Int
        BY <1>1, <1>2, <3>2
      <4>2. w[k - 1] = q[k - 1] /\ q[k - 1] \in Events /\ q[k - 1] # None
        BY <1>2, <4>1, Names
      <4>3. link[q[k - 1]] = IF k - 1 = N THEN None ELSE q[k]
        <5>1. (k - 1) + 1 = k
          BY <4>1
        <5> QED BY <1>2, <4>1, <5>1 DEF IsChain
      <4>4. w[k] = IF k - 1 = N THEN None ELSE q[k]
        BY <1>2, <3>2, <4>1
      <4> QED BY <3>2, <4>2, <4>3, <4>4
    <3>3. CASE k # 1 /\ ~(k - 1 <= N)
      <4>1. k - 1 \in 1 .. C /\ ~(k <= N)
        BY <1>1, <1>2, <3>3
      <4>2. w[k - 1] = None /\ w[k] = None
        BY <3>3, <4>1
      <4> QED BY <3>3, <4>2
    <3> QED BY <3>1, <3>2, <3>3
  <2> QED BY <2>1
<1> HIDE DEF w
<1>5. f = F(f)
  BY <1>4
<1>6. f = w
  <2> HIDE DEF f
  <2>1. /\ DOMAIN f = 1 .. C /\ DOMAIN w = 1 .. C
        /\ f = [k \in 1 .. C |-> f[k]] /\ w = [k \in 1 .. C |-> w[k]]
        /\ \A k \in 1 .. C : f[k] = IF k = 1 THEN first
                             ELSE IF f[k - 1] = None THEN None ELSE link[f[k - 1]]
        /\ \A k \in 1 .. C : w[k] = IF k = 1 THEN first
                             ELSE IF w[k - 1] = None THEN None ELSE link[w[k - 1]]
    BY <1>4, <1>5
  <2> DEFINE D == {k \in 1 .. C : f[k] # w[k]}
  <2>2. D = {}
    <3> SUFFICES ASSUME D # {} PROVE FALSE
      OBVIOUS
    <3>1. D \in SUBSET Nat
      OBVIOUS
    <3>2. PICK k \in D : \A m \in D : k <= m
      BY <3>1, LeastExists
    <3>3. k \in 1 .. C /\ f[k] # w[k] /\ k # 1
      BY <2>1
    <3>4. k - 1 \in 1 .. C /\ k - 1 \notin D
      BY <1>1, <3>2, <3>3
    <3>5. f[k - 1] = w[k - 1]
      BY <3>4
    <3>6. /\ f[k] = IF f[k - 1] = None THEN None ELSE link[f[k - 1]]
          /\ w[k] = IF w[k - 1] = None THEN None ELSE link[w[k - 1]]
      BY <2>1, <3>3, Zenon
    <3> QED BY <3>3, <3>5, <3>6
  <2>3. \A k \in 1 .. C : f[k] = w[k]
    BY <2>2
  <2> HIDE DEF D
  <2> QED BY <2>1, <2>3
<1>7. Linked(first, link) = Among(w, Events)
  BY <1>6 DEF Linked
<1> DEFINE r == [k \in 1 .. C - N |-> None]
<1>8. Among(w, Events) = q
  <2>1. r \in Seq(Events \cup {None}) /\ q \in Seq(Events \cup {None})
    BY <1>1, <1>2, <1>3
  <2>2. w = q \o r
    BY <1>1, <1>2, <1>3 DEF w
  <2>3. Among(q, Events) = q
    BY <1>2, AmongAll, ElemsType
  <2>4. Among(r, Events) = << >>
    <3>1. Elems(r) \cap Events = {}
      BY Names DEF Elems
    <3> QED BY <2>1, <3>1, AmongNone
  <2> HIDE DEF r
  <2>5. Among(q \o r, Events) = q \o << >>
    <3>1. Among(q \o r, Events) = Among(q, Events) \o Among(r, Events)
      <4>1. AmongSplits(q, r, Events)
        BY <2>1, AmongJoined, Zenon
      <4> QED BY <4>1, Zenon DEF AmongSplits
    <3> QED BY <2>3, <2>4, <3>1, Zenon
  <2> QED BY <1>2, <2>2, <2>5
<1> QED BY <1>7, <1>8

\* post(): one more behind the last.
LEMMA ChainAppended ==
  ASSUME NEW q, NEW first, NEW last, NEW link, IsChain(q, first, last, link),
         NEW e \in Events, e \notin Elems(q)
  PROVE  IsChain(Append(q, e), IF last = None THEN e ELSE first, e,
                 IF last = None THEN link ELSE [link EXCEPT ![last] = e])
<1> DEFINE N == Len(q)
           r == Append(q, e)
           head == IF last = None THEN e ELSE first
           new == IF last = None THEN link ELSE [link EXCEPT ![last] = e]
<1>1. q \in Seq(Events) /\ N \in Nat /\ DOMAIN q = 1 .. N /\ Len(q) = N /\ NoRepeat(q)
  BY DEF IsChain
<1>2. /\ r \in Seq(Events) /\ Len(r) = N + 1 /\ DOMAIN r = 1 .. N + 1 /\ r[N + 1] = e
      /\ \A k \in 1 .. N : r[k] = q[k]
  BY <1>1
<1>3. Elems(r) = Elems(q) \cup {e} /\ NoRepeat(r)
  BY <1>1, Appended
<1>4. r # << >> /\ Last(r) = e
  BY <1>1, <1>2 DEF Last
<1>5. last = None <=> q = << >>
  BY ChainEmpty
<1>6. q = << >> <=> N = 0
  BY <1>1
<1>7. /\ link \in [Events -> Events \cup {None}]
      /\ \A k \in 1 .. N : link[q[k]] = IF k = N THEN None ELSE q[k + 1]
      /\ \A x \in Events \ Elems(q) : link[x] = None
      /\ N # 0 => first = q[1] /\ last = q[N]
  BY <1>1, <1>6 DEF IsChain, Last
<1> HIDE DEF N, r
<1>8. CASE N = 0
  <2>1. Elems(q) = {} /\ last = None /\ head = e /\ new = link
    BY <1>5, <1>6, <1>8, EmptyList
  <2>2. r[1] = e /\ \A k \in 1 .. N + 1 : k = 1 /\ k = N + 1
    BY <1>2, <1>8
  <2>3. \A x \in Events : new[x] = None
    BY <1>7, <2>1
  <2> HIDE DEF new, head
  <2>4. IsChain(r, head, e, new)
    BY <1>2, <1>3, <1>4, <1>7, <2>1, <2>2, <2>3 DEF IsChain
  <2> QED BY <2>4 DEF r, new, head
<1>9. CASE N # 0
  <2>1. /\ N \in 1 .. N /\ 1 \in 1 .. N /\ last = q[N] /\ first = q[1] /\ last # None
        /\ head = first /\ new = [link EXCEPT ![last] = e]
    BY <1>1, <1>5, <1>6, <1>7, <1>9
  <2>2. last \in Events /\ last \in Elems(q) /\ last # e
    BY <1>1, <2>1 DEF Elems
  <2>3. new \in [Events -> Events \cup {None}]
    BY <1>7, <2>1, <2>2
  <2>4. ASSUME NEW k \in 1 .. N + 1
        PROVE  new[r[k]] = IF k = N + 1 THEN None ELSE r[k + 1]
    <3>1. CASE k = N + 1
      <4>1. r[k] = e /\ new[e] = link[e] /\ link[e] = None
        BY <1>2, <1>7, <2>1, <2>2, <3>1
      <4> QED BY <3>1, <4>1
    <3>2. CASE k = N
      <4>1. r[k] = last /\ new[last] = e
        BY <1>2, <1>7, <2>1, <2>2, <3>2
      <4>2. r[k + 1] = e /\ k # N + 1
        BY <1>1, <1>2, <3>2
      <4> QED BY <4>1, <4>2
    <3>3. CASE k < N
      <4>1. k \in 1 .. N /\ k + 1 \in 1 .. N /\ k # N + 1 /\ k # N
        BY <1>1, <3>3
      <4>2. q[k] # last /\ q[k] \in Events /\ r[k] = q[k] /\ r[k + 1] = q[k + 1]
        BY <1>1, <1>2, <2>1, <4>1 DEF NoRepeat
      <4>3. new[q[k]] = link[q[k]] /\ link[q[k]] = q[k + 1]
        BY <1>7, <2>1, <4>1, <4>2
      <4> QED BY <4>1, <4>2, <4>3
    <3>4. k = N + 1 \/ k = N \/ k < N
      BY <1>1
    <3> QED BY <3>1, <3>2, <3>3, <3>4
  <2>5. ASSUME NEW x \in Events \ Elems(r) PROVE new[x] = None
    BY <1>3, <1>7, <2>1, <2>2
  <2>6. r[1] = head
    BY <1>2, <2>1
  <2> HIDE DEF new, head
  <2>7. IsChain(r, head, e, new)
    BY <1>2, <1>3, <1>4, <2>3, <2>4, <2>5, <2>6 DEF IsChain
  <2> QED BY <2>7 DEF r, new, head
<1> QED BY <1>8, <1>9

\* run(): the first is unlinked.
LEMMA ChainTail ==
  ASSUME NEW q, NEW first, NEW last, NEW link, IsChain(q, first, last, link), first # None
  PROVE  /\ q # << >> /\ first = Head(q) /\ first \in Events
         /\ IsChain(Tail(q), link[first], IF link[first] = None THEN None ELSE last,
                    [link EXCEPT ![first] = None])
<1> DEFINE N == Len(q)
           r == Tail(q)
           tail == IF link[first] = None THEN None ELSE last
           new == [link EXCEPT ![first] = None]
<1>1. /\ q \in Seq(Events) /\ N \in Nat /\ DOMAIN q = 1 .. N /\ Len(q) = N /\ NoRepeat(q)
      /\ q # << >>
  BY ChainEmpty DEF IsChain
<1>2. N > 0 /\ first = q[1] /\ first = Head(q) /\ first \in Events /\ last = q[N]
  <2>1. N > 0
    BY <1>1
  <2>2. first = q[1] /\ last = q[N]
    BY <1>1 DEF IsChain, Last
  <2> QED BY <1>1, <2>1, <2>2
<1>3. /\ r \in Seq(Events) /\ Len(r) = N - 1 /\ DOMAIN r = 1 .. N - 1
      /\ \A k \in 1 .. N - 1 : r[k] = q[k + 1]
      /\ r = << >> <=> N = 1
  <2>1. /\ r \in Seq(Events) /\ Len(r) = N - 1 /\ DOMAIN r = 1 .. N - 1
        /\ \A k \in 1 .. N - 1 : r[k] = q[k + 1]
    BY <1>1, <1>2
  <2> HIDE DEF N, r
  <2>2. Len(r) = 0 <=> r = << >>
    BY <2>1, NoLength, Zenon
  <2> QED BY <1>1, <1>2, <2>1, <2>2
<1>4. NoRepeat(r) /\ Elems(r) = Elems(q) \ {first}
  BY <1>1, <1>2, HeadTail
<1>5. /\ link \in [Events -> Events \cup {None}]
      /\ \A k \in 1 .. N : link[q[k]] = IF k = N THEN None ELSE q[k + 1]
      /\ \A x \in Events \ Elems(q) : link[x] = None
  BY <1>1 DEF IsChain
<1> HIDE DEF N, r
<1>6. link[first] = IF N = 1 THEN None ELSE q[2]
  <2>1. 1 \in 1 .. N
    BY <1>1, <1>2
  <2>2. link[q[1]] = IF 1 = N THEN None ELSE q[1 + 1]
    BY <1>5, <2>1
  <2> QED BY <1>2, <2>2
<1>7. new \in [Events -> Events \cup {None}] /\ \A x \in Events \ Elems(r) : new[x] = None
  BY <1>2, <1>4, <1>5
<1>8. ASSUME NEW k \in 1 .. N - 1
      PROVE  new[r[k]] = IF k = N - 1 THEN None ELSE r[k + 1]
  <2>1. /\ k + 1 \in 1 .. N /\ 1 \in 1 .. N /\ k + 1 # 1 /\ (k = N - 1 <=> k + 1 = N)
        /\ (k # N - 1 => k + 1 \in 1 .. N - 1)
    BY <1>1
  <2>2. r[k] = q[k + 1] /\ q[k + 1] # first /\ q[k + 1] \in Events
    <3>1. r[k] = q[k + 1]
      BY <1>3
    <3>2. q[k + 1] # q[1]
      BY <1>1, <2>1, Zenon DEF NoRepeat
    <3>3. q[k + 1] \in Events
      BY <1>1, <2>1
    <3> QED BY <1>2, <3>1, <3>2, <3>3
  <2>3. new[r[k]] = IF k = N - 1 THEN None ELSE q[(k + 1) + 1]
    BY <1>2, <1>5, <2>1, <2>2
  <2> QED BY <1>3, <2>1, <2>3
<1>9. r # << >> => Last(r) = q[N] /\ r[1] = q[2] /\ q[2] \in Events
  <2> SUFFICES ASSUME N # 1 PROVE Last(r) = q[N] /\ r[1] = q[2] /\ q[2] \in Events
    BY <1>3
  <2>1. /\ N - 1 \in 1 .. N - 1 /\ 1 \in 1 .. N - 1 /\ (N - 1) + 1 = N /\ 2 \in 1 .. N
        /\ 1 + 1 = 2
    BY <1>1, <1>2
  <2> QED BY <1>1, <1>3, <2>1 DEF Last
<1>10. /\ link[first] = (IF r = << >> THEN None ELSE r[1])
       /\ tail = (IF r = << >> THEN None ELSE Last(r))
  BY <1>2, <1>3, <1>6, <1>9, Names
<1> HIDE DEF new, tail
<1>11. IsChain(r, link[first], tail, new)
  BY <1>3, <1>4, <1>7, <1>8, <1>10 DEF IsChain
<1> QED BY <1>1, <1>2, <1>11 DEF r, new, tail

\* remove(): the k-th is unlinked; its predecessor, if it has one, is prev.
LEMMA ChainRemoved ==
  ASSUME NEW q, NEW first, NEW last, NEW link, IsChain(q, first, last, link),
         NEW k \in DOMAIN q, NEW x, x = q[k],
         NEW prev, prev = IF k = 1 THEN None ELSE q[k - 1]
  PROVE  IsChain(RemoveAt(q, k), IF first = x THEN link[x] ELSE first,
                 IF x = last THEN prev ELSE last,
                 [e \in Events |-> IF e = x THEN None
                                   ELSE IF e = prev THEN link[x] ELSE link[e]])
<1> DEFINE N == Len(q)
           r == RemoveAt(q, k)
           head == IF first = x THEN link[x] ELSE first
           tail == IF x = last THEN prev ELSE last
           new == [e \in Events |-> IF e = x THEN None
                                    ELSE IF e = prev THEN link[x] ELSE link[e]]
<1>1. q \in Seq(Events) /\ N \in Nat /\ DOMAIN q = 1 .. N /\ Len(q) = N /\ NoRepeat(q)
  BY DEF IsChain
<1>2. /\ link \in [Events -> Events \cup {None}]
      /\ \A j \in 1 .. N : link[q[j]] = IF j = N THEN None ELSE q[j + 1]
      /\ \A e \in Events \ Elems(q) : link[e] = None
  BY <1>1 DEF IsChain
<1>3. q # << >> /\ first = q[1] /\ last = q[N]
  BY <1>1 DEF IsChain, Last
<1>4. /\ r \in Seq(Events) /\ Len(r) = N - 1
      /\ \A j \in 1 .. N - 1 : r[j] = IF j < k THEN q[j] ELSE q[j + 1]
  BY <1>1, RemovedAt
<1>5. /\ Elems(q) = Elems(r) \cup {q[k]} /\ NoRepeat(r) /\ q[k] \notin Elems(r)
  BY <1>1, RemovedAtElems
<1> HIDE DEF N, r
<1>6. k \in Int /\ 1 <= k /\ k <= N /\ k \in 1 .. N /\ 1 \in 1 .. N /\ N \in 1 .. N
  BY <1>1
<1>7. \A i, j \in 1 .. N : q[i] = q[j] => i = j
  BY <1>1 DEF NoRepeat
<1>8. \A j \in 1 .. N : q[j] \in Events /\ q[j] # None /\ q[j] \in Elems(q)
  BY <1>1, Names DEF Elems
<1>9. DOMAIN r = 1 .. N - 1
  BY <1>4
<1>10. r = << >> <=> N = 1
  <2>1. Len(r) = 0 <=> r = << >>
    BY <1>4, NoLength, Zenon
  <2> QED BY <1>1, <1>4, <2>1
<1>11. /\ prev = None <=> k = 1
       /\ k # 1 => k - 1 \in 1 .. N /\ prev = q[k - 1]
  <2>1. k # 1 => k - 1 \in 1 .. N
    BY <1>6
  <2> QED BY <1>8, <2>1
<1>12. new \in [Events -> Events \cup {None}]
  BY <1>2, <1>6, <1>8
<1>13. ASSUME NEW e \in Events \ Elems(r) PROVE new[e] = None
  <2>1. CASE e = x
    BY <2>1
  <2>2. CASE e # x
    <3>1. e \notin Elems(q)
      BY <1>5, <2>2
    <3>2. e # prev
      BY <1>8, <1>11, <3>1, Names
    <3> QED BY <1>2, <2>2, <3>1, <3>2
  <2> QED BY <2>1, <2>2
<1>14. ASSUME NEW j \in 1 .. N - 1
       PROVE  new[r[j]] = IF j = N - 1 THEN None ELSE r[j + 1]
  <2>1. /\ j \in Int /\ j \in 1 .. N /\ j + 1 \in 1 .. N /\ j # N /\ (j + 1) + 1 = j + 2
        /\ (j # N - 1 => j + 1 \in 1 .. N - 1) /\ (j + 1 = N <=> j = N - 1)
    BY <1>1
  <2>2. CASE j < k - 1
    <3>1. j < k /\ j + 1 < k /\ j # k /\ j # N - 1 /\ k # 1 /\ j # k - 1
      BY <1>6, <2>1, <2>2
    <3>2. r[j] = q[j] /\ r[j + 1] = q[j + 1] /\ q[j] # x /\ q[j] # prev
      BY <1>4, <1>6, <1>7, <1>11, <2>1, <3>1
    <3>3. new[q[j]] = link[q[j]] /\ link[q[j]] = q[j + 1]
      BY <1>2, <1>8, <2>1, <3>2
    <3> QED BY <3>1, <3>2, <3>3
  <2>3. CASE j = k - 1
    <3>1. j < k /\ ~(j + 1 < k) /\ k # 1 /\ j + 1 = k /\ (j = N - 1 <=> k = N)
      BY <1>1, <1>6, <2>1, <2>3
    <3>2. r[j] = prev /\ prev # x /\ prev \in Events
      BY <1>4, <1>6, <1>7, <1>8, <1>11, <2>1, <2>3, <3>1
    <3>3. new[prev] = link[x] /\ link[x] = IF k = N THEN None ELSE q[k + 1]
      BY <1>2, <1>6, <3>2
    <3>4. j # N - 1 => r[j + 1] = q[k + 1]
      BY <1>4, <2>1, <3>1
    <3> QED BY <3>1, <3>2, <3>3, <3>4
  <2>4. CASE j >= k
    <3>1. ~(j < k) /\ ~(j + 1 < k) /\ j + 1 # k /\ k # j + 2
      BY <1>6, <2>1, <2>4
    <3>2. r[j] = q[j + 1] /\ (j # N - 1 => r[j + 1] = q[j + 2])
      BY <1>4, <2>1, <3>1
    <3>3. q[j + 1] # x
      BY <1>6, <1>7, <2>1, <3>1
    <3>4. q[j + 1] # prev
      <4>1. k # 1 => k - 1 \in 1 .. N /\ k - 1 # j + 1
        BY <1>6, <2>1, <2>4
      <4> QED BY <1>7, <1>8, <1>11, <2>1, <4>1
    <3>5. new[q[j + 1]] = link[q[j + 1]]
      BY <1>8, <2>1, <3>3, <3>4
    <3>6. link[q[j + 1]] = IF j + 1 = N THEN None ELSE q[j + 2]
      BY <1>2, <2>1
    <3> QED BY <2>1, <3>2, <3>5, <3>6
  <2>5. j < k - 1 \/ j = k - 1 \/ j >= k
    BY <1>6, <2>1
  <2> QED BY <2>2, <2>3, <2>4, <2>5
<1>15. head = (IF r = << >> THEN None ELSE r[1])
  <2>1. first = x <=> k = 1
    BY <1>3, <1>6, <1>7
  <2>2. CASE k = 1
    <3>1. head = (IF N = 1 THEN None ELSE q[2])
      <4>1. link[q[1]] = IF 1 = N THEN None ELSE q[1 + 1]
        BY <1>2, <1>6
      <4> QED BY <2>1, <2>2, <4>1
    <3>2. N # 1 => r[1] = q[2]
      <4>1. N # 1 => 1 \in 1 .. N - 1 /\ ~(1 < k) /\ 1 + 1 = 2
        BY <1>1, <1>6, <2>2
      <4> QED BY <1>4, <4>1
    <3> QED BY <1>10, <3>1, <3>2
  <2>3. CASE k # 1
    <3>1. 1 \in 1 .. N - 1 /\ 1 < k /\ N # 1
      BY <1>1, <1>6, <2>3
    <3> QED BY <1>3, <1>4, <1>10, <2>1, <2>3, <3>1
  <2> QED BY <2>2, <2>3
<1>16. tail = (IF r = << >> THEN None ELSE Last(r))
  <2>1. last = x <=> k = N
    BY <1>3, <1>6, <1>7
  <2>2. N # 1 => N - 1 \in 1 .. N - 1 /\ (N - 1) + 1 = N /\ (N - 1 < k <=> k = N)
    BY <1>1, <1>6
  <2>3. N # 1 => r[N - 1] = IF k = N THEN q[N - 1] ELSE q[N]
    BY <1>4, <2>2
  <2>4. Last(r) = r[N - 1]
    BY <1>4 DEF Last
  <2>5. CASE k = N
    BY <1>10, <1>11, <2>1, <2>3, <2>4, <2>5
  <2>6. CASE k # N
    <3>1. N # 1
      BY <1>6, <2>6
    <3> QED BY <1>3, <1>10, <2>1, <2>3, <2>4, <2>6, <3>1
  <2> QED BY <2>5, <2>6
<1> HIDE DEF new, head, tail
<1>17. IsChain(r, head, tail, new)
  BY <1>4, <1>5, <1>9, <1>12, <1>13, <1>14, <1>15, <1>16 DEF IsChain
<1> QED BY <1>17 DEF r, new, head, tail

-----------------------------------------------------------------------------
(* Events on their way: c is processed, l is the Java queue, h is held by  *)
(* the monitor thread, p is pending in the ring.                           *)

NotJava == Events \ JavaEvents

One(e) == IF e = None THEN << >> ELSE <<e>>

(* Those in xs, from the oldest to the youngest.                           *)
Flow(c, l, h, p, xs) ==
  ((Among(One(c), xs) \o Among(l, xs)) \o Among(One(h), xs)) \o Among(p, xs)

(* Each is in one place and once there, and has been sent.                 *)
Parts(c, l, h, p, known) ==
  /\ c \in Events \cup {None} /\ h \in Events \cup {None}
  /\ l \in Seq(Events) /\ NoRepeat(l) /\ p \in Seq(Events) /\ NoRepeat(p)
  /\ Elems(l) \cap Elems(p) = {}
  /\ c \notin Elems(l) \cup Elems(p) /\ h \notin Elems(l) \cup Elems(p)
  /\ c # None => c # h
  /\ (Elems(l) \cup Elems(p) \cup {c, h}) \ {None} \subseteq known

(* Of the events acc that the ring took in, those not in g are on their    *)
(* way, in order, when the isolate runs.                                   *)
Way(c, l, h, p, acc, g, on, known) ==
  /\ Parts(c, l, h, p, known)
  /\ acc \in Seq(Events) /\ g \subseteq known
  /\ on => Among(acc, Events \ g) = Flow(c, l, h, p, NotJava)

\* At most one event, as a list.
LEMMA OneIs ==
  ASSUME NEW e \in Events \cup {None}
  PROVE  One(e) \in Seq(Events) /\ Elems(One(e)) = {e} \ {None}
<1>1. CASE e = None
  BY <1>1, EmptyList DEF One
<1>2. CASE e # None
  BY <1>2, Single DEF One
<1> QED BY <1>1, <1>2

\* The events on their way, filtered as one list or part by part.
LEMMA FlowIs ==
  ASSUME NEW c \in Events \cup {None}, NEW h \in Events \cup {None},
         NEW l \in Seq(Events), NEW p \in Seq(Events), NEW xs
  PROVE  Among(((One(c) \o l) \o One(h)) \o p, xs) = Flow(c, l, h, p, xs)
<1>1. One(c) \in Seq(Events) /\ One(h) \in Seq(Events)
  BY OneIs
<1> DEFINE a == One(c) \o l
           b == a \o One(h)
<1>2. a \in Seq(Events)
  BY <1>1, Joined
<1>3. AmongSplits(One(c), l, xs)
  BY <1>1, AmongJoined, Zenon
<1> HIDE DEF a
<1>4. b \in Seq(Events)
  BY <1>1, <1>2, Joined
<1>5. AmongSplits(a, One(h), xs)
  BY <1>1, <1>2, AmongJoined, Zenon
<1> HIDE DEF b
<1>6. AmongSplits(b, p, xs)
  BY <1>4, AmongJoined, Zenon
<1> QED BY <1>3, <1>5, <1>6, Zenon DEF AmongSplits, Flow, a, b

\* Taking what is in ys out of what is on the way and in xs.
Refilters(c, l, h, p, xs, ys) ==
  Among(Flow(c, l, h, p, xs), ys) = Flow(c, l, h, p, xs \cap ys)

\* What counts of what counts.
LEMMA FlowTwice ==
  ASSUME NEW c \in Events \cup {None}, NEW h \in Events \cup {None},
         NEW l \in Seq(Events), NEW p \in Seq(Events), NEW xs, NEW ys
  PROVE  Refilters(c, l, h, p, xs, ys)
<1> DEFINE q == ((One(c) \o l) \o One(h)) \o p
<1>1. q \in Seq(Events)
  <2>1. One(c) \in Seq(Events) /\ One(h) \in Seq(Events)
    BY OneIs
  <2>2. One(c) \o l \in Seq(Events)
    BY <2>1, Joined
  <2>3. (One(c) \o l) \o One(h) \in Seq(Events)
    BY <2>1, <2>2, Joined
  <2> QED BY <2>3, Joined
<1>2. Among(q, xs) = Flow(c, l, h, p, xs) /\ Among(q, xs \cap ys) = Flow(c, l, h, p, xs \cap ys)
  BY FlowIs
<1> HIDE DEF q
<1>3. Among(Among(q, xs), ys) = Among(q, xs \cap ys)
  BY <1>1, AmongTwice
<1> QED BY <1>2, <1>3, Zenon DEF Refilters

Agrees(acc, g, c, l, h, p, xs) == Among(acc, Events \ g) = Flow(c, l, h, p, xs)

\* What is dealt with, when the rest stays on its way.
LEMMA FlowDrops ==
  ASSUME NEW c \in Events \cup {None}, NEW h \in Events \cup {None},
         NEW l \in Seq(Events), NEW p \in Seq(Events), NEW acc \in Seq(Events), NEW g, NEW D,
         Agrees(acc, g, c, l, h, p, NotJava)
  PROVE  Agrees(acc, g \cup D, c, l, h, p, NotJava \ D)
<1>1. Among(Among(acc, Events \ g), Events \ D) = Among(acc, (Events \ g) \cap (Events \ D))
  BY AmongTwice
<1>2. (Events \ g) \cap (Events \ D) = Events \ (g \cup D) /\ NotJava \cap (Events \ D) = NotJava \ D
  BY DEF NotJava
<1>3. Refilters(c, l, h, p, NotJava, Events \ D)
  BY FlowTwice, Zenon
<1> QED BY <1>1, <1>2, <1>3, Zenon DEF Agrees, Refilters

\* A list that has nothing of D, and one that has nothing else.
LEMMA DropsNone ==
  ASSUME NEW q \in Seq(Events), NEW D, Elems(q) \cap D = {}
  PROVE  Among(q, NotJava \ D) = Among(q, NotJava)
<1>1. \A e \in Elems(q) : e \in NotJava \ D <=> e \in NotJava
  OBVIOUS
<1> QED BY <1>1, AmongSame

\* Nothing is left of a list that is all dealt with.
LEMMA DropsAll ==
  ASSUME NEW q \in Seq(Events), NEW D, Elems(q) \subseteq D
  PROVE  Among(q, NotJava \ D) = << >>
<1>1. Elems(q) \cap (NotJava \ D) = {}
  OBVIOUS
<1> QED BY <1>1, AmongNone

\* A list without one of its elements.
LEMMA DropsAt ==
  ASSUME NEW q \in Seq(Events), NoRepeat(q), NEW k \in DOMAIN q
  PROVE  Among(q, NotJava \ {q[k]}) = Among(RemoveAt(q, k), NotJava)
<1> DEFINE x == q[k]
           X == NotJava \ {x}
<1>1. x \in Events /\ <<x>> \in Seq(Events) /\ Elems(<<x>>) = {x}
  <2>1. x \in Events
    OBVIOUS
  <2> QED BY <2>1, Single
<1>2. PICK a \in Seq(Events), b \in Seq(Events) : SplitsAt(q, k, a, b)
  BY RemovedParts, Zenon
<1>3. RemoveAt(q, k) \in Seq(Events) /\ x \notin Elems(RemoveAt(q, k))
  BY RemovedAt, RemovedAtElems
<1> DEFINE r == RemoveAt(q, k)
           y == <<x>>
<1>4. Elems(a) \cup Elems(b) = Elems(r)
  BY <1>2, Joined DEF SplitsAt
<1> HIDE DEF x, r, y
<1>5. y \o b \in Seq(Events)
  BY <1>1, Joined DEF y
<1>6. AmongSplits(a, y \o b, X) /\ AmongSplits(y, b, X) /\ AmongSplits(a, b, NotJava)
  BY <1>1, <1>5, AmongJoined, Zenon DEF y
<1>7. Among(a, X) = Among(a, NotJava) /\ Among(b, X) = Among(b, NotJava)
  BY <1>3, <1>4, DropsNone DEF r
<1>8. Among(y, X) = << >>
  BY <1>1, DropsAll DEF y
<1>9. << >> \o Among(b, NotJava) = Among(b, NotJava)
  BY AmongType, Joined
<1>10. Among(q, X) = Among(a, NotJava) \o Among(b, NotJava)
  <2>1. q = a \o (y \o b)
    BY <1>2 DEF x, y, SplitsAt
  <2> QED BY <1>6, <1>7, <1>8, <1>9, <2>1, Zenon DEF AmongSplits
<1>11. Among(r, NotJava) = Among(a, NotJava) \o Among(b, NotJava)
  <2>1. r = a \o b
    BY <1>2 DEF r, SplitsAt
  <2> QED BY <1>6, <2>1, Zenon DEF AmongSplits
<1> QED BY <1>10, <1>11 DEF r, x

\* Events sent since make no difference.
LEMMA WayKnown ==
  ASSUME NEW c, NEW l, NEW h, NEW p, NEW acc, NEW g, NEW on, NEW known, NEW known2,
         Way(c, l, h, p, acc, g, on, known), known \subseteq known2
  PROVE  Way(c, l, h, p, acc, g, on, known2)
<1>1. Parts(c, l, h, p, known2)
  BY DEF Way, Parts
<1> QED BY <1>1 DEF Way

\* The ring takes in an event.
LEMMA WayStored ==
  ASSUME NEW c, NEW l, NEW h, NEW p, NEW acc, NEW g, NEW on, NEW known, NEW known2,
         Way(c, l, h, p, acc, g, on, known),
         NEW e \in NotJava, e \notin known, known \cup {e} \subseteq known2
  PROVE  Way(c, l, h, Append(p, e), Append(acc, e), g, on, known2)
<1>1. Parts(c, l, h, p, known) /\ acc \in Seq(Events) /\ g \subseteq known
  BY DEF Way
<1>2. e \in Events /\ e # None /\ e \notin g
  BY <1>1, Names DEF NotJava
<1>3. Append(acc, e) \in Seq(Events)
  BY <1>1, <1>2, Appended
<1>4. Parts(c, l, h, Append(p, e), known2)
  <2>1. /\ Append(p, e) \in Seq(Events) /\ Elems(Append(p, e)) = Elems(p) \cup {e}
        /\ e \notin Elems(p) => NoRepeat(Append(p, e))
    BY <1>1, <1>2, Appended DEF Parts
  <2>2. e \notin Elems(p) /\ e \notin Elems(l) /\ e # c /\ e # h
    BY <1>1, <1>2 DEF Parts
  <2> QED BY <1>1, <2>1, <2>2 DEF Parts
<1>5. ASSUME on PROVE Among(Append(acc, e), Events \ g) = Flow(c, l, h, Append(p, e), NotJava)
  <2> DEFINE x == (Among(One(c), NotJava) \o Among(l, NotJava)) \o Among(One(h), NotJava)
             y == Among(p, NotJava)
  <2>1. Among(acc, Events \ g) = x \o y
    BY <1>5 DEF Way, Flow
  <2>2. Among(Append(acc, e), Events \ g) = Append(Among(acc, Events \ g), e)
    BY <1>1, <1>2, AmongAppend
  <2>3. Among(Append(p, e), NotJava) = Append(y, e)
    BY <1>1, <1>2, AmongAppend DEF Parts
  <2>4. x \in Seq(Events) /\ y \in Seq(Events)
    <3>1. One(c) \in Seq(Events) /\ One(h) \in Seq(Events) /\ l \in Seq(Events) /\ p \in Seq(Events)
      BY <1>1, OneIs DEF Parts
    <3>2. /\ Among(One(c), NotJava) \in Seq(Events) /\ Among(l, NotJava) \in Seq(Events)
          /\ Among(One(h), NotJava) \in Seq(Events) /\ y \in Seq(Events)
      BY <3>1, AmongType
    <3>3. Among(One(c), NotJava) \o Among(l, NotJava) \in Seq(Events)
      BY <3>2, Joined
    <3> QED BY <3>2, <3>3, Joined
  <2>5. Flow(c, l, h, Append(p, e), NotJava) = x \o Append(y, e)
    BY <2>3 DEF Flow
  <2> HIDE DEF x, y
  <2>6. JoinsBehind(x, y, e)
    BY <1>2, <2>4, AppendJoined, Zenon
  <2> QED BY <2>1, <2>2, <2>5, <2>6, Zenon DEF JoinsBehind
<1> QED BY <1>1, <1>3, <1>4, <1>5 DEF Way

\* The monitor thread takes the oldest one from the ring.
LEMMA WayRead ==
  ASSUME NEW c, NEW l, NEW p, NEW acc, NEW g, NEW on, NEW known, NEW h, NEW r,
         Way(c, l, None, p, acc, g, on, known), p = <<h>> \o r, r \in Seq(Events), h \in Events
  PROVE  Way(c, l, h, r, acc, g, on, known)
<1>1. Parts(c, l, None, p, known) /\ acc \in Seq(Events) /\ g \subseteq known
  BY DEF Way
<1>2. h # None /\ One(h) = <<h>> /\ One(None) = << >>
  BY Names DEF One
<1>3. /\ p # << >> /\ Head(p) = h /\ Tail(p) = r
  OBVIOUS
<1>4. /\ p \in Seq(Events) /\ NoRepeat(p)
      /\ h \in Elems(p) /\ NoRepeat(r) /\ Elems(r) = Elems(p) \ {h}
  <2>1. p \in Seq(Events) /\ NoRepeat(p)
    BY <1>1 DEF Parts
  <2>2. Head(p) \in Elems(p) /\ NoRepeat(Tail(p)) /\ Elems(Tail(p)) = Elems(p) \ {Head(p)}
    BY <1>3, <2>1, HeadTail
  <2> QED BY <1>3, <2>1, <2>2
<1>5. Parts(c, l, h, r, known)
  BY <1>1, <1>2, <1>4 DEF Parts
<1>6. Flow(c, l, None, p, NotJava) = Flow(c, l, h, r, NotJava)
  <2> DEFINE x == Among(One(c), NotJava) \o Among(l, NotJava)
             y == Among(<<h>>, NotJava)
             z == Among(r, NotJava)
  <2>1. x \in Seq(Events) /\ y \in Seq(Events) /\ z \in Seq(Events)
    <3>1. One(c) \in Seq(Events) /\ l \in Seq(Events) /\ <<h>> \in Seq(Events)
      BY <1>1, OneIs, Single DEF Parts
    <3>2. /\ Among(One(c), NotJava) \in Seq(Events) /\ Among(l, NotJava) \in Seq(Events)
          /\ y \in Seq(Events) /\ z \in Seq(Events)
      BY <3>1, AmongType
    <3> QED BY <3>2, Joined
  <2>2. Among(p, NotJava) = y \o z
    <3>1. <<h>> \in Seq(Events)
      BY Single
    <3>2. AmongSplits(<<h>>, r, NotJava)
      BY <3>1, AmongJoined, Zenon
    <3> QED BY <3>2, Zenon DEF AmongSplits
  <2>3. Among(One(None), NotJava) = << >>
    BY <1>2, AmongEmpty
  <2>4. Flow(c, l, None, p, NotJava) = (x \o << >>) \o (y \o z)
    BY <2>2, <2>3 DEF Flow
  <2>5. Flow(c, l, h, r, NotJava) = (x \o y) \o z
    BY <1>2 DEF Flow
  <2> HIDE DEF x, y, z
  <2>6. x \o << >> = x
    BY <2>1, Joined
  <2>7. Regroups(x, y, z)
    BY <2>1, Regrouped, Zenon
  <2> QED BY <2>4, <2>5, <2>6, <2>7, Zenon DEF Regroups
<1> QED BY <1>1, <1>5, <1>6 DEF Way

\* It posts it.
LEMMA WayPosted ==
  ASSUME NEW c, NEW l, NEW h, NEW p, NEW acc, NEW g, NEW on, NEW known,
         Way(c, l, h, p, acc, g, on, known), h # None
  PROVE  Way(c, Append(l, h), None, p, acc, g, on, known)
<1>1. Parts(c, l, h, p, known) /\ acc \in Seq(Events) /\ g \subseteq known
  BY DEF Way
<1>2. h \in Events /\ One(h) = <<h>> /\ One(None) = << >> /\ l \in Seq(Events) /\ p \in Seq(Events)
  BY <1>1 DEF One, Parts
<1>3. /\ Append(l, h) \in Seq(Events) /\ NoRepeat(Append(l, h))
      /\ Elems(Append(l, h)) = Elems(l) \cup {h}
  BY <1>1, <1>2, Appended DEF Parts
<1>4. None \notin Elems(l) \cup Elems(p) \cup {h}
  <2>1. Elems(l) \subseteq Events /\ Elems(p) \subseteq Events
    BY <1>2, ElemsType
  <2> QED BY <1>2, <2>1, Names
<1>5. Parts(c, Append(l, h), None, p, known)
  BY <1>1, <1>3, <1>4 DEF Parts
<1>6. Flow(c, l, h, p, NotJava) = Flow(c, Append(l, h), None, p, NotJava)
  <2> DEFINE x == Among(One(c), NotJava)
             y == Among(l, NotJava)
             z == Among(<<h>>, NotJava)
             u == Among(p, NotJava)
  <2>0. <<h>> \in Seq(Events) /\ One(c) \in Seq(Events)
    BY <1>1, <1>2, OneIs, Single DEF Parts
  <2>1. x \in Seq(Events) /\ y \in Seq(Events) /\ z \in Seq(Events)
    BY <1>2, <2>0, AmongType
  <2>2. Among(Append(l, h), NotJava) = y \o z
    <3>1. Append(l, h) = l \o <<h>>
      BY <1>2, AppendIs
    <3>2. AmongSplits(l, <<h>>, NotJava)
      BY <1>2, <2>0, AmongJoined, Zenon
    <3> QED BY <3>1, <3>2, Zenon DEF AmongSplits
  <2>3. Among(One(None), NotJava) = << >>
    BY <1>2, AmongEmpty
  <2>4. Flow(c, l, h, p, NotJava) = ((x \o y) \o z) \o u
    BY <1>2 DEF Flow
  <2>5. Flow(c, Append(l, h), None, p, NotJava) = ((x \o (y \o z)) \o << >>) \o u
    BY <2>2, <2>3 DEF Flow
  <2> HIDE DEF x, y, z, u
  <2>6. y \o z \in Seq(Events)
    BY <2>1, Joined
  <2>7. x \o (y \o z) \in Seq(Events)
    BY <2>1, <2>6, Joined
  <2>8. (x \o (y \o z)) \o << >> = x \o (y \o z)
    BY <2>7, Joined
  <2>9. Regroups(x, y, z)
    BY <2>1, Regrouped, Zenon
  <2> QED BY <2>4, <2>5, <2>8, <2>9, Zenon DEF Regroups
<1> QED BY <1>1, <1>5, <1>6 DEF Way

\* Events of D are dealt with, and the rest stays on its way.
LEMMA WayDrops ==
  ASSUME NEW c, NEW l, NEW h, NEW p, NEW acc, NEW g, NEW on, NEW known,
         Way(c, l, h, p, acc, g, on, known),
         NEW c2, NEW l2, NEW h2, NEW p2, NEW known2, Parts(c2, l2, h2, p2, known2),
         NEW D, known \cup D \subseteq known2,
         Flow(c, l, h, p, NotJava \ D) = Flow(c2, l2, h2, p2, NotJava)
  PROVE  Way(c2, l2, h2, p2, acc, g \cup D, on, known2)
<1>1. acc \in Seq(Events) /\ g \subseteq known
  BY DEF Way
<1>2. /\ c \in Events \cup {None} /\ h \in Events \cup {None}
      /\ l \in Seq(Events) /\ p \in Seq(Events)
  BY DEF Way, Parts
<1>3. ASSUME on PROVE Among(acc, Events \ (g \cup D)) = Flow(c2, l2, h2, p2, NotJava)
  <2>1. Agrees(acc, g, c, l, h, p, NotJava)
    BY <1>3 DEF Way, Agrees
  <2>2. Agrees(acc, g \cup D, c, l, h, p, NotJava \ D)
    BY <1>1, <1>2, <2>1, FlowDrops, Zenon
  <2> QED BY <2>2, Zenon DEF Agrees
<1> QED BY <1>1, <1>3 DEF Way

\* A thread ends or refuses the event it holds.
LEMMA WayDropsHeld ==
  ASSUME NEW c, NEW l, NEW h, NEW p, NEW acc, NEW g, NEW on, NEW known,
         Way(c, l, h, p, acc, g, on, known)
  PROVE  Way(c, l, None, p, acc, g \cup ({h} \ {None}), on, known)
<1> DEFINE D == {h} \ {None}
<1>1. Parts(c, l, h, p, known) /\ acc \in Seq(Events) /\ g \subseteq known
  BY DEF Way
<1>2. /\ c \in Events \cup {None} /\ h \in Events \cup {None} /\ l \in Seq(Events) /\ p \in Seq(Events)
      /\ One(c) \in Seq(Events) /\ Elems(One(c)) = {c} \ {None}
      /\ One(h) \in Seq(Events) /\ Elems(One(h)) = D
  BY <1>1, OneIs DEF Parts
<1>3. None \notin Elems(l) \cup Elems(p)
  <2>1. Elems(l) \subseteq Events /\ Elems(p) \subseteq Events
    BY <1>2, ElemsType
  <2> QED BY <2>1, Names
<1>4. Parts(c, l, None, p, known)
  BY <1>1, <1>3 DEF Parts
<1>5. Elems(l) \cap D = {} /\ Elems(p) \cap D = {} /\ Elems(One(c)) \cap D = {}
  BY <1>1, <1>2 DEF Parts
<1>6. Flow(c, l, h, p, NotJava \ D) = Flow(c, l, None, p, NotJava)
  <2>1. /\ Among(l, NotJava \ D) = Among(l, NotJava) /\ Among(p, NotJava \ D) = Among(p, NotJava)
        /\ Among(One(c), NotJava \ D) = Among(One(c), NotJava)
    BY <1>2, <1>5, DropsNone
  <2>2. Among(One(h), NotJava \ D) = << >>
    BY <1>2, DropsAll
  <2>3. Among(One(None), NotJava) = << >>
    BY AmongEmpty DEF One
  <2> QED BY <2>1, <2>2, <2>3, Zenon DEF Flow
<1>7. known \cup D \subseteq known
  BY <1>1 DEF Parts
<1> QED BY <1>4, <1>6, <1>7, WayDrops, Zenon

\* A Java event is queued.
LEMMA WayJava ==
  ASSUME NEW c, NEW l, NEW h, NEW p, NEW acc, NEW g, NEW on, NEW known, NEW known2,
         Way(c, l, h, p, acc, g, on, known),
         NEW e \in JavaEvents, e \notin known, known \cup {e} \subseteq known2
  PROVE  Way(c, Append(l, e), h, p, acc, g, on, known2)
<1>1. Parts(c, l, h, p, known) /\ acc \in Seq(Events) /\ g \subseteq known /\ l \in Seq(Events)
  BY DEF Way, Parts
<1>2. e \in Events /\ e # None /\ e \notin NotJava
  BY Names DEF NotJava, Events
<1>3. Parts(c, Append(l, e), h, p, known2)
  <2>1. /\ Append(l, e) \in Seq(Events) /\ Elems(Append(l, e)) = Elems(l) \cup {e}
        /\ NoRepeat(l) /\ e \notin Elems(l) => NoRepeat(Append(l, e))
    BY <1>1, <1>2, Appended
  <2>2. e \notin Elems(p) /\ e \notin Elems(l) /\ e # c /\ e # h
    BY <1>2, <1>1 DEF Parts
  <2> QED BY <1>1, <2>1, <2>2 DEF Parts
<1>4. Among(Append(l, e), NotJava) = Among(l, NotJava)
  BY <1>1, <1>2, AmongAppend
<1>5. Flow(c, Append(l, e), h, p, NotJava) = Flow(c, l, h, p, NotJava)
  BY <1>4, Zenon DEF Flow
<1> QED BY <1>1, <1>3, <1>5 DEF Way

\* An event that is not on its way is refused.
LEMMA WayRefused ==
  ASSUME NEW c, NEW l, NEW h, NEW p, NEW acc, NEW g, NEW on, NEW known, NEW known2,
         Way(c, l, h, p, acc, g, on, known),
         NEW e \in Events, e \notin known, known \cup {e} \subseteq known2
  PROVE  Way(c, l, h, p, acc, g \cup {e}, on, known2)
<1> DEFINE D == {e}
<1>1. Parts(c, l, h, p, known) /\ acc \in Seq(Events) /\ g \subseteq known
  BY DEF Way
<1>2. /\ c \in Events \cup {None} /\ h \in Events \cup {None} /\ l \in Seq(Events) /\ p \in Seq(Events)
      /\ One(c) \in Seq(Events) /\ Elems(One(c)) = {c} \ {None}
      /\ One(h) \in Seq(Events) /\ Elems(One(h)) = {h} \ {None} /\ e # None
  BY <1>1, OneIs, Names DEF Parts
<1>3. Parts(c, l, h, p, known2)
  BY <1>1 DEF Parts
<1>5. /\ Elems(l) \cap D = {} /\ Elems(p) \cap D = {} /\ Elems(One(c)) \cap D = {}
      /\ Elems(One(h)) \cap D = {}
  BY <1>1, <1>2 DEF Parts
<1>6. Flow(c, l, h, p, NotJava \ D) = Flow(c, l, h, p, NotJava)
  <2>1. /\ Among(l, NotJava \ D) = Among(l, NotJava) /\ Among(p, NotJava \ D) = Among(p, NotJava)
        /\ Among(One(c), NotJava \ D) = Among(One(c), NotJava)
        /\ Among(One(h), NotJava \ D) = Among(One(h), NotJava)
    BY <1>2, <1>5, DropsNone
  <2> QED BY <2>1, Zenon DEF Flow
<1> QED BY <1>3, <1>6, WayDrops, Zenon

\* The dispatch thread takes the oldest event from the Java queue,
LEMMA WayDispatched ==
  ASSUME NEW l, NEW h, NEW p, NEW acc, NEW g, NEW on, NEW known,
         Way(None, l, h, p, acc, g, on, known), l # << >>
  PROVE  Way(Head(l), Tail(l), h, p, acc, g, on, known)
<1> DEFINE e == Head(l)
           r == Tail(l)
<1>1. Parts(None, l, h, p, known) /\ acc \in Seq(Events) /\ g \subseteq known /\ l \in Seq(Events)
  BY DEF Way, Parts
<1>2. /\ e \in Events /\ e \in Elems(l) /\ r \in Seq(Events)
      /\ NoRepeat(r) /\ Elems(r) = Elems(l) \ {e}
  BY <1>1, HeadTail DEF Parts
<1>3. l = <<e>> \o r
  BY <1>1, FirstAndRest
<1> HIDE DEF e, r
<1>4. e # None /\ One(e) = <<e>> /\ One(None) = << >> /\ <<e>> \in Seq(Events)
  BY <1>2, Names, Single DEF One
<1>5. Parts(e, r, h, p, known)
  BY <1>1, <1>2, <1>4 DEF Parts
<1>6. Flow(e, r, h, p, NotJava) = Flow(None, l, h, p, NotJava)
  <2> DEFINE y == Among(<<e>>, NotJava) \o Among(r, NotJava)
  <2>1. AmongSplits(<<e>>, r, NotJava)
    BY <1>2, <1>4, AmongJoined, Zenon
  <2>2. Among(l, NotJava) = y
    BY <1>3, <2>1, Zenon DEF AmongSplits
  <2>3. y \in Seq(Events)
    BY <1>1, <2>2, AmongType
  <2>4. Flow(e, r, h, p, NotJava) = (y \o Among(One(h), NotJava)) \o Among(p, NotJava)
    BY <1>4 DEF Flow
  <2>5. Flow(None, l, h, p, NotJava) = ((<< >> \o y) \o Among(One(h), NotJava)) \o Among(p, NotJava)
    BY <1>4, <2>2, AmongEmpty DEF Flow
  <2> HIDE DEF y
  <2>6. << >> \o y = y
    BY <2>3, Joined
  <2> QED BY <2>4, <2>5, <2>6, Zenon
<1>7. Way(e, r, h, p, acc, g, on, known)
  BY <1>1, <1>5, <1>6 DEF Way
<1> QED BY <1>7 DEF e, r

\* and processes it.
LEMMA WayProcessed ==
  ASSUME NEW c, NEW l, NEW h, NEW p, NEW acc, NEW g, NEW on, NEW known,
         Way(c, l, h, p, acc, g, on, known), c # None
  PROVE  Way(None, l, h, p, acc, g \cup {c}, on, known)
<1> DEFINE D == {c}
<1>1. Parts(c, l, h, p, known) /\ acc \in Seq(Events) /\ g \subseteq known
  BY DEF Way
<1>2. /\ c \in Events \cup {None} /\ h \in Events \cup {None} /\ l \in Seq(Events) /\ p \in Seq(Events)
      /\ One(c) \in Seq(Events) /\ Elems(One(c)) = D
      /\ One(h) \in Seq(Events) /\ Elems(One(h)) = {h} \ {None}
  BY <1>1, OneIs DEF Parts
<1>3. None \notin Elems(l) \cup Elems(p)
  <2>1. Elems(l) \subseteq Events /\ Elems(p) \subseteq Events
    BY <1>2, ElemsType
  <2> QED BY <2>1, Names
<1>4. Parts(None, l, h, p, known)
  BY <1>1, <1>3 DEF Parts
<1>5. Elems(l) \cap D = {} /\ Elems(p) \cap D = {} /\ Elems(One(h)) \cap D = {}
  BY <1>1, <1>2 DEF Parts
<1>6. Flow(c, l, h, p, NotJava \ D) = Flow(None, l, h, p, NotJava)
  <2>1. /\ Among(l, NotJava \ D) = Among(l, NotJava) /\ Among(p, NotJava \ D) = Among(p, NotJava)
        /\ Among(One(h), NotJava \ D) = Among(One(h), NotJava)
    BY <1>2, <1>5, DropsNone
  <2>2. Among(One(c), NotJava \ D) = << >>
    BY <1>2, DropsAll
  <2>3. Among(One(None), NotJava) = << >>
    BY AmongEmpty DEF One
  <2> QED BY <2>1, <2>2, <2>3, Zenon DEF Flow
<1>7. known \cup D \subseteq known
  BY <1>1 DEF Parts
<1> QED BY <1>4, <1>6, <1>7, WayDrops, Zenon

\* The event that ends the dispatch thread is not processed.
LEMMA WayEnded ==
  ASSUME NEW l, NEW h, NEW p, NEW acc, NEW g, NEW on, NEW known,
         Way(None, l, h, p, acc, g, on, known), l # << >>
  PROVE  Way(None, Tail(l), h, p, acc, g \cup {Head(l)}, on, known)
<1>1. Head(l) \in Events /\ Head(l) # None
  BY HeadTail, Names DEF Way, Parts
<1>2. Way(Head(l), Tail(l), h, p, acc, g, on, known)
  BY WayDispatched
<1> QED BY <1>1, <1>2, WayProcessed

\* One of the Java queue is removed.
LEMMA WayRemoved ==
  ASSUME NEW c, NEW l, NEW h, NEW p, NEW acc, NEW g, NEW on, NEW known,
         Way(c, l, h, p, acc, g, on, known), NEW k \in DOMAIN l
  PROVE  Way(c, RemoveAt(l, k), h, p, acc, g \cup {l[k]}, on, known)
<1> DEFINE e == l[k]
           r == RemoveAt(l, k)
           D == {e}
<1>1. Parts(c, l, h, p, known) /\ l \in Seq(Events) /\ NoRepeat(l)
  BY DEF Way, Parts
<1>2. /\ r \in Seq(Events) /\ Elems(l) = Elems(r) \cup {e}
      /\ NoRepeat(r) /\ e \notin Elems(r)
  BY <1>1, RemovedAt, RemovedAtElems
<1>3. Among(l, NotJava \ D) = Among(r, NotJava)
  BY <1>1, DropsAt
<1> HIDE DEF e, r
<1>4. /\ One(c) \in Seq(Events) /\ Elems(One(c)) = {c} \ {None}
      /\ One(h) \in Seq(Events) /\ Elems(One(h)) = {h} \ {None} /\ p \in Seq(Events)
  BY <1>1, OneIs DEF Parts
<1>5. e \in Elems(l) /\ e \in Events /\ e # None
  BY <1>1, <1>2, ElemsType, Names
<1>6. Parts(c, r, h, p, known) /\ known \cup D \subseteq known
  BY <1>1, <1>2, <1>5 DEF Parts
<1>7. Elems(One(c)) \cap D = {} /\ Elems(One(h)) \cap D = {} /\ Elems(p) \cap D = {}
  BY <1>1, <1>4, <1>5 DEF Parts
<1>8. Flow(c, l, h, p, NotJava \ D) = Flow(c, r, h, p, NotJava)
  <2>1. /\ Among(One(c), NotJava \ D) = Among(One(c), NotJava)
        /\ Among(One(h), NotJava \ D) = Among(One(h), NotJava)
        /\ Among(p, NotJava \ D) = Among(p, NotJava)
    BY <1>4, <1>7, DropsNone
  <2> QED BY <1>3, <2>1, Zenon DEF Flow
<1>9. Way(c, r, h, p, acc, g \cup D, on, known)
  BY <1>6, <1>8, WayDrops, Zenon
<1> QED BY <1>9 DEF e, r

\* The ring is reset.
LEMMA WayReset ==
  ASSUME NEW c, NEW l, NEW h, NEW p, NEW acc, NEW g, NEW on, NEW known,
         Way(c, l, h, p, acc, g, on, known)
  PROVE  Way(c, l, h, << >>, acc, g \cup Elems(p), on, known)
<1> DEFINE D == Elems(p)
<1>1. Parts(c, l, h, p, known) /\ l \in Seq(Events) /\ p \in Seq(Events)
  BY DEF Way, Parts
<1>2. /\ One(c) \in Seq(Events) /\ Elems(One(c)) = {c} \ {None}
      /\ One(h) \in Seq(Events) /\ Elems(One(h)) = {h} \ {None}
  BY <1>1, OneIs DEF Parts
<1>3. None \notin Elems(p)
  BY <1>1, ElemsType, Names
<1>4. Parts(c, l, h, << >>, known)
  <2>1. << >> \in Seq(Events) /\ Elems(<< >>) = {} /\ NoRepeat(<< >>)
    BY EmptyList
  <2> QED BY <1>1, <2>1 DEF Parts
<1>5. known \cup D \subseteq known
  BY <1>1, <1>3 DEF Parts
<1>6. Elems(One(c)) \cap D = {} /\ Elems(One(h)) \cap D = {} /\ Elems(l) \cap D = {}
  BY <1>1, <1>2, <1>3 DEF Parts
<1>7. Flow(c, l, h, p, NotJava \ D) = Flow(c, l, h, << >>, NotJava)
  <2>1. /\ Among(One(c), NotJava \ D) = Among(One(c), NotJava)
        /\ Among(One(h), NotJava \ D) = Among(One(h), NotJava)
        /\ Among(l, NotJava \ D) = Among(l, NotJava)
    BY <1>1, <1>2, <1>6, DropsNone
  <2>2. Among(p, NotJava \ D) = << >> /\ Among(<< >>, NotJava) = << >>
    BY <1>1, DropsAll, AmongEmpty
  <2> QED BY <2>1, <2>2, Zenon DEF Flow
<1> QED BY <1>4, <1>5, <1>7, WayDrops, Zenon

\* An isolate stops: what its threads hold and its Java queue are gone.
LEMMA WayStopped ==
  ASSUME NEW c, NEW l, NEW h, NEW p, NEW acc, NEW g, NEW on, NEW known,
         Way(c, l, h, p, acc, g, on, known)
  PROVE  Way(None, << >>, None, p, acc, g, FALSE, known)
<1>1. << >> \in Seq(Events) /\ Elems(<< >>) = {} /\ NoRepeat(<< >>)
  BY EmptyList
<1>2. None \notin Elems(p)
  BY ElemsType, Names DEF Way, Parts
<1>3. Parts(None, << >>, None, p, known)
  BY <1>1, <1>2 DEF Way, Parts
<1> QED BY <1>3 DEF Way

\* It is finalized,
LEMMA WayFinalized ==
  ASSUME NEW c, NEW l, NEW h, NEW p, NEW acc, NEW g, NEW on, NEW known,
         Way(c, l, h, p, acc, g, on, known)
  PROVE  Way(c, l, h, << >>, acc, g, FALSE, known)
<1>1. << >> \in Seq(Events) /\ Elems(<< >>) = {} /\ NoRepeat(<< >>)
  BY EmptyList
<1>2. Parts(c, l, h, << >>, known)
  BY <1>1 DEF Way, Parts
<1> QED BY <1>2 DEF Way

\* and another one starts with this ID.
LEMMA WayStarted ==
  ASSUME NEW known, NEW on
  PROVE  Way(None, << >>, None, << >>, << >>, {}, on, known)
<1>1. << >> \in Seq(Events) /\ Elems(<< >>) = {} /\ NoRepeat(<< >>)
  BY EmptyList
<1>2. Parts(None, << >>, None, << >>, known)
  BY <1>1 DEF Parts
<1>3. Among(<< >>, Events \ {}) = Flow(None, << >>, None, << >>, NotJava)
  <2>1. Among(<< >>, Events \ {}) = << >> /\ Among(<< >>, NotJava) = << >> /\ One(None) = << >>
    BY AmongEmpty DEF One
  <2>2. << >> \o << >> = << >>
    BY <1>1, Joined
  <2> QED BY <2>1, <2>2, Zenon DEF Flow
<1> QED BY <1>1, <1>2, <1>3 DEF Way

-----------------------------------------------------------------------------
(* The pending events of a ring.                                           *)

(* The ring r holds n events from position o on; they are the list q.      *)
HoldsFrom(r, o, n) ==
  /\ r \in [Positions -> Events \cup {None}] /\ o \in Positions /\ n \in 0 .. MAX_EVENTS
  /\ \A p \in Positions : r[p] # None <=> Inside(o, n, p)

IsRead(q, r, o, n) ==
  /\ q \in Seq(Events) /\ Len(q) = n
  /\ \A k \in 1 .. n : Behind(o, k - 1) \in Positions /\ q[k] = r[Behind(o, k - 1)]

\* What is read from such a ring.
LEMMA RingRead ==
  ASSUME NEW r, NEW o, NEW n, HoldsFrom(r, o, n)
  PROVE  IsRead([k \in 1 .. n |-> r[(o + k - 1) % MAX_EVENTS]], r, o, n)
<1> DEFINE q == [k \in 1 .. n |-> r[(o + k - 1) % MAX_EVENTS]]
<1> USE DEF HoldsFrom
<1>1. ASSUME NEW k \in 1 .. n
      PROVE  /\ (o + k - 1) % MAX_EVENTS = Behind(o, k - 1)
             /\ Behind(o, k - 1) \in Positions /\ Inside(o, n, Behind(o, k - 1))
  <2>1. k - 1 \in 0 .. MAX_EVENTS /\ k - 1 < n /\ k - 1 < MAX_EVENTS /\ o + k - 1 = o + (k - 1)
    BY Sizes DEF Positions
  <2>2. (o + (k - 1)) % MAX_EVENTS = Behind(o, k - 1)
    BY <2>1, ModSum
  <2>3. Behind(o, k - 1) \in Positions /\ Inside(o, n, Behind(o, k - 1))
    BY <2>1, Sizes DEF Behind, Positions, Inside
  <2> QED BY <2>1, <2>2, <2>3
<1>2. \A k \in 1 .. n : r[(o + k - 1) % MAX_EVENTS] \in Events
  BY <1>1
<1>3. q \in [1 .. n -> Events]
  BY <1>2
<1>4. n \in Nat
  BY Sizes
<1>5. q \in Seq(Events) /\ Len(q) = n
  BY <1>3, <1>4, MadeList
<1>6. \A k \in 1 .. n : q[k] = r[Behind(o, k - 1)]
  BY <1>1
<1> QED BY <1>1, <1>5, <1>6 DEF IsRead

PendingIs(i) == IsRead(Pending(i), ring[i], eventOut[i], numEvents[i])

\* So they are, before a step
LEMMA PendingAt ==
  ASSUME RingInv, NEW i \in Isolates
  PROVE  PendingIs(i)
<1>1. HoldsFrom(ring[i], eventOut[i], numEvents[i])
  BY DEF RingInv, RingTypes, RingLinear, InWindow, HoldsFrom
<1>2. Pending(i) = [k \in 1 .. numEvents[i] |-> ring[i][(eventOut[i] + k - 1) % MAX_EVENTS]]
  BY DEF Pending
<1>3. IsRead([k \in 1 .. numEvents[i] |-> ring[i][(eventOut[i] + k - 1) % MAX_EVENTS]],
             ring[i], eventOut[i], numEvents[i])
  BY <1>1, RingRead, Zenon
<1> QED BY <1>2, <1>3, Zenon DEF PendingIs

\* and behind it.
LEMMA PendingAtNext ==
  ASSUME RingInv', NEW i \in Isolates
  PROVE  PendingIs(i)'
<1>1. HoldsFrom(ring'[i], eventOut'[i], numEvents'[i])
  BY DEF RingInv, RingTypes, RingLinear, InWindow, HoldsFrom
<1>2. Pending(i)' = [k \in 1 .. numEvents'[i] |-> ring'[i][(eventOut'[i] + k - 1) % MAX_EVENTS]]
  BY DEF Pending
<1>3. IsRead([k \in 1 .. numEvents'[i] |-> ring'[i][(eventOut'[i] + k - 1) % MAX_EVENTS]],
             ring'[i], eventOut'[i], numEvents'[i])
  BY <1>1, RingRead, Zenon
<1> QED BY <1>2, <1>3, Zenon DEF PendingIs

\* Nothing happens to the ring of i.
LEMMA PendingSame ==
  ASSUME NEW i \in Isolates, ring'[i] = ring[i], eventOut'[i] = eventOut[i],
         numEvents'[i] = numEvents[i]
  PROVE  Pending(i)' = Pending(i)
BY DEF Pending

\* An event is stored.
LEMMA PendingStored ==
  ASSUME RingInv, NEW S, NEW e \in Events, NEW mon, StoreIn(S, e, mon),
         NEW i \in Isolates, i \in S, ~ Full(i)
  PROVE  Pending(i)' = Append(Pending(i), e)
<1> DEFINE o == eventOut[i]
           n == numEvents[i]
           x == Append(Pending(i), e)
           y == Pending(i)'
<1>1. /\ o \in Positions /\ n \in 0 .. MAX_EVENTS /\ eventIn[i] = Behind(o, n)
      /\ ring[i] \in [Positions -> Events \cup {None}] /\ n \in Nat
  BY Sizes DEF RingInv, RingTypes, RingLinear, End
<1>2. /\ ring'[i] = [ring[i] EXCEPT ![eventIn[i]] = e]
      /\ numEvents'[i] = n + 1 /\ eventOut'[i] = o
  BY DEF StoreIn
<1>3. n < MAX_EVENTS
  BY <1>1, Sizes DEF Full
<1>4. /\ Pending(i) \in Seq(Events) /\ Len(Pending(i)) = n
      /\ \A k \in 1 .. n : /\ Behind(o, k - 1) \in Positions
                           /\ Pending(i)[k] = ring[i][Behind(o, k - 1)]
  BY PendingAt DEF PendingIs, IsRead
<1>5. RingInv'
  BY StoreKeepsRing
<1>6. /\ y \in Seq(Events) /\ Len(y) = n + 1
      /\ \A k \in 1 .. n + 1 : y[k] = ring'[i][Behind(o, k - 1)]
  <2>1. /\ y \in Seq(Events) /\ Len(y) = numEvents'[i]
        /\ \A k \in 1 .. numEvents'[i] : y[k] = ring'[i][Behind(eventOut'[i], k - 1)]
    BY <1>5, PendingAtNext DEF PendingIs, IsRead
  <2> QED BY <1>2, <2>1
<1>7. /\ x \in Seq(Events) /\ Len(x) = n + 1 /\ x[n + 1] = e
      /\ \A k \in 1 .. n : x[k] = Pending(i)[k]
  BY <1>4
<1> HIDE DEF x, y
<1>8. ASSUME NEW k \in 1 .. n + 1 PROVE x[k] = y[k]
  <2>1. CASE k = n + 1
    <3>1. k - 1 = n /\ eventIn[i] \in Positions
      BY <1>1, <2>1, WindowEmpty
    <3> QED BY <1>1, <1>2, <1>6, <1>7, <2>1, <3>1
  <2>2. CASE k # n + 1
    <3>1. k \in 1 .. n
      BY <1>1, <2>2
    <3>2. Behind(o, k - 1) # Behind(o, n) /\ Behind(o, n) \in Positions
      <4> HIDE DEF o, n
      <4>1. MAX_EVENTS \in Nat /\ o \in 0 .. MAX_EVENTS - 1 /\ n \in Nat /\ n < MAX_EVENTS
            /\ k - 1 \in 0 .. n - 1
        BY <1>1, <1>3, <3>1, Sizes DEF Positions
      <4> QED BY <4>1 DEF Behind, Positions
    <3> QED BY <1>1, <1>2, <1>4, <1>6, <1>7, <3>1, <3>2
  <2> QED BY <2>1, <2>2
<1>9. DOMAIN x = 1 .. n + 1 /\ DOMAIN y = 1 .. n + 1
  BY <1>6, <1>7
<1> QED BY <1>6, <1>7, <1>8, <1>9, SameList, Zenon DEF x, y

\* The oldest one is taken.
LEMMA PendingTaken ==
  ASSUME RingInv, NEW i \in Isolates, Take(i)
  PROVE  /\ ring[i][eventOut[i]] \in Events /\ Pending(i)' \in Seq(Events)
         /\ Pending(i) = <<ring[i][eventOut[i]]>> \o Pending(i)'
<1> DEFINE o == eventOut[i]
           n == numEvents[i]
           x == Pending(i)
           y == Pending(i)'
           z == Tail(x)
<1>1. /\ o \in Positions /\ n \in 0 .. MAX_EVENTS /\ n \in Nat
      /\ ring[i] \in [Positions -> Events \cup {None}]
  BY Sizes DEF RingInv, RingTypes
<1>2. /\ ring'[i] = [ring[i] EXCEPT ![o] = None]
      /\ numEvents'[i] = n - 1 /\ eventOut'[i] = Wrap(o + 1) /\ n > 0
  BY DEF Take, RingInv, RingTypes
<1>3. /\ x \in Seq(Events) /\ Len(x) = n
      /\ \A k \in 1 .. n : /\ Behind(o, k - 1) \in Positions
                           /\ x[k] = ring[i][Behind(o, k - 1)]
  BY PendingAt DEF PendingIs, IsRead
<1>4. RingInv'
  BY TakeKeepsRing
<1>5. /\ y \in Seq(Events) /\ Len(y) = n - 1
      /\ \A k \in 1 .. n - 1 : y[k] = ring'[i][Behind(Wrap(o + 1), k - 1)]
  <2>1. /\ y \in Seq(Events) /\ Len(y) = numEvents'[i]
        /\ \A k \in 1 .. numEvents'[i] : y[k] = ring'[i][Behind(eventOut'[i], k - 1)]
    BY <1>4, PendingAtNext DEF PendingIs, IsRead
  <2> QED BY <1>2, <2>1
<1> HIDE DEF x, y
<1>6. x # << >> /\ Head(x) = x[1] /\ x[1] = ring[i][o] /\ x[1] \in Events
  <2>1. 1 \in 1 .. n /\ 1 - 1 = 0 /\ Behind(o, 0) = o
    BY <1>1, <1>2, WindowEmpty
  <2> QED BY <1>1, <1>2, <1>3, <2>1
<1>7. /\ z \in Seq(Events) /\ Len(z) = n - 1
      /\ \A k \in 1 .. n - 1 : z[k] = x[k + 1]
  BY <1>1, <1>2, <1>3
<1>8. ASSUME NEW k \in 1 .. n - 1 PROVE z[k] = y[k]
  <2>1. k + 1 \in 1 .. n /\ (k + 1) - 1 = k
    BY <1>1
  <2>2. Behind(Wrap(o + 1), k - 1) = Behind(o, k) /\ Behind(o, k) # o /\ Behind(o, k) \in Positions
    <3>1. /\ o \in Int /\ 0 <= o /\ o < MAX_EVENTS /\ MAX_EVENTS \in Int
          /\ k \in Int /\ 1 <= k /\ k < MAX_EVENTS
      BY <1>1, Sizes DEF Positions
    <3> HIDE DEF n
    <3> QED BY <3>1 DEF Behind, Positions, Wrap
  <2>3. y[k] = ring[i][Behind(o, k)]
    BY <1>1, <1>2, <1>5, <2>2
  <2>4. x[k + 1] = ring[i][Behind(o, k)]
    BY <1>3, <2>1
  <2> QED BY <1>7, <2>3, <2>4
<1> HIDE DEF z
<1>9. DOMAIN z = 1 .. n - 1 /\ DOMAIN y = 1 .. n - 1
  BY <1>5, <1>7
<1>10. z = y
  BY <1>5, <1>7, <1>8, <1>9, SameList, Zenon
<1>11. x = <<Head(x)>> \o z
  BY <1>3, <1>6, FirstAndRest DEF z
<1> QED BY <1>5, <1>6, <1>10, <1>11 DEF x, y

\* All are taken.
LEMMA PendingReset ==
  ASSUME RingInv, NEW i \in Isolates, ResetRing(i)
  PROVE  /\ Pending(i)' = << >>
         /\ Elems(Pending(i)) = {ring[i][p] : p \in Window(i)}
<1> DEFINE o == eventOut[i]
           n == numEvents[i]
<1>1. /\ o \in Positions /\ n \in 0 .. MAX_EVENTS /\ n \in Nat
  BY Sizes DEF RingInv, RingTypes
<1>2. Pending(i)' = << >>
  <2>1. Pending(i)' \in Seq(Events) /\ Len(Pending(i)') = numEvents'[i]
    <3>1. RingInv'
      BY ResetKeepsRing
    <3> QED BY <3>1, PendingAtNext DEF PendingIs, IsRead
  <2>2. numEvents'[i] = 0
    BY DEF ResetRing, RingInv, RingTypes
  <2> QED BY <2>1, <2>2, NoLength
<1>3. /\ DOMAIN Pending(i) = 1 .. n
      /\ \A k \in 1 .. n : Pending(i)[k] = ring[i][(o + (k - 1)) % MAX_EVENTS]
  <2>1. \A k \in 1 .. n : o + k - 1 = o + (k - 1)
    BY <1>1, Sizes DEF Positions
  <2> QED BY <2>1 DEF Pending
<1>4. ASSUME NEW k \in 1 .. n PROVE (o + (k - 1)) % MAX_EVENTS \in Window(i)
  <2>1. k - 1 \in 0 .. n - 1
    BY <1>1
  <2> QED BY <2>1 DEF Window
<1>5. ASSUME NEW p \in Window(i) PROVE ring[i][p] \in Elems(Pending(i))
  <2>1. PICK k \in 0 .. n - 1 : p = (o + k) % MAX_EVENTS
    BY DEF Window
  <2>2. k + 1 \in 1 .. n /\ (k + 1) - 1 = k
    BY <1>1
  <2>3. Pending(i)[k + 1] = ring[i][p]
    BY <1>3, <2>1, <2>2
  <2> QED BY <1>3, <2>2, <2>3 DEF Elems
<1> QED BY <1>2, <1>3, <1>4, <1>5 DEF Elems

-----------------------------------------------------------------------------
(* The invariant.                                                          *)

(* Events that have been sent.                                             *)
Known == used \cup {c \in Callers : shut[c] # "no"}

OrderOf(i) ==
  Way(current[i], List(i), held[i], Pending(i), accepted[i], gone[i], phase[i] = "on", Known)

ChainOf(i) == IsChain(List(i), nextEvent[i], lastEvent[i], next[i])

LatestOf(i) ==
  \A y \in Types : waitingEvent[i][y] # None => IsLatest(waitingEvent[i][y], y, List(i))

(* What the threads hold, and that nothing is left of an isolate that is   *)
(* not running.                                                            *)
ThreadsOf(i) ==
  /\ held[i] # None <=> monitor[i] = "post"
  /\ current[i] # None <=> disp[i] = "process"
  /\ monitor[i] = "drain" => left[i] > 0
  /\ phase[i] # "on" => disp[i] = "dead" /\ nextEvent[i] = None

UsedPart == used \subseteq NativeEvents \cup JavaEvents \cup Isolates

TypesInv == ListTypes /\ ThreadTypes /\ UsedPart

QueueInv(i) == ThreadsOf(i) /\ ChainOf(i) /\ LatestOf(i) /\ OrderOf(i)

(* Steps only add to what has been sent.                                   *)
CallersStaySent == \A c \in Callers : shut[c] # "no" => shut'[c] # "no"

\* What has been sent stays so.
LEMMA KnownGrows ==
  ASSUME used \subseteq used', CallersStaySent
  PROVE  Known \subseteq Known'
BY DEF Known, CallersStaySent

\* notifyAll, or no change.
LEMMA NotifiedStaySent ==
  ASSUME ThreadTypes, NEW i \in Isolates, shut' = CallersNotified(i) \/ shut' = shut
  PROVE  /\ CallersStaySent
         /\ shut' \in [Callers -> {"no", "check", "waiting", "reset", "done", "dead"}]
BY DEF ThreadTypes, CallersNotified, CallersStaySent

-----------------------------------------------------------------------------
(* Types.                                                                  *)

\* One entry of a table of tables is replaced.
LEMMA PutType ==
  ASSUME NEW A, NEW B, NEW C, NEW f \in [A -> [B -> C]], NEW a \in A, NEW b, NEW c \in C
  PROVE  [f EXCEPT ![a][b] = c] \in [A -> [B -> C]]
<1> DEFINE g == [f[a] EXCEPT ![b] = c]
<1>1. g \in [B -> C]
  <2>1. f[a] \in [B -> C]
    OBVIOUS
  <2> HIDE DEF g
  <2> QED BY <2>1 DEF g
<1>2. [f EXCEPT ![a][b] = c] = [f EXCEPT ![a] = g]
  OBVIOUS
<1> HIDE DEF g
<1> QED BY <1>1, <1>2

\* post() keeps the types of what it writes.
LEMMA PostTypes ==
  ASSUME TypesInv, NEW i \in Isolates, NEW e \in Events, NEW wanted, Post(i, e, wanted)
  PROVE  /\ ListTypes'
         /\ disp' \in [Isolates -> {"new", "run", "waiting", "process", "ended", "dead"}]
         /\ shut' \in [Callers -> {"no", "check", "waiting", "reset", "done", "dead"}]
         /\ CallersStaySent
<1> USE DEF TypesInv
<1>1. CASE Accepts(i, e, wanted)
  <2>1. ListTypes'
    <3>1. lastEvent[i] = None \/ lastEvent[i] \in Events
      BY DEF ListTypes
    <3>2. waitingEvent' \in [Isolates -> [Types -> Events \cup {None}]]
      <4> DEFINE y == EventType(e)
      <4>1. /\ waitingEvent' = waitingEvent \/ waitingEvent' = [waitingEvent EXCEPT ![i][y] = e]
            /\ waitingEvent \in [Isolates -> [Types -> Events \cup {None}]]
        BY <1>1, Zenon DEF Post, ListTypes
      <4> HIDE DEF y
      <4>2. e \in Events \cup {None}
        OBVIOUS
      <4>3. [waitingEvent EXCEPT ![i][y] = e] \in [Isolates -> [Types -> Events \cup {None}]]
        BY <4>1, <4>2, PutType, Zenon
      <4> QED BY <4>1, <4>3, Zenon
    <3>3. next' \in [Isolates -> [Events -> Events \cup {None}]]
      <4> DEFINE y == lastEvent[i]
      <4>1. /\ next' = next \/ next' = [next EXCEPT ![i][y] = e]
            /\ next \in [Isolates -> [Events -> Events \cup {None}]]
        BY <1>1, Zenon DEF Post, ListTypes
      <4> HIDE DEF y
      <4>2. e \in Events \cup {None}
        OBVIOUS
      <4>3. [next EXCEPT ![i][y] = e] \in [Isolates -> [Events -> Events \cup {None}]]
        BY <4>1, <4>2, PutType, Zenon
      <4> QED BY <4>1, <4>3, Zenon
    <3>4. /\ nextEvent' \in [Isolates -> Events \cup {None}]
          /\ lastEvent' \in [Isolates -> Events \cup {None}]
          /\ UNCHANGED <<listening, alive>>
      <4>1. /\ nextEvent' = nextEvent \/ nextEvent' = [nextEvent EXCEPT ![i] = e]
            /\ lastEvent' = [lastEvent EXCEPT ![i] = e]
            /\ UNCHANGED <<listening, alive>>
        BY <1>1, Zenon DEF Post
      <4> QED BY <4>1 DEF ListTypes
    <3> QED BY <3>2, <3>3, <3>4 DEF ListTypes
  <2>2. disp' \in [Isolates -> {"new", "run", "waiting", "process", "ended", "dead"}]
    BY <1>1 DEF Post, NotifyAll, ThreadTypes
  <2>3. shut' = CallersNotified(i)
    BY <1>1 DEF Post, NotifyAll
  <2> QED BY <2>1, <2>2, <2>3, NotifiedStaySent
<1>2. CASE ~ Accepts(i, e, wanted)
  <2>1. UNCHANGED <<listVars, disp, shut>>
    BY <1>2 DEF Post
  <2> QED BY <2>1, NotifiedStaySent DEF ListTypes, ThreadTypes, listVars
<1> QED BY <1>1, <1>2

\* The monitor thread.
LEMMA MonitorTypes ==
  ASSUME IInv, TypesInv, NEW i \in Isolates, QueueInv(i), Monitor(i)
  PROVE  TypesInv' /\ CallersStaySent
<1> USE DEF TypesInv
<1>0. /\ RingInv /\ Ams \in Isolates /\ numEvents[i] \in 0 .. MAX_EVENTS /\ MAX_EVENTS \in Nat
      /\ left[i] \in 0 .. MAX_EVENTS
  BY Sizes DEF IInv, RingInv, RingTypes, ThreadTypes
<1>1. CASE WaitReads(i)
  <2>1. ring[i][eventOut[i]] \in Events /\ numEvents[i] > 0
    BY <1>0, <1>1, PendingTaken DEF WaitReads, Take
  <2>2. numEvents[i] - 1 \in 0 .. MAX_EVENTS
    BY <1>0, <2>1
  <2>3. ThreadTypes' /\ UsedPart'
    BY <1>1, <2>1, <2>2 DEF WaitReads, ThreadTypes, UsedPart
  <2> QED BY <1>1, <2>3, NotifiedStaySent DEF WaitReads, ListTypes, listVars
<1>2. CASE WaitBlocks(i)
  <2>1. ThreadTypes' /\ UsedPart'
    BY <1>2 DEF WaitBlocks, ThreadTypes, UsedPart
  <2> QED BY <1>2, <2>1, NotifiedStaySent DEF WaitBlocks, ListTypes, listVars
<1>3. CASE MonitorDrains(i)
  <2>1. ring[i][eventOut[i]] \in Events /\ left[i] > 0
    BY <1>0, <1>3, PendingTaken DEF MonitorDrains, QueueInv, ThreadsOf
  <2>2. left[i] - 1 \in 0 .. MAX_EVENTS
    BY <1>0, <2>1
  <2>3. ThreadTypes' /\ UsedPart'
    BY <1>3, <2>1, <2>2 DEF MonitorDrains, ThreadTypes, UsedPart
  <2> QED BY <1>3, <2>3, NotifiedStaySent DEF MonitorDrains, ListTypes, listVars
<1>4. CASE MonitorFindsNone(i)
  <2>1. ThreadTypes' /\ UsedPart'
    BY <1>4 DEF MonitorFindsNone, ThreadTypes, UsedPart
  <2> QED BY <1>4, <2>1, NotifiedStaySent DEF MonitorFindsNone, ListTypes, listVars
<1>5. ASSUME NEW wanted \in BOOLEAN, MonitorPosts(i, wanted) PROVE TypesInv' /\ CallersStaySent
  <2>1. held[i] \in Events
    BY <1>5 DEF MonitorPosts, QueueInv, ThreadsOf, ThreadTypes
  <2>2. /\ ListTypes' /\ CallersStaySent
        /\ disp' \in [Isolates -> {"new", "run", "waiting", "process", "ended", "dead"}]
        /\ shut' \in [Callers -> {"no", "check", "waiting", "reset", "done", "dead"}]
    BY <1>5, <2>1, PostTypes DEF MonitorPosts
  <2>3. lock' \in [Isolates -> BOOLEAN]
    <3>1. (left[i] > 0) \in BOOLEAN
      BY <1>0
    <3> QED BY <1>5, <3>1, Zenon DEF MonitorPosts, ThreadTypes
  <2>4. ThreadTypes' /\ UsedPart'
    BY <1>5, <2>2, <2>3 DEF MonitorPosts, ThreadTypes, UsedPart
  <2> QED BY <2>2, <2>4
<1> QED BY <1>1, <1>2, <1>3, <1>4, <1>5 DEF Monitor

\* The dispatch thread.
LEMMA DispatcherTypes ==
  ASSUME TypesInv, NEW i \in Isolates, Dispatcher(i)
  PROVE  TypesInv' /\ CallersStaySent
<1> USE DEF TypesInv
<1>0. shut' = CallersNotified(i) \/ shut' = shut
  BY DEF Dispatcher, DispatchStart, DispatchWaits, Dispatch, Process
<1>1. /\ CallersStaySent
      /\ shut' \in [Callers -> {"no", "check", "waiting", "reset", "done", "dead"}]
  BY <1>0, NotifiedStaySent
<1>2. CASE DispatchStart(i)
  BY <1>1, <1>2 DEF DispatchStart, ListTypes, ThreadTypes, UsedPart
<1>3. CASE DispatchWaits(i)
  BY <1>1, <1>3 DEF DispatchWaits, ListTypes, ThreadTypes, UsedPart, listVars
<1>4. CASE Dispatch(i)
  <2>1. nextEvent[i] \in Events /\ next[i][nextEvent[i]] \in Events \cup {None}
    BY <1>4 DEF Dispatch, ListTypes
  <2>2. /\ nextEvent' \in [Isolates -> Events \cup {None}]
        /\ lastEvent' \in [Isolates -> Events \cup {None}]
        /\ next' \in [Isolates -> [Events -> Events \cup {None}]]
    BY <1>4, <2>1 DEF Dispatch, ListTypes
  <2>3. waitingEvent' \in [Isolates -> [Types -> Events \cup {None}]]
    BY <1>4 DEF Dispatch, ListTypes, WaitingAfter
  <2>4. alive' \in [Isolates -> BOOLEAN] /\ listening' = listening
    BY <1>4 DEF Dispatch, ListTypes
  <2>5. /\ current' \in [Isolates -> Events \cup {None}]
        /\ disp' \in [Isolates -> {"new", "run", "waiting", "process", "ended", "dead"}]
    BY <1>4, <2>1 DEF Dispatch, ThreadTypes
  <2>6. UNCHANGED <<monitor, held, left, lock, phase, vm, used>>
    BY <1>4 DEF Dispatch
  <2> QED BY <1>1, <2>2, <2>3, <2>4, <2>5, <2>6 DEF ListTypes, ThreadTypes, UsedPart
<1>5. CASE Process(i)
  BY <1>1, <1>5 DEF Process, ListTypes, ThreadTypes, UsedPart, listVars
<1> QED BY <1>2, <1>3, <1>4, <1>5 DEF Dispatcher

\* Java code posts, registers a listener or removes an event.
LEMMA JavaTypes ==
  ASSUME TypesInv, NEW i \in Isolates, ChainOf(i), Java(i)
  PROVE  TypesInv' /\ CallersStaySent
<1> USE DEF TypesInv
<1>1. ASSUME NEW e \in JavaEvents, NEW wanted \in BOOLEAN, JavaPost(i, e, wanted)
      PROVE  TypesInv' /\ CallersStaySent
  <2>1. e \in Events
    BY DEF Events
  <2>2. /\ ListTypes' /\ CallersStaySent
        /\ disp' \in [Isolates -> {"new", "run", "waiting", "process", "ended", "dead"}]
        /\ shut' \in [Callers -> {"no", "check", "waiting", "reset", "done", "dead"}]
    BY <1>1, <2>1, PostTypes DEF JavaPost
  <2>3. ThreadTypes' /\ UsedPart'
    BY <1>1, <2>1, <2>2 DEF JavaPost, ThreadTypes, UsedPart
  <2> QED BY <2>2, <2>3
<1>2. ASSUME NEW y \in Types, Register(i, y) PROVE TypesInv' /\ CallersStaySent
  <2>1. waitingEvent' \in [Isolates -> [Types -> Events \cup {None}]]
    <3>1. /\ waitingEvent' = [waitingEvent EXCEPT ![i][y] = None]
          /\ waitingEvent \in [Isolates -> [Types -> Events \cup {None}]]
          /\ None \in Events \cup {None}
      BY <1>2 DEF Register, ListTypes
    <3>2. [waitingEvent EXCEPT ![i][y] = None] \in [Isolates -> [Types -> Events \cup {None}]]
      BY <3>1, PutType, Zenon
    <3> QED BY <3>1, <3>2, Zenon
  <2>2. listening' \in [Isolates -> SUBSET Types]
    BY <1>2 DEF Register, ListTypes
  <2>3. ListTypes'
    BY <1>2, <2>1, <2>2 DEF Register, ListTypes
  <2>4. ThreadTypes' /\ UsedPart'
    BY <1>2 DEF Register, threadVars, ThreadTypes, UsedPart
  <2>5. shut' = shut
    BY <1>2 DEF Register, threadVars
  <2> QED BY <2>3, <2>4, <2>5, NotifiedStaySent
<1>3. ASSUME NEW y \in Types, RemoveEvent(i, y) PROVE TypesInv' /\ CallersStaySent
  <2> DEFINE l == List(i)
  <2>1. PICK k \in 1 .. Len(l) :
          /\ waitingEvent' = [waitingEvent EXCEPT ![i][y] = IF @ = l[k] THEN None ELSE @]
          /\ nextEvent' = [nextEvent EXCEPT ![i] = IF @ = l[k] THEN next[i][l[k]] ELSE @]
          /\ lastEvent' = [lastEvent EXCEPT ![i] =
                             LastWithout(i, l[k], IF k = 1 THEN None ELSE l[k - 1])]
          /\ next' = [next EXCEPT ![i] = [e \in Events |->
                        IF e = l[k] THEN None
                        ELSE IF e = (IF k = 1 THEN None ELSE l[k - 1]) THEN next[i][l[k]]
                        ELSE next[i][e]]]
    BY <1>3, Zenon DEF RemoveEvent
  <2>2. l \in Seq(Events) /\ DOMAIN l = 1 .. Len(l)
    BY DEF ChainOf, IsChain
  <2> HIDE DEF l
  <2>3. l[k] \in Events /\ (IF k = 1 THEN None ELSE l[k - 1]) \in Events \cup {None}
    <3>1. k # 1 => k - 1 \in 1 .. Len(l)
      BY <2>2
    <3> QED BY <2>2, <3>1
  <2> DEFINE x == l[k]
             prev == IF k = 1 THEN None ELSE l[k - 1]
  <2>4. waitingEvent' \in [Isolates -> [Types -> Events \cup {None}]]
    <3>1. waitingEvent[i][y] \in Events \cup {None}
      BY DEF ListTypes
    <3> DEFINE z == IF waitingEvent[i][y] = x THEN None ELSE waitingEvent[i][y]
    <3>2. z \in Events \cup {None} /\ waitingEvent' = [waitingEvent EXCEPT ![i][y] = z]
      BY <2>1, <3>1
    <3> HIDE DEF z
    <3>3. [waitingEvent EXCEPT ![i][y] = z] \in [Isolates -> [Types -> Events \cup {None}]]
      BY <3>2, PutType, Zenon DEF ListTypes
    <3> QED BY <3>2, <3>3, Zenon
  <2>5. next[i][x] \in Events \cup {None} /\ x \in Events /\ prev \in Events \cup {None}
    BY <2>3 DEF ListTypes
  <2>6. nextEvent' \in [Isolates -> Events \cup {None}]
    BY <2>1, <2>5 DEF ListTypes
  <2>7. lastEvent' \in [Isolates -> Events \cup {None}]
    BY <2>1, <2>5 DEF ListTypes, LastWithout
  <2>8. next' \in [Isolates -> [Events -> Events \cup {None}]]
    <3> DEFINE f == [e \in Events |-> IF e = x THEN None
                                      ELSE IF e = prev THEN next[i][x] ELSE next[i][e]]
    <3>1. f \in [Events -> Events \cup {None}]
      BY <2>5 DEF ListTypes
    <3>2. next' = [next EXCEPT ![i] = f]
      BY <2>1
    <3> HIDE DEF f
    <3> QED BY <3>1, <3>2 DEF ListTypes
  <2>9. ListTypes'
    BY <1>3, <2>4, <2>6, <2>7, <2>8 DEF RemoveEvent, ListTypes
  <2>10. ThreadTypes' /\ UsedPart' /\ shut' = shut
    BY <1>3 DEF RemoveEvent, threadVars, ThreadTypes, UsedPart
  <2> QED BY <2>9, <2>10, NotifiedStaySent
<1> QED BY <1>1, <1>2, <1>3 DEF Java

\* A store only wakes monitor threads.
LEMMA StoreTypes ==
  ASSUME NEW S, NEW e, NEW mon, StoreIn(S, e, mon),
         mon \in [Isolates -> {"wait", "blocked", "post", "drain", "dead"}]
  PROVE  monitor' \in [Isolates -> {"wait", "blocked", "post", "drain", "dead"}]
BY DEF StoreIn

\* A fatal error.
LEMMA ThrowsTypes ==
  ASSUME TypesInv, NEW i \in Isolates, Throws(i)
  PROVE  TypesInv' /\ CallersStaySent
<1> USE DEF TypesInv
<1> DEFINE mon == [monitor EXCEPT ![i] = "dead"]
<1>1. mon \in [Isolates -> {"wait", "blocked", "post", "drain", "dead"}]
  BY DEF ThreadTypes
<1>2. shut' = shut /\ UNCHANGED listVars /\ UNCHANGED <<left, phase>>
  BY DEF Throws, MonitorThrows, ProcessThrows
<1>3. ASSUME NEW m \in [Isolates -> {"wait", "blocked", "post", "drain", "dead"}],
             HandleFatalError(i, m)
      PROVE  /\ monitor' \in [Isolates -> {"wait", "blocked", "post", "drain", "dead"}]
             /\ vm' \in {"up", "exited"} /\ used' \in SUBSET Events /\ UsedPart'
  <2>1. i \in Events
    BY DEF Events
  <2>2. monitor' \in [Isolates -> {"wait", "blocked", "post", "drain", "dead"}]
    BY <1>3, StoreTypes DEF HandleFatalError
  <2> QED BY <1>3, <2>1, <2>2 DEF HandleFatalError, ThreadTypes, UsedPart
<1>4. CASE MonitorThrows(i)
  <2>1. HandleFatalError(i, mon)
    BY <1>4 DEF MonitorThrows
  <2>2. /\ monitor' \in [Isolates -> {"wait", "blocked", "post", "drain", "dead"}]
        /\ vm' \in {"up", "exited"} /\ used' \in SUBSET Events /\ UsedPart'
    BY <1>1, <1>3, <2>1
  <2>3. ThreadTypes'
    BY <1>4, <1>2, <2>2 DEF MonitorThrows, ThreadTypes
  <2> QED BY <1>2, <2>2, <2>3, NotifiedStaySent DEF ListTypes, listVars
<1>5. CASE ProcessThrows(i)
  <2>1. HandleFatalError(i, monitor)
    BY <1>5 DEF ProcessThrows
  <2>2. /\ monitor' \in [Isolates -> {"wait", "blocked", "post", "drain", "dead"}]
        /\ vm' \in {"up", "exited"} /\ used' \in SUBSET Events /\ UsedPart'
    BY <1>3, <2>1 DEF ThreadTypes
  <2>3. ThreadTypes'
    BY <1>5, <1>2, <2>2 DEF ProcessThrows, ThreadTypes
  <2> QED BY <1>2, <2>2, <2>3, NotifiedStaySent DEF ListTypes, listVars
<1> QED BY <1>4, <1>5 DEF Throws

\* shutdown().
LEMMA ShutdownTypes ==
  ASSUME TypesInv, NEW c \in Callers, ShutdownSends(c) \/ ShutdownGoesOn(c)
  PROVE  TypesInv' /\ CallersStaySent
<1> USE DEF TypesInv
<1>1. CASE ShutdownSends(c)
  <2>1. monitor' \in [Isolates -> {"wait", "blocked", "post", "drain", "dead"}]
    BY <1>1, StoreTypes DEF ShutdownSends, ThreadTypes
  <2>2. ThreadTypes' /\ UsedPart' /\ CallersStaySent
    BY <1>1, <2>1 DEF ShutdownSends, ThreadTypes, UsedPart, CallersStaySent
  <2> QED BY <1>1, <2>2 DEF ShutdownSends, ListTypes, listVars
<1>2. CASE ShutdownChecks(c)
  <2>1. ThreadTypes' /\ UsedPart' /\ CallersStaySent
    BY <1>2 DEF ShutdownChecks, ThreadTypes, UsedPart, CallersStaySent
  <2> QED BY <1>2, <2>1 DEF ShutdownChecks, ListTypes, listVars
<1>3. CASE ShutdownResets(c)
  <2>1. ThreadTypes' /\ UsedPart' /\ CallersStaySent
    BY <1>3 DEF ShutdownResets, ThreadTypes, UsedPart, CallersStaySent
  <2> QED BY <1>3, <2>1 DEF ShutdownResets, ListTypes, listVars
<1> QED BY <1>1, <1>2, <1>3 DEF ShutdownGoesOn

\* Isolates that start, are stopped and finalized.
LEMMA IsolateTypes ==
  ASSUME TypesInv, NEW i \in Isolates, Start(i) \/ Finalize(i) \/ StopTask(i)
  PROVE  TypesInv' /\ CallersStaySent
<1> USE DEF TypesInv
<1>1. CASE Start(i)
  <2>1. ThreadTypes' /\ UsedPart' /\ shut' = shut
    BY <1>1 DEF Start, ThreadTypes, UsedPart
  <2> QED BY <1>1, <2>1, NotifiedStaySent DEF Start, ListTypes, listVars
<1>2. CASE Finalize(i)
  <2>1. ThreadTypes' /\ UsedPart' /\ shut' = shut
    BY <1>2 DEF Finalize, threadVars, ThreadTypes, UsedPart
  <2> QED BY <1>2, <2>1, NotifiedStaySent DEF Finalize, ListTypes, listVars
<1>3. CASE StopTask(i)
  <2>1. 0 \in 0 .. MAX_EVENTS
    BY Sizes
  <2>2. ThreadTypes' /\ UsedPart' /\ CallersStaySent
    BY <1>3, <2>1 DEF StopTask, ThreadTypes, UsedPart, CallersStaySent
  <2>3. ListTypes'
    BY <1>3 DEF StopTask, ListTypes
  <2> QED BY <2>2, <2>3
<1> QED BY <1>1, <1>2, <1>3

\* Events of natives.
LEMMA EnvironmentTypes ==
  ASSUME TypesInv, Environment
  PROVE  TypesInv' /\ CallersStaySent
<1> USE DEF TypesInv
<1>1. PICK e \in NativeEvents, S \in {Isolates} \cup {{i} : i \in Isolates} : Store(S, e)
  BY DEF Environment
<1>2. monitor' \in [Isolates -> {"wait", "blocked", "post", "drain", "dead"}]
  BY <1>1, StoreTypes DEF Store, ThreadTypes
<1>3. e \in Events
  BY DEF Events
<1>4. ThreadTypes' /\ UsedPart' /\ CallersStaySent
  BY <1>1, <1>2, <1>3 DEF Store, ThreadTypes, UsedPart, CallersStaySent
<1> QED BY <1>1, <1>4 DEF Store, ListTypes, listVars

-----------------------------------------------------------------------------
(* Notifications.                                                          *)

(* A step after which dispatch threads and callers of shutdown() wait that *)
(* waited before, for what is as it was.                                   *)
NoneStartsToWait ==
  /\ \A j \in Isolates :
       disp'[j] = "waiting" => disp[j] = "waiting" /\ nextEvent'[j] = nextEvent[j]
  /\ \A c \in Callers :
       shut'[c] = "waiting" => shut[c] = "waiting" /\ alive'[CallerIso[c]] = alive[CallerIso[c]]

\* Such a step loses no notification.
LEMMA NotifyFrame == NoLostNotify /\ NoneStartsToWait => NoLostNotify'
BY DEF NoLostNotify, NoneStartsToWait

\* Whoever waits for the queue of i is notified when post() changes it.
LEMMA PostNotifies ==
  ASSUME TypesInv, NEW i \in Isolates, NEW e, NEW wanted, Post(i, e, wanted)
  PROVE  NoneStartsToWait
<1> USE DEF TypesInv, ListTypes, ThreadTypes
<1>1. CASE Accepts(i, e, wanted)
  <2>1. /\ disp'[i] # "waiting" /\ alive' = alive
        /\ \A j \in Isolates \ {i} : disp'[j] = disp[j] /\ nextEvent'[j] = nextEvent[j]
    BY <1>1 DEF Post, NotifyAll
  <2>2. \A c \in Callers : shut'[c] = "waiting" => shut[c] = "waiting"
    BY <1>1 DEF Post, NotifyAll, CallersNotified
  <2> QED BY <2>1, <2>2 DEF NoneStartsToWait
<1>2. CASE ~ Accepts(i, e, wanted)
  BY <1>2 DEF Post, listVars, NoneStartsToWait
<1> QED BY <1>1, <1>2

\* notifyAll reaches everyone.
LEMMA NotifyStep ==
  ASSUME TypesInv, NoLostNotify, \A i \in Isolates : ChainOf(i), [Next]_vars
  PROVE  NoLostNotify'
<1> USE DEF TypesInv, ListTypes, ThreadTypes
<1>1. ASSUME NEW i \in Isolates, Monitor(i) PROVE NoLostNotify'
  <2>1. ASSUME NEW wanted \in BOOLEAN, MonitorPosts(i, wanted) PROVE NoLostNotify'
    BY <2>1, PostNotifies, NotifyFrame DEF MonitorPosts
  <2>2. CASE WaitReads(i) \/ WaitBlocks(i) \/ MonitorDrains(i) \/ MonitorFindsNone(i)
    <3>1. UNCHANGED <<disp, nextEvent, shut, alive>>
      BY <2>2 DEF WaitReads, WaitBlocks, MonitorDrains, MonitorFindsNone, listVars
    <3> QED BY <3>1, NotifyFrame DEF NoneStartsToWait
  <2> QED BY <1>1, <2>1, <2>2 DEF Monitor
<1>2. ASSUME NEW i \in Isolates, Dispatcher(i) PROVE NoLostNotify'
  <2>1. CASE DispatchStart(i)
    <3>1. NoneStartsToWait
      <4>1. /\ UNCHANGED <<nextEvent, shut>> /\ alive'[i] = TRUE
            /\ \A j \in Isolates \ {i} : alive'[j] = alive[j]
            /\ \A j \in Isolates : disp'[j] = "waiting" => disp[j] = "waiting"
        BY <2>1 DEF DispatchStart
      <4>2. \A c \in Callers : shut[c] = "waiting" => alive[CallerIso[c]] = TRUE
        BY Sizes DEF NoLostNotify
      <4>3. \A c \in Callers : shut'[c] = "waiting" =>
                shut[c] = "waiting" /\ alive'[CallerIso[c]] = alive[CallerIso[c]]
        BY <4>1, <4>2, Sizes
      <4> QED BY <4>1, <4>3 DEF NoneStartsToWait
    <3> QED BY <3>1, NotifyFrame
  <2>2. CASE DispatchWaits(i)
    <3>1. /\ UNCHANGED <<nextEvent, shut, alive>> /\ nextEvent[i] = None
          /\ \A j \in Isolates \ {i} : disp'[j] = disp[j]
      BY <2>2 DEF DispatchWaits, listVars
    <3> QED BY <3>1 DEF NoLostNotify
  <2>3. CASE Dispatch(i)
    <3>1. /\ disp'[i] # "waiting"
          /\ \A j \in Isolates \ {i} : /\ disp'[j] = disp[j] /\ nextEvent'[j] = nextEvent[j]
                                       /\ alive'[j] = alive[j]
      BY <2>3 DEF Dispatch
    <3>2. \/ shut' = shut /\ alive' = alive
          \/ shut' = CallersNotified(i)
      BY <2>3 DEF Dispatch
    <3>3. \A c \in Callers : shut'[c] = "waiting" =>
            /\ shut[c] = "waiting"
            /\ CallerIso[c] # i \/ alive' = alive
      BY <3>2 DEF CallersNotified
    <3> QED BY <3>1, <3>3, NotifyFrame, Sizes DEF NoneStartsToWait
  <2>4. CASE Process(i)
    BY <2>4, NotifyFrame DEF Process, listVars, NoneStartsToWait
  <2> QED BY <1>2, <2>1, <2>2, <2>3, <2>4 DEF Dispatcher
<1>3. ASSUME NEW i \in Isolates, Java(i) PROVE NoLostNotify'
  <2>1. ASSUME NEW e \in JavaEvents, NEW wanted \in BOOLEAN, JavaPost(i, e, wanted)
        PROVE  NoLostNotify'
    BY <2>1, PostNotifies, NotifyFrame DEF JavaPost
  <2>2. ASSUME NEW y \in Types, Register(i, y) PROVE NoLostNotify'
    BY <2>2, NotifyFrame DEF Register, threadVars, NoneStartsToWait
  <2>3. ASSUME NEW y \in Types, RemoveEvent(i, y) PROVE NoLostNotify'
    <3>1. /\ UNCHANGED <<disp, shut, alive>>
          /\ \A j \in Isolates \ {i} : nextEvent'[j] = nextEvent[j]
      BY <2>3 DEF RemoveEvent, threadVars
    <3>2. disp[i] = "waiting" => nextEvent'[i] = None
      <4> SUFFICES ASSUME disp[i] = "waiting" PROVE nextEvent'[i] = None
        OBVIOUS
      <4>1. nextEvent[i] = None
        BY DEF NoLostNotify
      <4>2. List(i) = << >>
        BY <4>1, ChainEmpty DEF ChainOf
      <4>3. PICK k \in 1 .. Len(List(i)) : TRUE
        BY <2>3 DEF RemoveEvent
      <4> QED BY <4>2, <4>3
    <3> QED BY <3>1, <3>2 DEF NoLostNotify
  <2> QED BY <1>3, <2>1, <2>2, <2>3 DEF Java
<1>4. ASSUME NEW i \in Isolates, Start(i) \/ Finalize(i) PROVE NoLostNotify'
  BY <1>4, NotifyFrame DEF Start, Finalize, listVars, threadVars, NoneStartsToWait
<1>5. ASSUME NEW i \in MayThrow, Throws(i) PROVE NoLostNotify'
  <2>1. /\ UNCHANGED <<nextEvent, shut, alive>>
        /\ disp' = disp \/ disp' = [disp EXCEPT ![i] = "run"]
    BY <1>5 DEF Throws, MonitorThrows, ProcessThrows, listVars
  <2> QED BY <2>1, NotifyFrame, Sizes DEF NoneStartsToWait
<1>6. ASSUME NEW i \in MayStop, StopTask(i) PROVE NoLostNotify'
  <2>1. /\ disp'[i] = "dead" /\ i \in Isolates
        /\ \A j \in Isolates \ {i} : /\ disp'[j] = disp[j] /\ nextEvent'[j] = nextEvent[j]
                                     /\ alive'[j] = alive[j]
        /\ shut' = [c \in Callers |-> IF CallerIso[c] = i THEN "dead" ELSE shut[c]]
    BY <1>6, Sizes DEF StopTask
  <2> QED BY <2>1, NotifyFrame, Sizes DEF NoneStartsToWait
<1>7. ASSUME NEW c \in Callers, ShutdownSends(c) \/ ShutdownGoesOn(c) PROVE NoLostNotify'
  <2>1. /\ UNCHANGED <<disp, nextEvent, alive>>
        /\ \A d \in Callers \ {c} : shut'[d] = shut[d]
        /\ shut'[c] = "waiting" => alive[CallerIso[c]]
    BY <1>7 DEF ShutdownSends, ShutdownGoesOn, ShutdownChecks, ShutdownResets, listVars
  <2> QED BY <2>1 DEF NoLostNotify
<1>8. CASE Environment
  BY <1>8, NotifyFrame DEF Environment, Store, listVars, NoneStartsToWait
<1>9. CASE UNCHANGED vars
  BY <1>9, NotifyFrame DEF vars, listVars, threadVars, NoneStartsToWait
<1> QED BY <1>1, <1>2, <1>3, <1>4, <1>5, <1>6, <1>7, <1>8, <1>9 DEF Next

-----------------------------------------------------------------------------
(* What a step does to the Java queue.                                     *)

\* The youngest of a type stays it when one of another type is queued,
LEMMA LatestAppended ==
  ASSUME NEW q \in Seq(Events), NEW w, NEW y, IsLatest(w, y, q), NEW e \in Events,
         EventType(e) # y
  PROVE  IsLatest(w, y, Append(q, e))
<1> DEFINE N == Len(q)
           r == Append(q, e)
<1>1. N \in Nat /\ DOMAIN q = 1 .. N
  OBVIOUS
<1>2. /\ Len(r) = N + 1 /\ DOMAIN r = 1 .. N + 1 /\ r[N + 1] = e
      /\ \A k \in 1 .. N : r[k] = q[k]
  OBVIOUS
<1>3. PICK k \in 1 .. N : q[k] = w /\ \A j \in k + 1 .. N : EventType(q[j]) # y
  BY <1>1 DEF IsLatest
<1> HIDE DEF N, r
<1>4. ASSUME NEW j \in k + 1 .. N + 1 PROVE EventType(r[j]) # y
  <2>1. j = N + 1 \/ (j \in k + 1 .. N /\ j \in 1 .. N)
    BY <1>1
  <2> QED BY <1>2, <1>3, <2>1, Zenon
<1>5. k \in 1 .. N + 1 /\ r[k] = w
  BY <1>1, <1>2, <1>3
<1>6. IsLatest(w, y, r)
  BY <1>2, <1>4, <1>5 DEF IsLatest
<1> QED BY <1>6 DEF r

\* when an older one is unlinked,
LEMMA LatestRemoved ==
  ASSUME NEW q \in Seq(Events), NEW w, NEW y, IsLatest(w, y, q), NEW i \in DOMAIN q, q[i] # w
  PROVE  IsLatest(w, y, RemoveAt(q, i))
<1> DEFINE N == Len(q)
           r == RemoveAt(q, i)
<1>1. N \in Nat /\ DOMAIN q = 1 .. N
  OBVIOUS
<1>2. /\ Len(r) = N - 1 /\ DOMAIN r = 1 .. N - 1
      /\ \A k \in 1 .. N - 1 : r[k] = IF k < i THEN q[k] ELSE q[k + 1]
  <2>1. r \in Seq(Events) /\ Len(r) = N - 1
        /\ \A k \in 1 .. N - 1 : r[k] = IF k < i THEN q[k] ELSE q[k + 1]
    BY RemovedAt
  <2> QED BY <2>1
<1>3. PICK k \in 1 .. N : q[k] = w /\ \A j \in k + 1 .. N : EventType(q[j]) # y
  BY <1>1 DEF IsLatest
<1> HIDE DEF N, r
<1> DEFINE m == IF k < i THEN k ELSE k - 1
<1>4. /\ m \in 1 .. N - 1 /\ i \in 1 .. N
      /\ \/ k < i /\ m = k
         \/ i < k /\ m = k - 1 /\ ~(m < i) /\ m + 1 = k
  BY <1>1, <1>3
<1>5. r[m] = w
  BY <1>2, <1>3, <1>4
<1>6. ASSUME NEW j \in m + 1 .. N - 1 PROVE EventType(r[j]) # y
  <2>1. /\ j \in 1 .. N - 1 /\ (j < i => j \in k + 1 .. N)
        /\ (~(j < i) => j + 1 \in k + 1 .. N)
    BY <1>1, <1>4
  <2> QED BY <1>2, <1>3, <2>1
<1> HIDE DEF m
<1>7. IsLatest(w, y, r)
  BY <1>2, <1>4, <1>5, <1>6 DEF IsLatest
<1> QED BY <1>7 DEF r

\* and when the oldest one is.
LEMMA LatestTail ==
  ASSUME NEW q \in Seq(Events), NEW w, NEW y, IsLatest(w, y, q), q # << >>, w # Head(q)
  PROVE  IsLatest(w, y, Tail(q))
<1> DEFINE N == Len(q)
           r == Tail(q)
<1>1. N \in Nat /\ DOMAIN q = 1 .. N /\ Head(q) = q[1] /\ N > 0
  OBVIOUS
<1>2. /\ Len(r) = N - 1 /\ DOMAIN r = 1 .. N - 1
      /\ \A k \in 1 .. N - 1 : r[k] = q[k + 1]
  BY <1>1
<1>3. PICK k \in 1 .. N : q[k] = w /\ \A j \in k + 1 .. N : EventType(q[j]) # y
  BY <1>1 DEF IsLatest
<1> HIDE DEF N, r
<1>4. k # 1
  BY <1>1, <1>3
<1> DEFINE m == k - 1
<1>5. m \in 1 .. N - 1 /\ m + 1 = k
  BY <1>1, <1>3, <1>4
<1>6. r[m] = w
  BY <1>2, <1>3, <1>5
<1>7. ASSUME NEW j \in m + 1 .. N - 1 PROVE EventType(r[j]) # y
  <2>1. j \in 1 .. N - 1 /\ j + 1 \in k + 1 .. N
    BY <1>1, <1>5
  <2> QED BY <1>2, <1>3, <2>1
<1> HIDE DEF m
<1>8. IsLatest(w, y, r)
  BY <1>2, <1>5, <1>6, <1>7 DEF IsLatest
<1> QED BY <1>8 DEF r

\* An event is the youngest one of its type when it is queued.
LEMMA LatestNew ==
  ASSUME NEW q \in Seq(Events), NEW e \in Events
  PROVE  IsLatest(e, EventType(e), Append(q, e))
<1> DEFINE N == Len(q)
           r == Append(q, e)
<1>1. /\ N \in Nat /\ Len(r) = N + 1 /\ DOMAIN r = 1 .. N + 1 /\ r[N + 1] = e
      /\ N + 1 \in 1 .. N + 1
  OBVIOUS
<1> HIDE DEF N, r
<1>2. \A j \in (N + 1) + 1 .. N + 1 : FALSE
  BY <1>1
<1>3. IsLatest(e, EventType(e), r)
  BY <1>1, <1>2 DEF IsLatest
<1> QED BY <1>3 DEF r

\* The references after a step.
LEMMA ChainBecomes ==
  ASSUME NEW i \in Isolates, NEW q, IsChain(q, nextEvent'[i], lastEvent'[i], next'[i])
  PROVE  List(i)' = q /\ ChainOf(i)'
<1>1. Linked(nextEvent'[i], next'[i]) = q
  BY LinkedIs
<1>2. List(i)' = Linked(nextEvent'[i], next'[i])
  BY DEF List
<1>3. ChainOf(i)' <=> IsChain(List(i)', nextEvent'[i], lastEvent'[i], next'[i])
  BY DEF ChainOf
<1> QED BY <1>1, <1>2, <1>3, Zenon
(* The history variables have an entry for each isolate.                   *)
Domains == DOMAIN gone = Isolates /\ DOMAIN accepted = Isolates

\* They keep it.
LEMMA DomainsStep ==
  ASSUME Domains, [Next]_vars
  PROVE  Domains'
<1> USE DEF Domains
<1>1. DOMAIN gone' = Isolates
  <2>1. ASSUME NEW i \in Isolates, NEW e, NEW wanted, Post(i, e, wanted) PROVE DOMAIN gone' = Isolates
    BY <2>1 DEF Post
  <2>2. ASSUME NEW i \in Isolates, Monitor(i) \/ Java(i) PROVE DOMAIN gone' = Isolates
    BY <2>1, <2>2 DEF Monitor, Java, WaitReads, WaitBlocks, MonitorDrains, MonitorFindsNone,
                      MonitorPosts, JavaPost, Register, RemoveEvent
  <2>3. ASSUME NEW i \in Isolates, Dispatcher(i) PROVE DOMAIN gone' = Isolates
    BY <2>3 DEF Dispatcher, DispatchStart, DispatchWaits, Dispatch, Process
  <2>4. ASSUME NEW i \in Isolates, Start(i) \/ Finalize(i) \/ StopTask(i) \/ Throws(i)
        PROVE  DOMAIN gone' = Isolates
    BY <2>4 DEF Start, Finalize, StopTask, Throws, MonitorThrows, ProcessThrows
  <2>5. ASSUME NEW c \in Callers, ShutdownSends(c) \/ ShutdownGoesOn(c)
        PROVE  DOMAIN gone' = Isolates
    BY <2>5 DEF ShutdownSends, ShutdownGoesOn, ShutdownChecks, ShutdownResets
  <2>6. Environment \/ UNCHANGED vars => gone' = gone
    BY DEF Environment, Store, vars
  <2> QED BY <2>2, <2>3, <2>4, <2>5, <2>6, Sizes DEF Next
<1>2. DOMAIN accepted' = Isolates
  <2>1. ASSUME NEW S, NEW e, NEW mon, StoreIn(S, e, mon) PROVE DOMAIN accepted' = Isolates
    BY <2>1 DEF StoreIn
  <2>2. ASSUME NEW i \in Isolates, Monitor(i) \/ Java(i) \/ Dispatcher(i)
        PROVE  DOMAIN accepted' = Isolates
    BY <2>2 DEF Monitor, Java, WaitReads, WaitBlocks, MonitorDrains, MonitorFindsNone,
                MonitorPosts, JavaPost, Register, RemoveEvent,
                Dispatcher, DispatchStart, DispatchWaits, Dispatch, Process
  <2>3. ASSUME NEW i \in Isolates, Start(i) \/ Finalize(i) \/ StopTask(i) \/ Throws(i)
        PROVE  DOMAIN accepted' = Isolates
    BY <2>1, <2>3 DEF Start, Finalize, StopTask, Throws, MonitorThrows, ProcessThrows,
                      HandleFatalError
  <2>4. ASSUME NEW c \in Callers, ShutdownSends(c) \/ ShutdownGoesOn(c)
        PROVE  DOMAIN accepted' = Isolates
    BY <2>1, <2>4 DEF ShutdownSends, ShutdownGoesOn, ShutdownChecks, ShutdownResets
  <2>5. Environment \/ UNCHANGED vars => DOMAIN accepted' = Isolates
    BY <2>1 DEF Environment, Store, vars
  <2> QED BY <2>2, <2>3, <2>4, <2>5, Sizes DEF Next
<1> QED BY <1>1, <1>2

\* There is no listener for a shutdown event.
LEMMA NoListener == \A e \in Callers : EventType(e) \notin Types
BY Names DEF EventType

(* The Java queue of j stays as it is.                                     *)
JavaStill(j) ==
  /\ nextEvent'[j] = nextEvent[j] /\ lastEvent'[j] = lastEvent[j]
  /\ next'[j] = next[j] /\ waitingEvent'[j] = waitingEvent[j]

\* So does all that is said of it.
LEMMA JavaStays ==
  ASSUME NEW j \in Isolates, JavaStill(j), ChainOf(j), LatestOf(j)
  PROVE  List(j)' = List(j) /\ ChainOf(j)' /\ LatestOf(j)'
<1>1. List(j)' = List(j) /\ ChainOf(j)'
  BY ChainBecomes DEF ChainOf, JavaStill
<1>2. LatestOf(j)'
  BY <1>1 DEF LatestOf, JavaStill
<1> QED BY <1>1, <1>2

\* post(), of an event that is not in the queue, leaves other queues alone
LEMMA PostsHere ==
  ASSUME TypesInv, Domains, NEW i \in Isolates, NEW e, NEW wanted, Post(i, e, wanted),
         NEW j \in Isolates, j # i
  PROVE  JavaStill(j) /\ disp'[j] = disp[j] /\ gone'[j] = gone[j]
<1> USE DEF TypesInv, ListTypes, ThreadTypes
<1>1. CASE Accepts(i, e, wanted)
  <2>1. waitingEvent'[j] = waitingEvent[j]
    BY <1>1 DEF Post
  <2>2. next'[j] = next[j]
    BY <1>1 DEF Post
  <2>3. nextEvent'[j] = nextEvent[j] /\ lastEvent'[j] = lastEvent[j] /\ gone'[j] = gone[j]
    BY <1>1 DEF Post
  <2>4. disp'[j] = disp[j]
    BY <1>1 DEF Post, NotifyAll
  <2> QED BY <2>1, <2>2, <2>3, <2>4 DEF JavaStill
<1>2. CASE ~ Accepts(i, e, wanted)
  <2>1. UNCHANGED <<listVars, disp>> /\ gone' = [gone EXCEPT ![i] = @ \cup {e}]
    BY <1>2 DEF Post
  <2> QED BY <2>1 DEF JavaStill, listVars, Domains
<1> QED BY <1>1, <1>2

\* and appends it to this one,
LEMMA PostQueues ==
  ASSUME TypesInv, NEW i \in Isolates, ChainOf(i), LatestOf(i), NEW e \in Events,
         e \notin Elems(List(i)), NEW wanted, Post(i, e, wanted), Accepts(i, e, wanted)
  PROVE  /\ List(i)' = Append(List(i), e) /\ ChainOf(i)' /\ LatestOf(i)' /\ gone' = gone
<1> USE DEF TypesInv, ListTypes
<1> DEFINE q == List(i)
<1>1. /\ nextEvent'[i] = IF lastEvent[i] = None THEN e ELSE nextEvent[i]
      /\ lastEvent'[i] = e /\ gone' = gone
  BY DEF Post
<1>2. next'[i] = IF lastEvent[i] = None THEN next[i] ELSE [next[i] EXCEPT ![lastEvent[i]] = e]
  BY DEF Post
<1>3. IsChain(Append(q, e), nextEvent'[i], lastEvent'[i], next'[i])
  <2>1. IsChain(q, nextEvent[i], lastEvent[i], next[i])
    BY DEF ChainOf
  <2> HIDE DEF q
  <2>2. IsChain(Append(q, e), IF lastEvent[i] = None THEN e ELSE nextEvent[i], e,
                IF lastEvent[i] = None THEN next[i] ELSE [next[i] EXCEPT ![lastEvent[i]] = e])
    BY <2>1, ChainAppended, Zenon DEF q
  <2> QED BY <1>1, <1>2, <2>2, Zenon
<1>4. List(i)' = Append(q, e) /\ ChainOf(i)'
  BY <1>3, ChainBecomes
<1>5. LatestOf(i)'
  <2>1. q \in Seq(Events)
    BY DEF ChainOf, IsChain
  <2> HIDE DEF q
  <2>2. ASSUME NEW y \in Types, waitingEvent'[i][y] # None
        PROVE  IsLatest(waitingEvent'[i][y], y, Append(q, e))
    <3>1. CASE y = EventType(e)
      <4>1. e \notin Callers
        BY <3>1, NoListener
      <4>2. waitingEvent'[i][y] = e
        BY <3>1, <4>1 DEF Post
      <4> QED BY <2>1, <3>1, <4>2, LatestNew
    <3>2. CASE y # EventType(e)
      <4>1. waitingEvent'[i][y] = waitingEvent[i][y]
        BY <3>2 DEF Post
      <4>2. IsLatest(waitingEvent[i][y], y, q)
        BY <2>2, <4>1 DEF LatestOf, q
      <4> QED BY <2>1, <3>2, <4>1, <4>2, LatestAppended
    <3> QED BY <3>1, <3>2
  <2> QED BY <1>4, <2>2 DEF LatestOf
<1> QED BY <1>1, <1>4, <1>5

\* or does not.
LEMMA PostRefuses ==
  ASSUME TypesInv, NEW i \in Isolates, ChainOf(i), LatestOf(i), NEW e,
         NEW wanted, Post(i, e, wanted), ~ Accepts(i, e, wanted), Domains
  PROVE  /\ List(i)' = List(i) /\ ChainOf(i)' /\ LatestOf(i)'
         /\ gone'[i] = gone[i] \cup {e} /\ disp' = disp
<1>1. UNCHANGED <<listVars, disp>> /\ gone' = [gone EXCEPT ![i] = @ \cup {e}]
  BY DEF Post
<1>2. JavaStill(i)
  BY <1>1 DEF JavaStill, listVars
<1> QED BY <1>1, <1>2, JavaStays DEF Domains
\* run() unlinks the oldest event, and no listener is given it any more.
LEMMA DispatchQueues ==
  ASSUME TypesInv, NEW i \in Isolates, ChainOf(i), LatestOf(i), Dispatch(i)
  PROVE  /\ List(i) # << >> /\ nextEvent[i] = Head(List(i))
         /\ List(i)' = Tail(List(i)) /\ ChainOf(i)' /\ LatestOf(i)'
<1> USE DEF TypesInv, ListTypes
<1> DEFINE q == List(i)
           e == nextEvent[i]
<1>1. /\ e # None /\ nextEvent'[i] = next[i][e]
      /\ next'[i] = [next[i] EXCEPT ![e] = None]
      /\ lastEvent'[i] = IF next[i][e] = None THEN None ELSE lastEvent[i]
  BY DEF Dispatch
<1>2. IsChain(q, e, lastEvent[i], next[i])
  BY DEF ChainOf
<1>3. /\ q # << >> /\ e = Head(q) /\ e \in Events
      /\ IsChain(Tail(q), next[i][e], IF next[i][e] = None THEN None ELSE lastEvent[i],
                 [next[i] EXCEPT ![e] = None])
  <2> HIDE DEF q, e
  <2> QED BY <1>1, <1>2, ChainTail, Zenon
<1>4. List(i)' = Tail(q) /\ ChainOf(i)'
  <2>1. IsChain(Tail(q), nextEvent'[i], lastEvent'[i], next'[i])
    <3> HIDE DEF q, e
    <3> QED BY <1>1, <1>3, Zenon
  <2> QED BY <2>1, ChainBecomes
<1>5. q \in Seq(Events)
  BY <1>2 DEF IsChain
<1>6. ASSUME NEW y \in Types, waitingEvent'[i][y] # None
      PROVE  IsLatest(waitingEvent'[i][y], y, Tail(q))
  <2>1. \/ e \in Callers /\ waitingEvent' = waitingEvent
        \/ waitingEvent' = [waitingEvent EXCEPT ![i] = WaitingAfter(i, e)]
    BY DEF Dispatch
  <2>2. waitingEvent'[i][y] = waitingEvent[i][y]
    BY <1>6, <2>1 DEF WaitingAfter
  <2>3. IsLatest(waitingEvent[i][y], y, q)
    BY <1>6, <2>2 DEF LatestOf
  <2>4. waitingEvent[i][y] # e
    <3>1. CASE e \in Callers /\ waitingEvent' = waitingEvent
      <4>1. EventType(waitingEvent[i][y]) = y
        BY <2>3 DEF IsLatest
      <4> QED BY <3>1, <4>1, NoListener
    <3>2. CASE waitingEvent' = [waitingEvent EXCEPT ![i] = WaitingAfter(i, e)]
      BY <1>6, <3>2 DEF WaitingAfter
    <3> QED BY <2>1, <3>1, <3>2
  <2> HIDE DEF q, e
  <2> QED BY <1>3, <1>5, <2>2, <2>3, <2>4, LatestTail
<1>7. LatestOf(i)'
  BY <1>4, <1>6 DEF LatestOf
<1> QED BY <1>3, <1>4, <1>7

(* The k-th event of the Java queue of i is taken out of it.               *)
TakesOut(i, k) ==
  /\ k \in DOMAIN List(i) /\ List(i)' = RemoveAt(List(i), k)
  /\ gone' = [gone EXCEPT ![i] = @ \cup {List(i)[k]}]

\* remove() unlinks one, and no listener is given it any more.
LEMMA RemoveQueues ==
  ASSUME TypesInv, NEW i \in Isolates, ChainOf(i), LatestOf(i), NEW y \in Types, RemoveEvent(i, y)
  PROVE  (\E k \in DOMAIN List(i) : TakesOut(i, k)) /\ ChainOf(i)' /\ LatestOf(i)'
<1> USE DEF TypesInv, ListTypes
<1> DEFINE q == List(i)
<1>1. PICK k \in 1 .. Len(q) :
        /\ EventType(q[k]) = y
        /\ waitingEvent' = [waitingEvent EXCEPT ![i][y] = IF @ = q[k] THEN None ELSE @]
        /\ nextEvent' = [nextEvent EXCEPT ![i] = IF @ = q[k] THEN next[i][q[k]] ELSE @]
        /\ lastEvent' = [lastEvent EXCEPT ![i] =
                           LastWithout(i, q[k], IF k = 1 THEN None ELSE q[k - 1])]
        /\ next' = [next EXCEPT ![i] = [e \in Events |->
                      IF e = q[k] THEN None
                      ELSE IF e = (IF k = 1 THEN None ELSE q[k - 1]) THEN next[i][q[k]]
                      ELSE next[i][e]]]
        /\ gone' = [gone EXCEPT ![i] = @ \cup {q[k]}]
  BY Zenon DEF RemoveEvent
<1> DEFINE x == q[k]
           prev == IF k = 1 THEN None ELSE q[k - 1]
<1>2. IsChain(q, nextEvent[i], lastEvent[i], next[i])
  BY DEF ChainOf
<1>3. q \in Seq(Events) /\ k \in DOMAIN q
  BY <1>2 DEF IsChain
<1>4. /\ nextEvent'[i] = IF nextEvent[i] = x THEN next[i][x] ELSE nextEvent[i]
      /\ lastEvent'[i] = IF x = lastEvent[i] THEN prev ELSE lastEvent[i]
      /\ next'[i] = [e \in Events |-> IF e = x THEN None
                                      ELSE IF e = prev THEN next[i][x] ELSE next[i][e]]
  BY <1>1 DEF LastWithout
<1>5. IsChain(RemoveAt(q, k), IF nextEvent[i] = x THEN next[i][x] ELSE nextEvent[i],
              IF x = lastEvent[i] THEN prev ELSE lastEvent[i],
              [e \in Events |-> IF e = x THEN None
                                ELSE IF e = prev THEN next[i][x] ELSE next[i][e]])
  <2>1. k \in DOMAIN q /\ x = q[k] /\ prev = IF k = 1 THEN None ELSE q[k - 1]
    BY <1>3
  <2> HIDE DEF q, x, prev
  <2> QED BY <1>2, <2>1, ChainRemoved, SMTT(30)
<1>6. List(i)' = RemoveAt(q, k) /\ ChainOf(i)'
  <2>1. IsChain(RemoveAt(q, k), nextEvent'[i], lastEvent'[i], next'[i])
    <3> HIDE DEF q, x, prev
    <3> QED BY <1>4, <1>5, Zenon
  <2> QED BY <2>1, ChainBecomes
<1>7. ASSUME NEW z \in Types, waitingEvent'[i][z] # None
      PROVE  IsLatest(waitingEvent'[i][z], z, RemoveAt(q, k))
  <2>1. waitingEvent'[i][z] = IF z = y THEN IF waitingEvent[i][y] = x THEN None
                                            ELSE waitingEvent[i][y]
                              ELSE waitingEvent[i][z]
    BY <1>1
  <2>2. waitingEvent'[i][z] = waitingEvent[i][z]
    BY <1>7, <2>1
  <2>3. IsLatest(waitingEvent[i][z], z, q)
    BY <1>7, <2>2 DEF LatestOf
  <2>4. x # waitingEvent[i][z]
    <3>1. EventType(waitingEvent[i][z]) = z
      BY <2>3 DEF IsLatest
    <3> HIDE DEF q
    <3> QED BY <1>1, <1>7, <2>1, <3>1
  <2> HIDE DEF q
  <2> QED BY <1>3, <2>2, <2>3, <2>4, LatestRemoved
<1>8. LatestOf(i)'
  BY <1>6, <1>7 DEF LatestOf
<1>9. TakesOut(i, k)
  BY <1>1, <1>3, <1>6 DEF TakesOut
<1> QED BY <1>3, <1>6, <1>8, <1>9

\* Nothing is left of the queue of an isolate that is stopped.
LEMMA StopQueues ==
  ASSUME TypesInv, NEW i \in Isolates, StopTask(i)
  PROVE  List(i)' = << >> /\ ChainOf(i)' /\ LatestOf(i)'
<1> USE DEF TypesInv, ListTypes
<1>1. /\ nextEvent'[i] = None /\ lastEvent'[i] = None /\ next'[i] = [e \in Events |-> None]
      /\ waitingEvent'[i] = [y \in Types |-> None]
  BY DEF StopTask
<1>2. IsChain(<< >>, nextEvent'[i], lastEvent'[i], next'[i])
  BY <1>1, ChainOfNone
<1>3. List(i)' = << >> /\ ChainOf(i)'
  BY <1>2, ChainBecomes
<1>4. LatestOf(i)'
  BY <1>1 DEF LatestOf
<1> QED BY <1>3, <1>4
-----------------------------------------------------------------------------
(* One step for each action.                                               *)

(* The threads of j go on with what they do; its monitor thread may be     *)
(* woken.                                                                  *)
HoldsStill(j) ==
  /\ held'[j] = held[j] /\ current'[j] = current[j] /\ disp'[j] = disp[j]
  /\ left'[j] = left[j] /\ gone'[j] = gone[j] /\ phase'[j] = phase[j]

Woken(j) == monitor'[j] = monitor[j] \/ (monitor[j] = "blocked" /\ monitor'[j] = "wait")

RingStill(j) ==
  /\ ring'[j] = ring[j] /\ eventOut'[j] = eventOut[j] /\ numEvents'[j] = numEvents[j]
  /\ accepted'[j] = accepted[j]

\* They hold what they held.
LEMMA ThreadsStay ==
  ASSUME NEW j \in Isolates, ThreadsOf(j), HoldsStill(j), Woken(j), nextEvent'[j] = nextEvent[j]
  PROVE  ThreadsOf(j)'
BY DEF ThreadsOf, HoldsStill, Woken

\* Other isolates are not concerned.
LEMMA StillKeeps ==
  ASSUME NEW j \in Isolates, QueueInv(j), JavaStill(j), HoldsStill(j), Woken(j), RingStill(j),
         Known \subseteq Known'
  PROVE  QueueInv(j)'
<1>1. ThreadsOf(j)'
  BY ThreadsStay DEF QueueInv, JavaStill
<1>2. List(j)' = List(j) /\ ChainOf(j)' /\ LatestOf(j)'
  BY JavaStays DEF QueueInv
<1>3. Pending(j)' = Pending(j)
  BY PendingSame DEF RingStill
<1>4. Way(current[j], List(j), held[j], Pending(j), accepted[j], gone[j], phase[j] = "on", Known')
  BY WayKnown, Zenon DEF QueueInv, OrderOf
<1>5. OrderOf(j)'
  BY <1>2, <1>3, <1>4 DEF OrderOf, HoldsStill, RingStill
<1> QED BY <1>1, <1>2, <1>5 DEF QueueInv

\* A store wakes a monitor thread only from its sleep.
LEMMA StoreWakes ==
  ASSUME IInv, NEW S, NEW e, NEW mon, StoreIn(S, e, mon), NEW j \in Isolates, mon[j] = monitor[j]
  PROVE  Woken(j)
<1>1. monitor'[j] = monitor[j] \/ (Wakes(j) /\ monitor'[j] = "wait")
  BY DEF StoreIn
<1>2. Wakes(j) => monitor[j] = "blocked"
  BY DEF Wakes, IInv, MonitorInv, UnblocksBlockedThread
<1> QED BY <1>1, <1>2 DEF Woken

\* What a store does to the ring of j.
LEMMA StoreRing ==
  ASSUME IInv, NEW S, NEW e \in Events, NEW mon, StoreIn(S, e, mon), NEW j \in Isolates
  PROVE  \/ RingStill(j)
         \/ /\ Pending(j)' = Append(Pending(j), e) /\ accepted'[j] = Append(accepted[j], e)
            /\ j \in S
<1>1. CASE j \in S /\ ~ Full(j)
  <2>1. Pending(j)' = Append(Pending(j), e)
    BY <1>1, PendingStored DEF IInv
  <2>2. accepted'[j] = Append(accepted[j], e)
    BY <1>1 DEF StoreIn
  <2> QED BY <1>1, <2>1, <2>2
<1>2. CASE ~(j \in S /\ ~ Full(j))
  BY <1>2 DEF StoreIn, RingStill
<1> QED BY <1>1, <1>2

\* Only the rings it is sent to are concerned.
LEMMA StoredElsewhere ==
  ASSUME NEW S, NEW e, NEW mon, StoreIn(S, e, mon), NEW j \in Isolates, j \notin S
  PROVE  RingStill(j)
BY DEF StoreIn, RingStill

\* A new event is stored.
LEMMA StoredKeeps ==
  ASSUME IInv, NEW S, NEW e \in NotJava, NEW mon, StoreIn(S, e, mon),
         e \notin Known, Known \cup {e} \subseteq Known',
         NEW j \in Isolates, QueueInv(j), mon[j] = monitor[j], JavaStill(j), HoldsStill(j)
  PROVE  QueueInv(j)'
<1>0. Woken(j) /\ Known \subseteq Known' /\ e \in Events
  BY StoreWakes DEF NotJava
<1>1. CASE RingStill(j)
  BY <1>0, <1>1, StillKeeps
<1>2. CASE Pending(j)' = Append(Pending(j), e) /\ accepted'[j] = Append(accepted[j], e)
  <2>1. ThreadsOf(j)'
    BY <1>0, ThreadsStay DEF QueueInv, JavaStill
  <2>2. List(j)' = List(j) /\ ChainOf(j)' /\ LatestOf(j)'
    BY JavaStays DEF QueueInv
  <2>3. Way(current[j], List(j), held[j], Append(Pending(j), e), Append(accepted[j], e), gone[j],
            phase[j] = "on", Known')
    BY WayStored, Zenon DEF QueueInv, OrderOf
  <2>4. OrderOf(j)'
    BY <1>2, <2>2, <2>3 DEF OrderOf, HoldsStill
  <2> QED BY <2>1, <2>2, <2>4 DEF QueueInv
<1> QED BY <1>0, <1>1, <1>2, StoreRing

(* What the step lemmas assume, and what they prove.                       *)
Before == IInv /\ TypesInv /\ Domains /\ \A j \in Isolates : QueueInv(j)

After == \A j \in Isolates : QueueInv(j)'

\* A step of isolate i that does not send anything.
LEMMA OnlyOne ==
  ASSUME Before, NEW i \in Isolates, QueueInv(i)', Known \subseteq Known',
         \A j \in Isolates \ {i} : JavaStill(j) /\ HoldsStill(j) /\ Woken(j) /\ RingStill(j)
  PROVE  After
BY StillKeeps DEF Before, After

\* The monitor thread reads an event.
LEMMA ReadsStep ==
  ASSUME Before, NEW i \in Isolates, WaitReads(i) \/ MonitorDrains(i)
  PROVE  After
<1> DEFINE e == ring[i][eventOut[i]]
<1>1. /\ Take(i) /\ held' = [held EXCEPT ![i] = e] /\ monitor' = [monitor EXCEPT ![i] = "post"]
      /\ UNCHANGED <<listVars, disp, current, shut, phase, used, accepted, gone>>
      /\ monitor[i] # "post"
  BY DEF WaitReads, MonitorDrains
<1>2. \A j \in Isolates \ {i} : left'[j] = left[j]
  BY DEF WaitReads, MonitorDrains, Before, TypesInv, ThreadTypes
<1>3. Known' = Known
  BY <1>1 DEF Known
<1>4. \A j \in Isolates \ {i} : JavaStill(j) /\ HoldsStill(j) /\ Woken(j) /\ RingStill(j)
  BY <1>1, <1>2 DEF Before, IInv, RingInv, RingTypes, TypesInv, ThreadTypes, listVars, JavaStill,
                    HoldsStill, Woken, RingStill, Take
<1>5. QueueInv(i)'
  <2>1. QueueInv(i) /\ JavaStill(i)
    BY <1>1 DEF Before, JavaStill, listVars
  <2>2. /\ e \in Events /\ Pending(i)' \in Seq(Events)
        /\ Pending(i) = <<e>> \o Pending(i)'
    BY <1>1, PendingTaken DEF Before, IInv
  <2>3. List(i)' = List(i) /\ ChainOf(i)' /\ LatestOf(i)'
    BY <2>1, JavaStays DEF QueueInv
  <2>4. held[i] = None
    BY <1>1, <2>1 DEF QueueInv, ThreadsOf
  <2>5. held'[i] = e /\ monitor'[i] = "post"
    BY <1>1 DEF Before, TypesInv, ThreadTypes
  <2>6. ThreadsOf(i)'
    BY <1>1, <2>1, <2>2, <2>5, Names DEF QueueInv, ThreadsOf, listVars
  <2>7. Way(current[i], List(i), None, Pending(i), accepted[i], gone[i], phase[i] = "on", Known)
    BY <2>1, <2>4 DEF QueueInv, OrderOf
  <2>8. Way(current[i], List(i), e, Pending(i)', accepted[i], gone[i], phase[i] = "on", Known)
    <3> DEFINE p == Pending(i)'
    <3> HIDE DEF e, p
    <3> QED BY <2>2, <2>7, WayRead, Zenon DEF p
  <2>9. OrderOf(i)'
    BY <1>1, <1>3, <2>3, <2>5, <2>8 DEF OrderOf
  <2> QED BY <2>3, <2>6, <2>9 DEF QueueInv
<1> QED BY <1>3, <1>4, <1>5, OnlyOne

\* It waits again.
LEMMA WaitsStep ==
  ASSUME Before, NEW i \in Isolates, WaitBlocks(i) \/ MonitorFindsNone(i)
  PROVE  After
<1>1. /\ UNCHANGED <<ring, numEvents, eventOut, listVars, held, left, disp, current, shut, phase,
                     used, accepted, gone>>
      /\ monitor[i] \in {"wait", "drain"} /\ monitor'[i] \in {"wait", "blocked"}
      /\ \A j \in Isolates \ {i} : monitor'[j] = monitor[j]
  BY DEF WaitBlocks, MonitorFindsNone, ringVars, Before, TypesInv, ThreadTypes
<1>2. Known' = Known
  BY <1>1 DEF Known
<1>3. \A j \in Isolates : JavaStill(j) /\ HoldsStill(j) /\ RingStill(j)
  BY <1>1 DEF listVars, JavaStill, HoldsStill, RingStill
<1>4. QueueInv(i)'
  <2>1. QueueInv(i)
    BY DEF Before
  <2>2. List(i)' = List(i) /\ ChainOf(i)' /\ LatestOf(i)'
    BY <1>3, <2>1, JavaStays DEF QueueInv
  <2>3. ThreadsOf(i)'
    BY <1>1, <2>1 DEF QueueInv, ThreadsOf, listVars
  <2>4. Pending(i)' = Pending(i)
    BY <1>3, PendingSame DEF RingStill
  <2>5. OrderOf(i)'
    BY <1>1, <1>2, <2>1, <2>2, <2>4 DEF QueueInv, OrderOf
  <2> QED BY <2>2, <2>3, <2>5 DEF QueueInv
<1> QED BY <1>1, <1>2, <1>3, <1>4, OnlyOne DEF Woken
\* What the threads of i hold after a step that neither gives the dispatch
\* thread something to process nor takes it away.
LEMMA PostThreads ==
  ASSUME TypesInv, NEW i \in Isolates, NEW e, NEW wanted, Post(i, e, wanted)
  PROVE  \/ disp'[i] = disp[i]
         \/ disp[i] = "waiting" /\ disp'[i] = "run"
<1> USE DEF TypesInv, ThreadTypes
<1>1. CASE Accepts(i, e, wanted)
  BY <1>1 DEF Post, NotifyAll
<1>2. CASE ~ Accepts(i, e, wanted)
  BY <1>2 DEF Post
<1> QED BY <1>1, <1>2

\* The monitor thread posts the event it holds.
LEMMA PostsStep ==
  ASSUME Before, NEW i \in Isolates, NEW wanted \in BOOLEAN, MonitorPosts(i, wanted)
  PROVE  After
<1> DEFINE e == held[i]
<1>1. /\ monitor[i] = "post" /\ phase[i] = "on" /\ Post(i, e, wanted)
      /\ held' = [held EXCEPT ![i] = None]
      /\ monitor' = [monitor EXCEPT ![i] = IF left[i] > 0 THEN "drain" ELSE "wait"]
      /\ UNCHANGED <<ringVars, left, current, phase, vm, used, accepted>>
  BY DEF MonitorPosts, Running
<1>2. QueueInv(i) /\ TypesInv /\ Domains
  BY DEF Before
<1>3. Known \subseteq Known'
  <2>1. shut' = CallersNotified(i) \/ shut' = shut
    BY <1>1 DEF Post, NotifyAll
  <2>2. CallersStaySent
    BY <1>2, <2>1, NotifiedStaySent DEF TypesInv
  <2> QED BY <1>1, <2>2, KnownGrows
<1>4. \A j \in Isolates \ {i} : JavaStill(j) /\ HoldsStill(j) /\ Woken(j) /\ RingStill(j)
  <2> SUFFICES ASSUME NEW j \in Isolates \ {i}
               PROVE  JavaStill(j) /\ HoldsStill(j) /\ Woken(j) /\ RingStill(j)
    OBVIOUS
  <2>1. JavaStill(j) /\ disp'[j] = disp[j] /\ gone'[j] = gone[j]
    BY <1>1, <1>2, PostsHere
  <2>2. held'[j] = held[j] /\ monitor'[j] = monitor[j]
    BY <1>1, <1>2 DEF TypesInv, ThreadTypes
  <2> QED BY <1>1, <2>1, <2>2 DEF HoldsStill, Woken, RingStill, ringVars
<1>5. e \in Events /\ e # None /\ e \notin Elems(List(i))
  BY <1>1, <1>2 DEF QueueInv, ThreadsOf, OrderOf, Way, Parts
<1>6. /\ held'[i] = None /\ monitor'[i] = IF left[i] > 0 THEN "drain" ELSE "wait"
  BY <1>1, <1>2 DEF TypesInv, ThreadTypes
<1>7. ThreadsOf(i)'
  <2>1. disp'[i] = disp[i] \/ (disp[i] = "waiting" /\ disp'[i] = "run")
    BY <1>1, <1>2, PostThreads
  <2> QED BY <1>1, <1>2, <1>6, <2>1 DEF QueueInv, ThreadsOf
<1>8. Pending(i)' = Pending(i)
  BY <1>1, PendingSame DEF ringVars
<1>9. Way(current[i], List(i), e, Pending(i), accepted[i], gone[i], TRUE, Known')
  <2>1. Way(current[i], List(i), e, Pending(i), accepted[i], gone[i], TRUE, Known)
    BY <1>1, <1>2 DEF QueueInv, OrderOf
  <2> QED BY <1>3, <2>1, WayKnown, Zenon
<1>10. CASE Accepts(i, e, wanted)
  <2>1. List(i)' = Append(List(i), e) /\ ChainOf(i)' /\ LatestOf(i)' /\ gone' = gone
    BY <1>1, <1>2, <1>5, <1>10, PostQueues DEF QueueInv
  <2>2. Way(current[i], Append(List(i), e), None, Pending(i), accepted[i], gone[i], TRUE, Known')
    BY <1>5, <1>9, WayPosted, Zenon
  <2>3. OrderOf(i)'
    BY <1>1, <1>6, <1>8, <2>1, <2>2 DEF OrderOf
  <2>4. QueueInv(i)'
    BY <1>7, <2>1, <2>3 DEF QueueInv
  <2> QED BY <1>3, <1>4, <2>4, OnlyOne
<1>11. CASE ~ Accepts(i, e, wanted)
  <2>1. List(i)' = List(i) /\ ChainOf(i)' /\ LatestOf(i)' /\ gone'[i] = gone[i] \cup {e}
    BY <1>1, <1>2, <1>11, PostRefuses DEF QueueInv
  <2>2. Way(current[i], List(i), None, Pending(i), accepted[i], gone[i] \cup ({e} \ {None}), TRUE,
            Known')
    BY <1>9, WayDropsHeld, Zenon
  <2>3. {e} \ {None} = {e}
    BY <1>5
  <2>4. OrderOf(i)'
    BY <1>1, <1>6, <1>8, <2>1, <2>2, <2>3 DEF OrderOf
  <2>5. QueueInv(i)'
    BY <1>7, <2>1, <2>4 DEF QueueInv
  <2> QED BY <1>3, <1>4, <2>5, OnlyOne
<1> QED BY <1>10, <1>11

\* Java code posts a new event.
LEMMA JavaPostStep ==
  ASSUME Before, NEW i \in Isolates, NEW e \in JavaEvents, NEW wanted \in BOOLEAN,
         JavaPost(i, e, wanted)
  PROVE  After
<1>1. /\ e \notin used /\ used' = used \cup {e} /\ Post(i, e, wanted)
      /\ UNCHANGED <<ringVars, monitor, held, left, lock, current, phase, vm, accepted>>
  BY DEF JavaPost
<1>2. QueueInv(i) /\ TypesInv /\ Domains /\ e \in Events
  BY DEF Before, Events
<1>3. e \notin Known /\ Known \cup {e} \subseteq Known'
  <2>1. shut' = CallersNotified(i) \/ shut' = shut
    BY <1>1 DEF Post, NotifyAll
  <2>2. CallersStaySent
    BY <1>2, <2>1, NotifiedStaySent DEF TypesInv
  <2>3. Known \subseteq Known'
    BY <1>1, <2>2, KnownGrows
  <2>4. e \notin Callers
    BY Names
  <2> QED BY <1>1, <2>3, <2>4 DEF Known
<1>4. \A j \in Isolates \ {i} : JavaStill(j) /\ HoldsStill(j) /\ Woken(j) /\ RingStill(j)
  <2> SUFFICES ASSUME NEW j \in Isolates \ {i}
               PROVE  JavaStill(j) /\ HoldsStill(j) /\ Woken(j) /\ RingStill(j)
    OBVIOUS
  <2>1. JavaStill(j) /\ disp'[j] = disp[j] /\ gone'[j] = gone[j]
    BY <1>1, <1>2, PostsHere
  <2> QED BY <1>1, <2>1 DEF HoldsStill, Woken, RingStill, ringVars
<1>5. e \notin Elems(List(i))
  <2>1. Elems(List(i)) \ {None} \subseteq Known /\ e # None
    BY <1>2, Names DEF QueueInv, OrderOf, Way, Parts
  <2> QED BY <1>3, <2>1
<1>6. ThreadsOf(i)'
  <2>1. disp'[i] = disp[i] \/ (disp[i] = "waiting" /\ disp'[i] = "run")
    BY <1>1, <1>2, PostThreads
  <2>2. phase[i] = "on"
    BY DEF JavaPost, Free, Running
  <2> QED BY <1>1, <1>2, <2>1, <2>2 DEF QueueInv, ThreadsOf
<1>7. Pending(i)' = Pending(i)
  BY <1>1, PendingSame DEF ringVars
<1>8. Way(current[i], List(i), held[i], Pending(i), accepted[i], gone[i], phase[i] = "on", Known)
  BY <1>2 DEF QueueInv, OrderOf
<1>9. CASE Accepts(i, e, wanted)
  <2>1. List(i)' = Append(List(i), e) /\ ChainOf(i)' /\ LatestOf(i)' /\ gone' = gone
    BY <1>1, <1>2, <1>5, <1>9, PostQueues DEF QueueInv
  <2>2. Way(current[i], Append(List(i), e), held[i], Pending(i), accepted[i], gone[i],
            phase[i] = "on", Known')
    BY <1>3, <1>8, WayJava, Zenon
  <2>3. OrderOf(i)'
    BY <1>1, <1>7, <2>1, <2>2 DEF OrderOf
  <2>4. QueueInv(i)'
    BY <1>6, <2>1, <2>3 DEF QueueInv
  <2> QED BY <1>3, <1>4, <2>4, OnlyOne
<1>10. CASE ~ Accepts(i, e, wanted)
  <2>1. List(i)' = List(i) /\ ChainOf(i)' /\ LatestOf(i)' /\ gone'[i] = gone[i] \cup {e}
    BY <1>1, <1>2, <1>10, PostRefuses DEF QueueInv
  <2>2. Way(current[i], List(i), held[i], Pending(i), accepted[i], gone[i] \cup {e},
            phase[i] = "on", Known')
    BY <1>2, <1>3, <1>8, WayRefused, Zenon
  <2>3. OrderOf(i)'
    BY <1>1, <1>7, <2>1, <2>2 DEF OrderOf
  <2>4. QueueInv(i)'
    BY <1>6, <2>1, <2>3 DEF QueueInv
  <2> QED BY <1>3, <1>4, <2>4, OnlyOne
<1> QED BY <1>9, <1>10

\* Java code registers a listener.
LEMMA RegisterStep ==
  ASSUME Before, NEW i \in Isolates, NEW y \in Types, Register(i, y)
  PROVE  After
<1>1. /\ waitingEvent' = [waitingEvent EXCEPT ![i][y] = None]
      /\ UNCHANGED <<ringVars, threadVars, nextEvent, lastEvent, next, alive, phase, vm, used,
                     accepted, gone>>
  BY DEF Register
<1>2. QueueInv(i) /\ waitingEvent \in [Isolates -> [Types -> Events \cup {None}]]
  BY DEF Before, TypesInv, ListTypes
<1>3. Known' = Known
  BY <1>1 DEF Known, threadVars
<1>4. \A j \in Isolates : HoldsStill(j) /\ Woken(j) /\ RingStill(j)
  BY <1>1 DEF HoldsStill, Woken, RingStill, ringVars, threadVars
<1>5. \A j \in Isolates \ {i} : JavaStill(j)
  BY <1>1, <1>2 DEF JavaStill
<1>6. QueueInv(i)'
  <2>1. List(i)' = List(i) /\ ChainOf(i)'
    BY <1>1, <1>2, ChainBecomes DEF QueueInv, ChainOf
  <2>2. LatestOf(i)'
    BY <1>1, <1>2, <2>1 DEF QueueInv, LatestOf
  <2>3. ThreadsOf(i)'
    BY <1>1, <1>2 DEF QueueInv, ThreadsOf, threadVars
  <2>4. Pending(i)' = Pending(i)
    BY <1>1, PendingSame DEF ringVars
  <2>5. OrderOf(i)'
    BY <1>1, <1>2, <1>3, <2>1, <2>4 DEF QueueInv, OrderOf, threadVars
  <2> QED BY <2>1, <2>2, <2>3, <2>5 DEF QueueInv
<1> QED BY <1>3, <1>4, <1>5, <1>6, OnlyOne

\* Java code removes an event.
LEMMA RemoveStep ==
  ASSUME Before, NEW i \in Isolates, NEW y \in Types, RemoveEvent(i, y)
  PROVE  After
<1>1. UNCHANGED <<ringVars, threadVars, phase, used, accepted>> /\ phase[i] = "on"
  BY DEF RemoveEvent, Free, Running
<1>2. QueueInv(i) /\ TypesInv /\ Domains
  BY DEF Before
<1>3. PICK k \in DOMAIN List(i) : TakesOut(i, k)
  BY <1>2, RemoveQueues DEF QueueInv
<1>4. ChainOf(i)' /\ LatestOf(i)'
  BY <1>2, RemoveQueues DEF QueueInv
<1>5. Known' = Known
  BY <1>1 DEF Known, threadVars
<1>6. \A j \in Isolates : Woken(j) /\ RingStill(j)
  BY <1>1 DEF Woken, RingStill, ringVars, threadVars
<1>7. \A j \in Isolates \ {i} : HoldsStill(j)
  BY <1>1, <1>2, <1>3 DEF HoldsStill, threadVars, TakesOut, Domains
<1>8. \A j \in Isolates \ {i} : JavaStill(j)
  BY <1>2 DEF RemoveEvent, JavaStill, TypesInv, ListTypes
<1>9. QueueInv(i)'
  <2>1. ThreadsOf(i)'
    BY <1>1, <1>2 DEF QueueInv, ThreadsOf, threadVars
  <2>2. Pending(i)' = Pending(i)
    BY <1>6, PendingSame DEF RingStill
  <2>3. List(i)' = RemoveAt(List(i), k) /\ gone'[i] = gone[i] \cup {List(i)[k]}
    BY <1>2, <1>3 DEF TakesOut, Domains
  <2>4. Way(current[i], RemoveAt(List(i), k), held[i], Pending(i), accepted[i],
            gone[i] \cup {List(i)[k]}, phase[i] = "on", Known)
    BY <1>2, <1>3, WayRemoved, Zenon DEF QueueInv, OrderOf
  <2>5. OrderOf(i)'
    BY <1>1, <1>5, <2>2, <2>3, <2>4 DEF OrderOf, threadVars
  <2> QED BY <1>4, <2>1, <2>5 DEF QueueInv
<1> QED BY <1>5, <1>6, <1>7, <1>8, <1>9, OnlyOne
\* The dispatch thread begins, or waits.
LEMMA DispatcherWaitsStep ==
  ASSUME Before, NEW i \in Isolates, DispatchStart(i) \/ DispatchWaits(i)
  PROVE  After
<1>1. /\ UNCHANGED <<ringVars, nextEvent, lastEvent, next, waitingEvent, monitor, held, left,
                     current, shut, phase, used, accepted, gone>>
      /\ disp[i] # "process" /\ disp'[i] # "process" /\ phase[i] = "on"
      /\ \A j \in Isolates \ {i} : disp'[j] = disp[j]
  BY DEF DispatchStart, DispatchWaits, listVars, Free, Running, Before, TypesInv, ThreadTypes
<1>2. QueueInv(i)
  BY DEF Before
<1>3. Known' = Known
  BY <1>1 DEF Known
<1>4. \A j \in Isolates : JavaStill(j) /\ Woken(j) /\ RingStill(j)
  BY <1>1 DEF JavaStill, Woken, RingStill, ringVars
<1>5. \A j \in Isolates \ {i} : HoldsStill(j)
  BY <1>1 DEF HoldsStill
<1>6. QueueInv(i)'
  <2>1. List(i)' = List(i) /\ ChainOf(i)' /\ LatestOf(i)'
    BY <1>2, <1>4, JavaStays DEF QueueInv
  <2>2. ThreadsOf(i)'
    BY <1>1, <1>2 DEF QueueInv, ThreadsOf
  <2>3. Pending(i)' = Pending(i)
    BY <1>4, PendingSame DEF RingStill
  <2>4. OrderOf(i)'
    BY <1>1, <1>2, <1>3, <2>1, <2>3 DEF QueueInv, OrderOf
  <2> QED BY <2>1, <2>2, <2>4 DEF QueueInv
<1> QED BY <1>3, <1>4, <1>5, <1>6, OnlyOne

\* It takes the oldest event.
LEMMA DispatchStep ==
  ASSUME Before, NEW i \in Isolates, Dispatch(i)
  PROVE  After
<1> DEFINE e == nextEvent[i]
<1>1. /\ UNCHANGED <<ringVars, monitor, held, left, phase, used, accepted>>
      /\ disp[i] = "run" /\ phase[i] = "on"
  BY DEF Dispatch, Free, Running
<1>2. QueueInv(i) /\ TypesInv /\ Domains
  BY DEF Before
<1>3. Known \subseteq Known'
  <2>1. shut' = CallersNotified(i) \/ shut' = shut
    BY DEF Dispatch
  <2>2. CallersStaySent
    BY <1>2, <2>1, NotifiedStaySent DEF TypesInv
  <2> QED BY <1>1, <2>2, KnownGrows
<1>4. \A j \in Isolates : Woken(j) /\ RingStill(j)
  BY <1>1 DEF Woken, RingStill, ringVars
<1>5. ASSUME NEW j \in Isolates \ {i} PROVE JavaStill(j) /\ HoldsStill(j)
  <2>1. JavaStill(j)
    BY <1>2 DEF Dispatch, JavaStill, TypesInv, ListTypes
  <2>2. HoldsStill(j)
    BY <1>1, <1>2 DEF Dispatch, HoldsStill, TypesInv, ThreadTypes, Domains
  <2> QED BY <2>1, <2>2
<1>6. /\ List(i) # << >> /\ e = Head(List(i)) /\ List(i)' = Tail(List(i))
      /\ ChainOf(i)' /\ LatestOf(i)'
  BY <1>2, DispatchQueues DEF QueueInv
<1>7. Pending(i)' = Pending(i)
  BY <1>4, PendingSame DEF RingStill
<1>8. Way(None, List(i), held[i], Pending(i), accepted[i], gone[i], TRUE, Known')
  <2>1. current[i] = None
    BY <1>1, <1>2 DEF QueueInv, ThreadsOf
  <2>2. Way(None, List(i), held[i], Pending(i), accepted[i], gone[i], TRUE, Known)
    BY <1>1, <1>2, <2>1 DEF QueueInv, OrderOf
  <2> QED BY <1>3, <2>2, WayKnown, Zenon
<1>9. CASE /\ disp' = [disp EXCEPT ![i] = "ended"] /\ current' = current
           /\ gone' = [gone EXCEPT ![i] = @ \cup {e}]
  <2>1. /\ disp'[i] = "ended" /\ current'[i] = None /\ gone'[i] = gone[i] \cup {e}
    BY <1>1, <1>2, <1>9 DEF QueueInv, ThreadsOf, TypesInv, ThreadTypes, Domains
  <2>2. Way(None, Tail(List(i)), held[i], Pending(i), accepted[i], gone[i] \cup {e}, TRUE, Known')
    BY <1>6, <1>8, WayEnded, Zenon
  <2>3. OrderOf(i)'
    BY <1>1, <1>6, <1>7, <2>1, <2>2 DEF OrderOf
  <2>4. ThreadsOf(i)'
    BY <1>1, <1>2, <2>1 DEF QueueInv, ThreadsOf
  <2>5. QueueInv(i)'
    BY <1>6, <2>3, <2>4 DEF QueueInv
  <2> QED BY <1>3, <1>4, <1>5, <2>5, OnlyOne
<1>10. CASE /\ disp' = [disp EXCEPT ![i] = "process"] /\ current' = [current EXCEPT ![i] = e]
            /\ gone' = gone
  <2>1. disp'[i] = "process" /\ current'[i] = e /\ e # None
    BY <1>2, <1>10 DEF TypesInv, ThreadTypes, Dispatch
  <2>2. Way(e, Tail(List(i)), held[i], Pending(i), accepted[i], gone[i], TRUE, Known')
    BY <1>6, <1>8, WayDispatched, Zenon
  <2>3. OrderOf(i)'
    BY <1>1, <1>6, <1>7, <1>10, <2>1, <2>2 DEF OrderOf
  <2>4. ThreadsOf(i)'
    BY <1>1, <1>2, <2>1 DEF QueueInv, ThreadsOf
  <2>5. QueueInv(i)'
    BY <1>6, <2>3, <2>4 DEF QueueInv
  <2> QED BY <1>3, <1>4, <1>5, <2>5, OnlyOne
<1>11. \/ /\ disp' = [disp EXCEPT ![i] = "ended"] /\ current' = current
          /\ gone' = [gone EXCEPT ![i] = @ \cup {e}]
       \/ /\ disp' = [disp EXCEPT ![i] = "process"] /\ current' = [current EXCEPT ![i] = e]
          /\ gone' = gone
  BY Zenon DEF Dispatch
<1> QED BY <1>9, <1>10, <1>11

(* Its event is processed, whatever else the step does.                    *)
Processed(i) ==
  /\ disp[i] = "process" /\ phase[i] = "on"
  /\ disp' = [disp EXCEPT ![i] = "run"] /\ current' = [current EXCEPT ![i] = None]
  /\ gone' = [gone EXCEPT ![i] = @ \cup {current[i]}]
  /\ UNCHANGED <<listVars, held, left, shut, phase>>

\* It is no longer on its way.
LEMMA ProcessedKeeps ==
  ASSUME TypesInv, Domains, NEW i \in Isolates, QueueInv(i), Processed(i), Known \subseteq Known',
         Woken(i), RingStill(i)
  PROVE  QueueInv(i)'
<1>1. /\ disp'[i] = "run" /\ current'[i] = None /\ gone'[i] = gone[i] \cup {current[i]}
      /\ current[i] # None
  BY DEF Processed, TypesInv, ThreadTypes, Domains, QueueInv, ThreadsOf
<1>2. List(i)' = List(i) /\ ChainOf(i)' /\ LatestOf(i)'
  <2>1. JavaStill(i)
    BY DEF Processed, JavaStill, listVars
  <2> QED BY <2>1, JavaStays DEF QueueInv
<1>3. ThreadsOf(i)'
  BY <1>1 DEF QueueInv, ThreadsOf, Processed, Woken
<1>4. Pending(i)' = Pending(i)
  BY PendingSame DEF RingStill
<1>5. Way(current[i], List(i), held[i], Pending(i), accepted[i], gone[i], TRUE, Known')
  <2>1. Way(current[i], List(i), held[i], Pending(i), accepted[i], gone[i], TRUE, Known)
    BY DEF QueueInv, OrderOf, Processed
  <2> QED BY <2>1, WayKnown, Zenon
<1>6. Way(None, List(i), held[i], Pending(i), accepted[i], gone[i] \cup {current[i]}, TRUE, Known')
  BY <1>1, <1>5, WayProcessed, Zenon
<1>7. OrderOf(i)'
  BY <1>1, <1>2, <1>4, <1>6 DEF OrderOf, Processed, RingStill
<1> QED BY <1>2, <1>3, <1>7 DEF QueueInv

\* The rest of the isolates is not concerned.
LEMMA ProcessedHere ==
  ASSUME TypesInv, Domains, NEW i \in Isolates, Processed(i), NEW j \in Isolates, j # i
  PROVE  JavaStill(j) /\ HoldsStill(j)
BY DEF Processed, JavaStill, HoldsStill, TypesInv, ThreadTypes, Domains, listVars

\* The dispatch thread has processed an event.
LEMMA ProcessStep ==
  ASSUME Before, NEW i \in Isolates, Process(i)
  PROVE  After
<1>1. Processed(i) /\ UNCHANGED <<ringVars, monitor, shut, used, accepted>>
  BY DEF Process, Processed, Running
<1>2. Known' = Known
  BY <1>1 DEF Known
<1>3. \A j \in Isolates : Woken(j) /\ RingStill(j)
  BY <1>1 DEF Woken, RingStill, ringVars
<1>4. \A j \in Isolates \ {i} : JavaStill(j) /\ HoldsStill(j)
  BY <1>1, ProcessedHere DEF Before
<1>5. QueueInv(i)'
  BY <1>1, <1>2, <1>3, ProcessedKeeps DEF Before
<1> QED BY <1>2, <1>3, <1>4, <1>5, OnlyOne
\* A new event is stored and nothing else happens in an isolate.
LEMMA StoreStep ==
  ASSUME Before, NEW S, NEW e \in NotJava, StoreIn(S, e, monitor),
         e \notin Known, Known \cup {e} \subseteq Known',
         UNCHANGED <<listVars, held, left, disp, current, phase, gone>>
  PROVE  After
<1>1. \A j \in Isolates : JavaStill(j) /\ HoldsStill(j)
  BY DEF JavaStill, HoldsStill, listVars
<1>2. ASSUME NEW j \in Isolates PROVE QueueInv(j)'
  BY <1>1, StoredKeeps DEF Before
<1> QED BY <1>2 DEF After

\* A native sends an event.
LEMMA EnvironmentSends ==
  ASSUME Before, Environment
  PROVE  After
<1>1. PICK e \in NativeEvents, S \in {Isolates} \cup {{i} : i \in Isolates} : Store(S, e)
  BY DEF Environment
<1>2. /\ StoreIn(S, e, monitor) /\ e \notin used /\ used' = used \cup {e} /\ shut' = shut
      /\ UNCHANGED <<listVars, held, left, disp, current, phase, gone>>
  BY <1>1 DEF Store
<1>3. e \in NotJava /\ e \notin Callers
  BY Names DEF NotJava, Events
<1>4. e \notin Known /\ Known \cup {e} \subseteq Known'
  BY <1>2, <1>3 DEF Known
<1> QED BY <1>2, <1>3, <1>4, StoreStep

\* shutdown() sends its event,
LEMMA ShutdownSendsStep ==
  ASSUME Before, NEW c \in Callers, ShutdownSends(c)
  PROVE  After
<1>1. /\ StoreIn({CallerIso[c]}, c, monitor) /\ shut[c] = "no" /\ used' = used
      /\ shut' = [shut EXCEPT ![c] = "check"]
      /\ UNCHANGED <<listVars, held, left, disp, current, phase, gone>>
  BY DEF ShutdownSends
<1>2. c \in NotJava /\ c \notin used
  BY Names DEF NotJava, Events, Before, TypesInv, UsedPart
<1>3. c \notin Known /\ Known \cup {c} \subseteq Known'
  BY <1>1, <1>2 DEF Known, Before, TypesInv, ThreadTypes
<1> QED BY <1>1, <1>2, <1>3, StoreStep

\* waits,
LEMMA ShutdownChecksStep ==
  ASSUME Before, NEW c \in Callers, ShutdownChecks(c)
  PROVE  After
<1>1. /\ UNCHANGED <<ringVars, listVars, monitor, held, left, disp, current, phase, used, accepted,
                     gone>>
  BY DEF ShutdownChecks
<1>2. CallersStaySent
  BY DEF ShutdownChecks, CallersStaySent, Before, TypesInv, ThreadTypes
<1>3. Known \subseteq Known'
  BY <1>1, <1>2, KnownGrows
<1>4. ASSUME NEW j \in Isolates PROVE QueueInv(j)'
  <2>1. JavaStill(j) /\ HoldsStill(j) /\ Woken(j) /\ RingStill(j)
    BY <1>1 DEF JavaStill, HoldsStill, Woken, RingStill, listVars, ringVars
  <2> QED BY <1>3, <2>1, StillKeeps DEF Before
<1> QED BY <1>4 DEF After

\* The ring of another isolate is not reset.
LEMMA ResetHere ==
  ASSUME IInv, NEW i \in Isolates, ResetRing(i), NEW j \in Isolates, j # i
  PROVE  ring'[j] = ring[j] /\ eventOut'[j] = eventOut[j] /\ numEvents'[j] = numEvents[j]
BY DEF ResetRing, IInv, RingInv, RingTypes

\* and resets the ring.
LEMMA ShutdownResetsStep ==
  ASSUME Before, NEW c \in Callers, ShutdownResets(c)
  PROVE  After
<1> DEFINE i == CallerIso[c]
<1>0. i \in Isolates
  BY Sizes
<1> HIDE DEF i
<1>1. /\ ResetRing(i) /\ gone' = [gone EXCEPT ![i] = @ \cup {ring[i][p] : p \in Window(i)}]
      /\ shut' = [shut EXCEPT ![c] = "done"] /\ phase[i] = "on"
      /\ UNCHANGED <<listVars, monitor, held, left, disp, current, phase, used, accepted>>
  BY DEF ShutdownResets, Running, i
<1>2. QueueInv(i) /\ IInv /\ Domains
  BY <1>0 DEF Before
<1>3. Known \subseteq Known'
  <2>1. CallersStaySent
    BY <1>1 DEF CallersStaySent, Before, TypesInv, ThreadTypes
  <2> QED BY <1>1, <2>1, KnownGrows
<1>4. \A j \in Isolates : JavaStill(j) /\ Woken(j)
  BY <1>1 DEF JavaStill, Woken, listVars
<1>5. \A j \in Isolates \ {i} : HoldsStill(j) /\ RingStill(j)
  <2> SUFFICES ASSUME NEW j \in Isolates \ {i} PROVE HoldsStill(j) /\ RingStill(j)
    OBVIOUS
  <2>1. ring'[j] = ring[j] /\ eventOut'[j] = eventOut[j] /\ numEvents'[j] = numEvents[j]
    BY <1>0, <1>1, <1>2, ResetHere
  <2> QED BY <1>1, <1>2, <2>1 DEF HoldsStill, RingStill, Domains
<1>6. QueueInv(i)'
  <2>1. List(i)' = List(i) /\ ChainOf(i)' /\ LatestOf(i)'
    BY <1>0, <1>2, <1>4, JavaStays DEF QueueInv
  <2>2. ThreadsOf(i)'
    BY <1>1, <1>2 DEF QueueInv, ThreadsOf, listVars
  <2>3. Pending(i)' = << >> /\ Elems(Pending(i)) = {ring[i][p] : p \in Window(i)}
    BY <1>0, <1>1, <1>2, PendingReset DEF IInv
  <2>4. gone'[i] = gone[i] \cup Elems(Pending(i))
    BY <1>0, <1>1, <1>2, <2>3 DEF Domains
  <2>5. Way(current[i], List(i), held[i], Pending(i), accepted[i], gone[i], phase[i] = "on", Known')
    BY <1>2, <1>3, WayKnown, Zenon DEF QueueInv, OrderOf
  <2>6. Way(current[i], List(i), held[i], << >>, accepted[i], gone[i] \cup Elems(Pending(i)),
            phase[i] = "on", Known')
    BY <2>5, WayReset, Zenon
  <2>7. OrderOf(i)'
    BY <1>1, <2>1, <2>3, <2>4, <2>6 DEF OrderOf
  <2> QED BY <2>1, <2>2, <2>7 DEF QueueInv
<1> QED BY <1>0, <1>3, <1>4, <1>5, <1>6, OnlyOne

\* An isolate starts.
LEMMA StartStep ==
  ASSUME Before, NEW i \in Isolates, Start(i)
  PROVE  After
<1>1. /\ ResetRing(i) /\ phase[i] = "off" /\ phase' = [phase EXCEPT ![i] = "on"]
      /\ monitor' = [monitor EXCEPT ![i] = "wait"] /\ disp' = [disp EXCEPT ![i] = "new"]
      /\ accepted' = [accepted EXCEPT ![i] = << >>] /\ gone' = [gone EXCEPT ![i] = {}]
      /\ UNCHANGED <<listVars, held, left, current, shut, used>>
  BY DEF Start
<1>2. QueueInv(i) /\ IInv /\ Domains /\ TypesInv
  BY DEF Before
<1>3. Known' = Known
  BY <1>1 DEF Known
<1>4. \A j \in Isolates : JavaStill(j)
  BY <1>1 DEF JavaStill, listVars
<1>5. \A j \in Isolates \ {i} : HoldsStill(j) /\ Woken(j) /\ RingStill(j)
  <2> SUFFICES ASSUME NEW j \in Isolates \ {i} PROVE HoldsStill(j) /\ Woken(j) /\ RingStill(j)
    OBVIOUS
  <2>1. ring'[j] = ring[j] /\ eventOut'[j] = eventOut[j] /\ numEvents'[j] = numEvents[j]
    BY <1>1, <1>2, ResetHere
  <2> QED BY <1>1, <1>2, <2>1 DEF HoldsStill, Woken, RingStill, Domains, TypesInv, ThreadTypes
<1>6. QueueInv(i)'
  <2>1. List(i)' = List(i) /\ ChainOf(i)' /\ LatestOf(i)'
    BY <1>2, <1>4, JavaStays DEF QueueInv
  <2>2. /\ phase'[i] = "on" /\ monitor'[i] = "wait" /\ disp'[i] = "new" /\ accepted'[i] = << >>
        /\ gone'[i] = {}
    BY <1>1, <1>2 DEF Domains, TypesInv, ThreadTypes
  <2>3. monitor[i] = "dead"
    BY <1>1, <1>2 DEF IInv, MonitorInv, NoStrayMonitor
  <2>4. disp[i] = "dead" /\ nextEvent[i] = None /\ held[i] = None /\ current[i] = None
    BY <1>1, <1>2, <2>3 DEF QueueInv, ThreadsOf
  <2>5. List(i) = << >>
    BY <1>2, <2>4, ChainEmpty DEF QueueInv, ChainOf
  <2>6. ThreadsOf(i)'
    BY <1>1, <2>2, <2>4 DEF ThreadsOf
  <2>7. Pending(i)' = << >>
    BY <1>1, <1>2, PendingReset DEF IInv
  <2>8. Way(None, << >>, None, << >>, << >>, {}, phase'[i] = "on", Known')
    BY WayStarted, Zenon
  <2>9. OrderOf(i)'
    BY <1>1, <2>1, <2>2, <2>4, <2>5, <2>7, <2>8 DEF OrderOf
  <2> QED BY <2>1, <2>6, <2>9 DEF QueueInv
<1> QED BY <1>3, <1>4, <1>5, <1>6, OnlyOne

\* It is finalized.
LEMMA FinalizeStep ==
  ASSUME Before, NEW i \in Isolates, Finalize(i)
  PROVE  After
<1>1. /\ ResetRing(i) /\ phase[i] = "stopping" /\ phase' = [phase EXCEPT ![i] = "off"]
      /\ UNCHANGED <<listVars, threadVars, used, accepted, gone>>
  BY DEF Finalize
<1>2. QueueInv(i) /\ IInv /\ TypesInv
  BY DEF Before
<1>3. Known' = Known
  BY <1>1 DEF Known, threadVars
<1>4. \A j \in Isolates : JavaStill(j) /\ Woken(j)
  BY <1>1 DEF JavaStill, Woken, listVars, threadVars
<1>5. \A j \in Isolates \ {i} : HoldsStill(j) /\ RingStill(j)
  <2> SUFFICES ASSUME NEW j \in Isolates \ {i} PROVE HoldsStill(j) /\ RingStill(j)
    OBVIOUS
  <2>1. ring'[j] = ring[j] /\ eventOut'[j] = eventOut[j] /\ numEvents'[j] = numEvents[j]
    BY <1>1, <1>2, ResetHere
  <2> QED BY <1>1, <1>2, <2>1 DEF HoldsStill, RingStill, threadVars, TypesInv, ThreadTypes
<1>6. QueueInv(i)'
  <2>1. List(i)' = List(i) /\ ChainOf(i)' /\ LatestOf(i)'
    BY <1>2, <1>4, JavaStays DEF QueueInv
  <2>2. phase'[i] = "off"
    BY <1>1, <1>2 DEF TypesInv, ThreadTypes
  <2>3. ThreadsOf(i)'
    BY <1>1, <1>2, <2>2 DEF QueueInv, ThreadsOf, listVars, threadVars
  <2>4. Pending(i)' = << >>
    BY <1>1, <1>2, PendingReset DEF IInv
  <2>5. Way(current[i], List(i), held[i], << >>, accepted[i], gone[i], FALSE, Known)
    BY <1>2, WayFinalized, Zenon DEF QueueInv, OrderOf
  <2>6. OrderOf(i)'
    BY <1>1, <1>3, <2>1, <2>2, <2>4, <2>5 DEF OrderOf, threadVars
  <2> QED BY <2>1, <2>3, <2>6 DEF QueueInv
<1> QED BY <1>3, <1>4, <1>5, <1>6, OnlyOne

\* It is stopped.
LEMMA StopStep ==
  ASSUME Before, NEW i \in Isolates, StopTask(i)
  PROVE  After
<1>1. UNCHANGED <<ring, numEvents, eventOut, used, accepted, gone>>
  BY DEF StopTask
<1>2. QueueInv(i) /\ TypesInv
  BY DEF Before
<1>3. Known \subseteq Known'
  <2>1. CallersStaySent
    BY DEF StopTask, CallersStaySent
  <2> QED BY <1>1, <2>1, KnownGrows
<1>4. \A j \in Isolates : RingStill(j)
  BY <1>1 DEF RingStill
<1>5. ASSUME NEW j \in Isolates \ {i} PROVE JavaStill(j) /\ HoldsStill(j) /\ Woken(j)
  <2>1. JavaStill(j)
    BY <1>2 DEF StopTask, JavaStill, TypesInv, ListTypes
  <2>2. HoldsStill(j) /\ Woken(j)
    BY <1>1, <1>2 DEF StopTask, HoldsStill, Woken, TypesInv, ThreadTypes
  <2> QED BY <2>1, <2>2
<1>6. QueueInv(i)'
  <2>1. List(i)' = << >> /\ ChainOf(i)' /\ LatestOf(i)'
    BY <1>2, StopQueues
  <2>2. /\ phase'[i] = "stopping" /\ monitor'[i] = "dead" /\ disp'[i] = "dead" /\ held'[i] = None
        /\ current'[i] = None /\ nextEvent'[i] = None
    BY <1>2 DEF StopTask, TypesInv, ThreadTypes, ListTypes
  <2>3. ThreadsOf(i)'
    BY <2>2 DEF ThreadsOf
  <2>4. Pending(i)' = Pending(i)
    BY <1>4, PendingSame DEF RingStill
  <2>5. Way(current[i], List(i), held[i], Pending(i), accepted[i], gone[i], phase[i] = "on", Known')
    BY <1>2, <1>3, WayKnown, Zenon DEF QueueInv, OrderOf
  <2>6. Way(None, << >>, None, Pending(i), accepted[i], gone[i], FALSE, Known')
    BY <2>5, WayStopped, Zenon
  <2>7. OrderOf(i)'
    BY <1>1, <2>1, <2>2, <2>4, <2>6 DEF OrderOf
  <2> QED BY <2>1, <2>3, <2>7 DEF QueueInv
<1> QED BY <1>3, <1>4, <1>5, <1>6, OnlyOne
\* Another thread of isolate i throws: an event for the AMS is stored, which
\* does not know it yet.
LEMMA FatalIsNew ==
  ASSUME NEW i \in Isolates, NEW mon, HandleFatalError(i, mon), i # Ams, shut' = shut
  PROVE  /\ StoreIn({Ams}, i, mon) /\ i \in NotJava /\ i \in Events
         /\ i \notin Known /\ Known \cup {i} \subseteq Known'
<1>1. StoreIn({Ams}, i, mon) /\ i \notin used /\ used' = used \cup {i}
  BY DEF HandleFatalError
<1>2. i \in Events /\ i \in NotJava /\ i \notin Callers
  BY Names DEF NotJava, Events
<1> QED BY <1>1, <1>2 DEF Known

\* A listener throws while it processes an event.
LEMMA ProcessThrowsStep ==
  ASSUME Before, NEW i \in Isolates, ProcessThrows(i)
  PROVE  After
<1>1. Processed(i) /\ HandleFatalError(i, monitor)
  BY DEF ProcessThrows, Processed, Running
<1>2. shut' = shut /\ QueueInv(i)
  BY <1>1 DEF Processed, Before
<1>3. \A j \in Isolates \ {i} : JavaStill(j) /\ HoldsStill(j)
  BY <1>1, ProcessedHere DEF Before
<1>4. CASE i = Ams
  <2>1. UNCHANGED <<ringVars, monitor, used, accepted>>
    BY <1>1, <1>4 DEF HandleFatalError
  <2>2. Known' = Known
    BY <1>2, <2>1 DEF Known
  <2>3. \A j \in Isolates : Woken(j) /\ RingStill(j)
    BY <2>1 DEF Woken, RingStill, ringVars
  <2>4. QueueInv(i)'
    BY <1>1, <2>2, <2>3, ProcessedKeeps DEF Before
  <2> QED BY <1>3, <2>2, <2>3, <2>4, OnlyOne
<1>5. CASE i # Ams
  <2>1. /\ StoreIn({Ams}, i, monitor) /\ i \in NotJava /\ i \in Events
        /\ i \notin Known /\ Known \cup {i} \subseteq Known'
    BY <1>1, <1>2, <1>5, FatalIsNew
  <2>2. ASSUME NEW j \in Isolates \ {i} PROVE QueueInv(j)'
    BY <1>3, <2>1, StoredKeeps DEF Before
  <2>3. RingStill(i) /\ Woken(i)
    <3>1. i \notin {Ams}
      BY <1>5
    <3> QED BY <2>1, <3>1, StoredElsewhere, StoreWakes DEF Before
  <2>4. QueueInv(i)'
    BY <1>1, <2>1, <2>3, ProcessedKeeps DEF Before
  <2> QED BY <2>2, <2>4 DEF After
<1> QED BY <1>4, <1>5

\* A listener throws before an event is posted.
LEMMA MonitorThrowsStep ==
  ASSUME Before, NEW i \in Isolates, MonitorThrows(i)
  PROVE  After
<1> DEFINE mon == [monitor EXCEPT ![i] = "dead"]
<1>1. /\ monitor[i] \in {"wait", "post", "drain"} /\ phase[i] = "on" /\ HandleFatalError(i, mon)
      /\ held' = [held EXCEPT ![i] = None]
      /\ gone' = [gone EXCEPT ![i] = @ \cup ({held[i]} \ {None})]
      /\ UNCHANGED <<listVars, left, disp, current, shut, phase>>
  BY DEF MonitorThrows, Running
<1>2. QueueInv(i) /\ IInv /\ TypesInv /\ Domains
  BY DEF Before
<1>3. mon[i] = "dead" /\ \A j \in Isolates \ {i} : mon[j] = monitor[j]
  BY <1>2 DEF TypesInv, ThreadTypes
<1>4. \A j \in Isolates : JavaStill(j)
  BY <1>1 DEF JavaStill, listVars
<1>5. \A j \in Isolates \ {i} : HoldsStill(j)
  BY <1>1, <1>2 DEF HoldsStill, TypesInv, ThreadTypes, Domains
<1>6. ASSUME monitor'[i] = "dead", RingStill(i), Known \subseteq Known'
      PROVE  QueueInv(i)'
  <2>1. List(i)' = List(i) /\ ChainOf(i)' /\ LatestOf(i)'
    BY <1>2, <1>4, JavaStays DEF QueueInv
  <2>2. held'[i] = None /\ gone'[i] = gone[i] \cup ({held[i]} \ {None})
    BY <1>1, <1>2 DEF TypesInv, ThreadTypes, Domains
  <2>3. ThreadsOf(i)'
    BY <1>1, <1>2, <1>6, <2>2 DEF QueueInv, ThreadsOf, listVars
  <2>4. Pending(i)' = Pending(i)
    BY <1>6, PendingSame DEF RingStill
  <2>5. Way(current[i], List(i), held[i], Pending(i), accepted[i], gone[i], phase[i] = "on", Known')
    BY <1>2, <1>6, WayKnown, Zenon DEF QueueInv, OrderOf
  <2>6. Way(current[i], List(i), None, Pending(i), accepted[i],
            gone[i] \cup ({held[i]} \ {None}), phase[i] = "on", Known')
    BY <2>5, WayDropsHeld, Zenon
  <2>7. OrderOf(i)'
    BY <1>1, <1>6, <2>1, <2>2, <2>4, <2>6 DEF OrderOf, RingStill
  <2> QED BY <2>1, <2>3, <2>7 DEF QueueInv
<1> HIDE DEF mon
<1>7. CASE i = Ams
  <2>1. UNCHANGED <<ringVars, used, accepted>> /\ monitor' = mon
    BY <1>1, <1>7 DEF HandleFatalError
  <2>2. Known' = Known
    BY <1>1, <2>1 DEF Known
  <2>3. \A j \in Isolates : RingStill(j)
    BY <2>1 DEF RingStill, ringVars
  <2>4. \A j \in Isolates \ {i} : Woken(j)
    BY <1>3, <2>1 DEF Woken
  <2>5. QueueInv(i)'
    BY <1>3, <1>6, <2>1, <2>2, <2>3
  <2> QED BY <1>4, <1>5, <2>2, <2>3, <2>4, <2>5, OnlyOne
<1>8. CASE i # Ams
  <2>1. /\ StoreIn({Ams}, i, mon) /\ i \in NotJava /\ i \in Events
        /\ i \notin Known /\ Known \cup {i} \subseteq Known'
    BY <1>1, <1>8, FatalIsNew
  <2>2. ASSUME NEW j \in Isolates \ {i} PROVE QueueInv(j)'
    BY <1>3, <1>4, <1>5, <2>1, StoredKeeps DEF Before
  <2>3. RingStill(i)
    <3>1. i \notin {Ams}
      BY <1>8
    <3> QED BY <2>1, <3>1, StoredElsewhere
  <2>4. monitor'[i] = "dead"
    BY <1>3, <1>8, <2>1 DEF StoreIn
  <2>5. QueueInv(i)'
    BY <1>6, <2>1, <2>3, <2>4
  <2> QED BY <2>2, <2>5 DEF After
<1> QED BY <1>7, <1>8

-----------------------------------------------------------------------------
(* The invariant holds.                                                    *)

Inv == Before /\ NoLostNotify

\* Every step keeps what is said of the queues.
LEMMA QueueStep ==
  ASSUME Before, [Next]_vars
  PROVE  After
<1>1. ASSUME NEW i \in Isolates, Monitor(i) PROVE After
  BY <1>1, ReadsStep, WaitsStep, PostsStep DEF Monitor
<1>2. ASSUME NEW i \in Isolates, Dispatcher(i) PROVE After
  BY <1>2, DispatcherWaitsStep, DispatchStep, ProcessStep DEF Dispatcher
<1>3. ASSUME NEW i \in Isolates, Java(i) PROVE After
  BY <1>3, JavaPostStep, RegisterStep, RemoveStep DEF Java
<1>4. ASSUME NEW i \in Isolates, Start(i) \/ Finalize(i) \/ StopTask(i) PROVE After
  BY <1>4, StartStep, FinalizeStep, StopStep
<1>5. ASSUME NEW i \in Isolates, Throws(i) PROVE After
  BY <1>5, MonitorThrowsStep, ProcessThrowsStep DEF Throws
<1>6. ASSUME NEW c \in Callers, ShutdownSends(c) \/ ShutdownGoesOn(c) PROVE After
  BY <1>6, ShutdownSendsStep, ShutdownChecksStep, ShutdownResetsStep DEF ShutdownGoesOn
<1>7. CASE Environment
  BY <1>7, EnvironmentSends
<1>8. CASE UNCHANGED vars
  <2>1. Known' = Known
    BY <1>8 DEF Known, vars, threadVars
  <2>2. ASSUME NEW j \in Isolates PROVE QueueInv(j)'
    <3>1. JavaStill(j) /\ HoldsStill(j) /\ Woken(j) /\ RingStill(j)
      BY <1>8 DEF vars, listVars, threadVars, ringVars, JavaStill, HoldsStill, Woken, RingStill
    <3> QED BY <2>1, <3>1, StillKeeps DEF Before
  <2> QED BY <2>2 DEF After
<1> QED BY <1>1, <1>2, <1>3, <1>4, <1>5, <1>6, <1>7, <1>8, Sizes DEF Next

\* Every step keeps the types.
LEMMA TypesStep ==
  ASSUME Before, [Next]_vars
  PROVE  TypesInv'
<1> USE DEF Before
<1>1. \A i \in Isolates : QueueInv(i) /\ ChainOf(i)
  BY DEF QueueInv
<1>2. ASSUME NEW i \in Isolates, Monitor(i) PROVE TypesInv'
  BY <1>1, <1>2, MonitorTypes
<1>3. ASSUME NEW i \in Isolates, Dispatcher(i) PROVE TypesInv'
  BY <1>3, DispatcherTypes
<1>4. ASSUME NEW i \in Isolates, Java(i) PROVE TypesInv'
  BY <1>1, <1>4, JavaTypes
<1>5. ASSUME NEW i \in Isolates, Start(i) \/ Finalize(i) \/ StopTask(i) PROVE TypesInv'
  BY <1>5, IsolateTypes
<1>6. ASSUME NEW i \in Isolates, Throws(i) PROVE TypesInv'
  BY <1>6, ThrowsTypes
<1>7. ASSUME NEW c \in Callers, ShutdownSends(c) \/ ShutdownGoesOn(c) PROVE TypesInv'
  BY <1>7, ShutdownTypes
<1>8. CASE Environment
  BY <1>8, EnvironmentTypes
<1>9. CASE UNCHANGED vars
  BY <1>9 DEF vars, listVars, threadVars, TypesInv, ListTypes, ThreadTypes, UsedPart
<1> QED BY <1>2, <1>3, <1>4, <1>5, <1>6, <1>7, <1>8, <1>9, Sizes DEF Next

\* The queues before any isolate has started.
LEMMA InitInv == Init => Inv
<1> SUFFICES ASSUME Init PROVE Inv
  OBVIOUS
<1>1. IInv
  BY InitIInv
<1>2. TypesInv
  <2>1. 0 \in 0 .. MAX_EVENTS
    BY Sizes
  <2> QED BY <2>1 DEF Init, TypesInv, ListTypes, ThreadTypes, UsedPart
<1>3. Domains /\ NoLostNotify
  BY DEF Init, Domains, NoLostNotify
<1>4. ASSUME NEW i \in Isolates PROVE QueueInv(i)
  <2>1. IsChain(<< >>, nextEvent[i], lastEvent[i], next[i])
    BY ChainOfNone DEF Init
  <2>2. List(i) = << >>
    BY <2>1, LinkedIs DEF List
  <2>3. ChainOf(i)
    BY <2>1, <2>2 DEF ChainOf
  <2>4. LatestOf(i)
    BY DEF Init, LatestOf
  <2>5. ThreadsOf(i)
    BY DEF Init, ThreadsOf
  <2>6. Pending(i) = << >>
    <3>1. Pending(i) \in Seq(Events) /\ Len(Pending(i)) = 0
      BY <1>1, PendingAt DEF IInv, PendingIs, IsRead, Init
    <3> QED BY <3>1, NoLength
  <2>7. Way(None, << >>, None, << >>, << >>, {}, phase[i] = "on", Known)
    BY WayStarted, Zenon
  <2>8. OrderOf(i)
    BY <2>2, <2>6, <2>7 DEF Init, OrderOf
  <2> QED BY <2>3, <2>4, <2>5, <2>8 DEF QueueInv
<1> QED BY <1>1, <1>2, <1>3, <1>4 DEF Inv, Before

\* The invariant is inductive.
LEMMA NextInv == Inv /\ [Next]_vars => Inv'
<1> SUFFICES ASSUME Inv, [Next]_vars PROVE Inv'
  OBVIOUS
<1>1. Before /\ NoLostNotify
  BY DEF Inv
<1>2. IInv'
  BY <1>1, NextIInv DEF Before
<1>3. TypesInv'
  BY <1>1, TypesStep
<1>4. Domains'
  BY <1>1, DomainsStep DEF Before
<1>5. After
  BY <1>1, QueueStep
<1>6. NoLostNotify'
  <2>1. TypesInv /\ \A i \in Isolates : ChainOf(i)
    BY <1>1 DEF Before, QueueInv
  <2> QED BY <1>1, <2>1, NotifyStep
<1> QED BY <1>2, <1>3, <1>4, <1>5, <1>6 DEF Inv, Before, After

\* Hence it always holds.
LEMMA SpecInv == Spec => []Inv
BY InitInv, NextInv, PTL DEF Spec
(* EventQueue.jpp and midpEvents.c: whatever natives, Java code and listeners do, every field  *)
(* of the queues has its type; no index of a ring leaves it and its count stays in bounds.     *)
THEOREM QueueTypes == Spec => []TypeOK
<1>1. Inv => TypeOK
  BY DEF Inv, Before, IInv, RingInv, TypesInv, TypeOK
<1> QED BY <1>1, SpecInv, PTL

(* notifyAll in post() and at the end of run(): no dispatch thread waits while its queue has an *)
(* event, and no caller of shutdown() while the queue is dead.                                  *)
THEOREM EveryoneIsNotified == Spec => []NoLostNotify
<1>1. Inv => NoLostNotify
  BY DEF Inv
<1> QED BY <1>1, SpecInv, PTL

(* post(), run() and remove(): the references of the Java queue form one list that ends, without *)
(* a cycle and without an event that is linked but cannot be reached.                            *)
THEOREM QueueIsOneList == Spec => []ListWellFormed
<1>1. ASSUME NEW i \in Isolates, ChainOf(i)
      PROVE  LET l == List(i)
             IN /\ Cardinality({l[k] : k \in 1 .. Len(l)}) = Len(l)
                /\ lastEvent[i] = IF l = << >> THEN None ELSE l[Len(l)]
                /\ \A e \in Events \ {l[k] : k \in 1 .. Len(l)} : next[i][e] = None
  <2> DEFINE l == List(i)
             S == {l[k] : k \in 1 .. Len(l)}
  <2>1. IsChain(l, nextEvent[i], lastEvent[i], next[i])
    BY <1>1 DEF ChainOf
  <2> HIDE DEF l
  <2>2. l \in Seq(Events) /\ NoRepeat(l) /\ DOMAIN l = 1 .. Len(l) /\ Len(l) \in Nat
    BY <2>1 DEF IsChain
  <2>3. S = Elems(l)
    BY <2>2 DEF Elems
  <2>4. lastEvent[i] = IF l = << >> THEN None ELSE l[Len(l)]
    BY <2>1 DEF IsChain, Last
  <2>5. \A e \in Events \ S : next[i][e] = None
    BY <2>1, <2>3 DEF IsChain
  <2>6. Cardinality(S) = Len(l)
    <3> DEFINE N == Len(l)
    <3>1. l \in [1 .. N -> S] /\ l \in Surjection(1 .. N, S) /\ l \in Injection(1 .. N, S)
      BY <2>2 DEF NoRepeat, Injection, Surjection, IsInjective
    <3>2. IsFiniteSet(1 .. N) /\ Cardinality(1 .. N) = N
      BY <2>2, FirstPlaces
    <3> HIDE DEF N, S
    <3>3. Cardinality(S) = Cardinality(1 .. N)
      BY <3>1, <3>2, FS_Surjection
    <3> QED BY <3>2, <3>3 DEF N
  <2> QED BY <2>4, <2>5, <2>6 DEF l
<1>2. Inv => ListWellFormed
  BY <1>1, Zenon DEF Inv, Before, QueueInv, ListWellFormed
<1> QED BY <1>2, SpecInv, PTL

(* DispatchData.waitingEvent: what a listener's preprocess() merges into is queued and the       *)
(* youngest of its type, so nothing is merged into an event that was already taken.              *)
THEOREM WaitingIsQueued == Spec => []WaitingEventIsQueued
<1>1. ASSUME NEW i \in Isolates, ChainOf(i), LatestOf(i), NEW y \in Types, waitingEvent[i][y] # None
      PROVE  \E k \in 1 .. Len(List(i)) :
               /\ List(i)[k] = waitingEvent[i][y]
               /\ \A j \in k + 1 .. Len(List(i)) : EventType(List(i)[j]) # y
  <2>1. IsLatest(waitingEvent[i][y], y, List(i))
    BY <1>1 DEF LatestOf
  <2>2. DOMAIN List(i) = 1 .. Len(List(i))
    BY <1>1 DEF ChainOf, IsChain
  <2> QED BY <2>1, <2>2, Zenon DEF IsLatest
<1>2. Inv => WaitingEventIsQueued
  BY <1>1, Zenon DEF Inv, Before, QueueInv, WaitingEventIsQueued
<1> QED BY <1>2, SpecInv, PTL

(* From StoreMIDPEventInVmThreadImp to EventListener.process: native events reach the listeners *)
(* in the order the ring took them in, none twice, and none is lost that was not processed,     *)
(* refused, removed or reset.                                                                   *)
THEOREM EventsInOrder == Spec => []InOrderOnce
<1>1. ASSUME NEW i \in Isolates, OrderOf(i), phase[i] = "on"
      PROVE  Among(accepted[i], Events \ gone[i])
               = Among((IF current[i] = None THEN << >> ELSE <<current[i]>>)
                        \o List(i) \o (IF held[i] = None THEN << >> ELSE <<held[i]>>)
                        \o Pending(i),
                      Events \ JavaEvents)
  <2> DEFINE c == current[i]
             l == List(i)
             h == held[i]
             p == Pending(i)
             q == ((One(c) \o l) \o One(h)) \o p
  <2>1. /\ c \in Events \cup {None} /\ h \in Events \cup {None}
        /\ l \in Seq(Events) /\ p \in Seq(Events)
        /\ Among(accepted[i], Events \ gone[i]) = Flow(c, l, h, p, NotJava)
    BY <1>1 DEF OrderOf, Way, Parts
  <2> HIDE DEF c, l, h, p
  <2>2. Among(q, NotJava) = Flow(c, l, h, p, NotJava)
    BY <2>1, FlowIs
  <2>3. Among(accepted[i], Events \ gone[i]) = Among(q, NotJava)
    BY <2>1, <2>2, Zenon
  <2> QED BY <2>3, Zenon DEF One, NotJava, c, l, h, p
<1>2. Inv => InOrderOnce
  BY <1>1, Zenon DEF Inv, Before, QueueInv, InOrderOnce
<1> QED BY <1>2, SpecInv, PTL
=============================================================================
