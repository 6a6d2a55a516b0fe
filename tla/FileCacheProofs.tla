--------------------------- MODULE FileCacheProofs ---------------------------
(***************************************************************************)
(* Theorems about FileCache: which stores are locked, the shape of the     *)
(* list of cached blocks, and that the cache is invisible, that is, that   *)
(* FileCache implements PlainFile.                                         *)
(*                                                                         *)
(* The argument about the cache is made byte by byte.  Written, the file   *)
(* with all blocks written, is the only sequence that IsWritten describes: *)
(* it has the positions the storage or a block has, the bytes of a block   *)
(* where there is one, and the storage's elsewhere.  That needs more than  *)
(* BlocksSortedApart: below a block there may be no position that neither  *)
(* the storage nor another block has (NoHoles), because the storage would  *)
(* fill it with bytes nobody wrote.                                        *)
(***************************************************************************)
EXTENDS FileCache, ListFacts

End(b) == b.position + Len(b.data)
Within(b, i) == b.position < i /\ i <= End(b)
Covered(blocks, i) == \E k \in DOMAIN blocks : Within(blocks[k], i)

BlockList(blocks) ==
  /\ blocks \in Seq(Block)
  /\ \A k \in DOMAIN blocks : blocks[k].data # << >>
  /\ \A i, j \in DOMAIN blocks : i < j => End(blocks[i]) <= blocks[j].position

NoHoles(s, blocks) ==
  \A k \in DOMAIN blocks : \A i \in 1 .. blocks[k].position : i \in DOMAIN s \/ Covered(blocks, i)

IsWritten(w, s, blocks) ==
  /\ w \in Seq(Nat)
  /\ \A i \in Nat : i \in DOMAIN w <=> i \in DOMAIN s \/ Covered(blocks, i)
  /\ \A k \in DOMAIN blocks : \A i \in Nat :
       Within(blocks[k], i) => w[i] = blocks[k].data[i - blocks[k].position]
  /\ \A i \in DOMAIN w : ~ Covered(blocks, i) => w[i] = s[i]

(* The inductive invariant. *)
Lock == [file : Files, handle : Handles]

Disks == [Files -> Seq(Nat)]

TypeOK ==
  /\ disk \in Disks
  /\ open \in [Handles -> Files \cup {None}]
  /\ ospos \in [Handles -> Nat]
  /\ cache \in Cache \cup {None}
  /\ locks \in Seq(Lock)

Good(d, o, c) ==
  c # None =>
    /\ o[c.handle] \in Files
    /\ BlockList(c.blocks)
    /\ NoHoles(d[o[c.handle]], c.blocks)
    /\ c.size = CostOf(c.blocks)
    /\ c.size <= RMS_CACHE_LIMIT

CacheOK == Good(disk, open, cache)

IInv == TypeOK /\ CacheOK /\ LockedWhileOpen

-----------------------------------------------------------------------------
(* Blocks, byte by byte. *)

(* A byte is in one block at most: blocks are sorted and apart.            *)
LEMMA OneBlock ==
  ASSUME NEW blocks, BlockList(blocks), NEW j \in DOMAIN blocks, NEW k \in DOMAIN blocks,
         NEW i \in Nat, Within(blocks[j], i), Within(blocks[k], i)
  PROVE  j = k
<1>1. blocks \in Seq(Block) /\ j \in Nat /\ k \in Nat
  BY DEF BlockList
<1>2. \A m \in DOMAIN blocks : blocks[m].position \in Nat /\ End(blocks[m]) \in Nat
  <2>1. \A m \in DOMAIN blocks : blocks[m] \in Block
    BY <1>1
  <2> QED BY <2>1 DEF Block, End
<1>3. ~(j < k) /\ ~(k < j)
  BY <1>2 DEF BlockList, Within
<1> QED BY <1>1, <1>3

\* What a block of the cache looks like: it has at least one byte.
LEMMA BlockType ==
  ASSUME NEW blocks, BlockList(blocks), NEW k \in DOMAIN blocks
  PROVE  /\ blocks[k].position \in Nat /\ End(blocks[k]) \in Nat /\ blocks[k].data \in Seq(Nat)
         /\ End(blocks[k]) = blocks[k].position + Len(blocks[k].data)
         /\ Len(blocks[k].data) \in Nat \ {0}
         /\ \A i \in Nat : Within(blocks[k], i) <=>
              i \in blocks[k].position + 1 .. blocks[k].position + Len(blocks[k].data)
<1>1. blocks[k] \in Block /\ blocks[k].data # << >>
  BY DEF BlockList
<1> QED BY <1>1 DEF Block, End, Within

(* Two sequences that the same storage and the same blocks make are the same. *)
LEMMA WrittenUnique ==
  ASSUME NEW s, NEW blocks, NEW v, NEW w, IsWritten(v, s, blocks), IsWritten(w, s, blocks)
  PROVE  v = w
<1>1. v \in Seq(Nat) /\ w \in Seq(Nat)
  BY DEF IsWritten
<1>2. \A i \in Nat : i \in DOMAIN v <=> i \in DOMAIN w
  BY DEF IsWritten
<1>3. DOMAIN v \subseteq Nat /\ DOMAIN w \subseteq Nat
  BY <1>1
<1>4. DOMAIN v = DOMAIN w
  BY <1>2, <1>3
<1>5. ASSUME NEW i \in DOMAIN v
      PROVE  v[i] = w[i]
  <2>1. CASE Covered(blocks, i)
    BY <1>3, <1>4, <2>1 DEF IsWritten, Covered
  <2>2. CASE ~ Covered(blocks, i)
    BY <1>4, <2>2 DEF IsWritten
  <2> QED BY <2>1, <2>2
<1> QED BY <1>1, <1>4, <1>5, SameList

(* Written makes it.                                                       *)
LEMMA WrittenIs ==
  ASSUME NEW s \in Seq(Nat), NEW blocks, BlockList(blocks), NoHoles(s, blocks)
  PROVE  IsWritten(Written(s, blocks), s, blocks)
<1> DEFINE E(k) == blocks[k].position + Len(blocks[k].data)
           C(i) == {k \in DOMAIN blocks : blocks[k].position < i /\ i <= E(k)}
           L == {Len(s)} \cup {E(k) : k \in DOMAIN blocks}
           w == Written(s, blocks)
<1>1. /\ blocks \in Seq(Block) /\ Len(blocks) \in Nat /\ DOMAIN blocks = 1 .. Len(blocks)
      /\ Len(s) \in Nat /\ DOMAIN s = 1 .. Len(s)
  BY DEF BlockList
<1>2. \A k \in DOMAIN blocks : E(k) = End(blocks[k]) /\ E(k) \in Nat /\ blocks[k].position \in Nat
                               /\ blocks[k].position < E(k)
  BY BlockType
<1>3. \A i \in Nat, k \in DOMAIN blocks : k \in C(i) <=> Within(blocks[k], i)
  BY <1>2 DEF Within
<1>4. \A j, k \in DOMAIN blocks : j < k => E(j) <= blocks[k].position
  BY <1>2 DEF BlockList
<1>5. w = [i \in 1 .. Max(L) |->
             IF C(i) # {} THEN blocks[Max(C(i))].data[i - blocks[Max(C(i))].position]
             ELSE IF i <= Len(s) THEN s[i] ELSE Filler]
  BY DEF Written
<1>6. L \in SUBSET Int
  BY <1>1, <1>2
<1>7. \E m \in L : \A y \in L : m >= y
  <2>1. CASE blocks = << >>
    BY <1>1, <2>1
  <2>2. CASE blocks # << >>
    <3>1. Len(blocks) \in DOMAIN blocks
      BY <1>1, <2>2
    <3> DEFINE e == E(Len(blocks))
    <3>2. ASSUME NEW k \in DOMAIN blocks PROVE E(k) <= e
      <4>1. CASE k = Len(blocks)
        BY <1>2, <4>1
      <4>2. CASE k # Len(blocks)
        <5>1. E(k) <= blocks[Len(blocks)].position
          BY <1>1, <1>4, <3>1, <4>2
        <5>2. E(k) \in Nat /\ e \in Nat /\ blocks[Len(blocks)].position \in Nat
              /\ blocks[Len(blocks)].position < e
          BY <1>2, <3>1
        <5> HIDE DEF E, e
        <5> QED BY <5>1, <5>2
      <4> QED BY <4>1, <4>2
    <3>3. e \in L /\ Len(s) \in L /\ e \in Nat
      BY <1>2, <3>1
    <3> HIDE DEF e
    <3> HIDE DEF E
    <3>6. \A y \in L : y = Len(s) \/ \E k \in DOMAIN blocks : y = E(k)
      OBVIOUS
    <3> HIDE DEF L
    <3>4. CASE e <= Len(s)
      <4>1. ASSUME NEW y \in L
            PROVE  Len(s) >= y
        <5>1. CASE y = Len(s)
          BY <1>1, <3>3, <3>4, <5>1
        <5>2. ASSUME NEW k \in DOMAIN blocks, y = E(k)
              PROVE  Len(s) >= y
          <6>1. E(k) \in Nat /\ E(k) <= e
            BY <1>2, <3>2
          <6> QED BY <1>1, <3>3, <3>4, <5>2, <6>1
        <5> QED BY <3>6, <5>1, <5>2
      <4> QED BY <3>3, <4>1
    <3>5. CASE ~(e <= Len(s))
      <4>1. ASSUME NEW y \in L
            PROVE  e >= y
        <5>1. CASE y = Len(s)
          BY <1>1, <3>3, <3>5, <5>1
        <5>2. ASSUME NEW k \in DOMAIN blocks, y = E(k)
              PROVE  e >= y
          <6>1. E(k) \in Nat /\ E(k) <= e
            BY <1>2, <3>2
          <6> QED BY <1>1, <3>3, <3>5, <5>2, <6>1
        <5> QED BY <3>6, <5>1, <5>2
      <4> QED BY <3>3, <4>1
    <3> QED BY <3>4, <3>5
  <2> QED BY <2>1, <2>2
<1>8. PICK m \in L : \A y \in L : m >= y
  BY <1>7
<1> DEFINE P(i) == blocks[Max(C(i))]
<1> HIDE DEF w, L, C
<1>9. Max(L) = m /\ m \in Nat
  <2>1. Max(L) = m
    BY <1>6, <1>8, MaxIs
  <2>2. m \in Nat
    BY <1>1, <1>2, <1>8 DEF L
  <2> QED BY <2>1, <2>2
<1>10. DOMAIN w = 1 .. m
  BY <1>5, <1>9
<1>11. ASSUME NEW k \in DOMAIN blocks, NEW i \in Nat, Within(blocks[k], i)
       PROVE  i \in 1 .. m /\ w[i] = blocks[k].data[i - blocks[k].position]
  <2>1. i \in 1 .. m
    <3>1. E(k) \in L
      BY DEF L
    <3> QED BY <1>2, <1>8, <1>9, <1>11, <3>1 DEF Within
  <2>2. C(i) = {k}
    <3>1. k \in C(i)
      BY <1>3, <1>11
    <3>2. \A j \in C(i) : j \in DOMAIN blocks
      BY DEF C
    <3>3. \A j \in C(i) : j = k
      BY <1>3, <1>11, <3>2, OneBlock
    <3> QED BY <3>1, <3>3
  <2>3. Max(C(i)) = k
    <3>1. C(i) \in SUBSET Int /\ k \in C(i) /\ \A y \in C(i) : k >= y
      BY <1>1, <2>2
    <3> QED BY <3>1, MaxIs
  <2>4. w[i] = blocks[Max(C(i))].data[i - blocks[Max(C(i))].position]
    BY <1>5, <1>9, <2>1, <2>2
  <2> QED BY <2>1, <2>3, <2>4
<1>12. ASSUME NEW i \in 1 .. m, ~ Covered(blocks, i)
       PROVE  i \in DOMAIN s /\ w[i] = s[i]
  <2>1. C(i) = {}
    BY <1>3, <1>12 DEF Covered, C
  <2>2. i \in DOMAIN s
    <3>1. CASE m = Len(s)
      BY <1>1, <3>1
    <3>2. ASSUME NEW k \in DOMAIN blocks, m = E(k)
          PROVE  i \in DOMAIN s
      <4>1. ~ Within(blocks[k], i)
        BY <1>12 DEF Covered
      <4>2. i \in 1 .. blocks[k].position
        BY <1>2, <3>2, <4>1 DEF Within
      <4> QED BY <1>12, <4>2 DEF NoHoles
    <3> QED BY <1>8, <3>1, <3>2 DEF L
  <2>3. w[i] = s[i]
    BY <1>1, <1>5, <1>9, <2>1, <2>2
  <2> QED BY <2>2, <2>3
<1>13. \A i \in DOMAIN s : i \in 1 .. m
  <2>1. Len(s) \in L
    BY DEF L
  <2> QED BY <1>1, <1>8, <1>9, <2>1
<1>14. \A i \in Nat : i \in DOMAIN w <=> i \in DOMAIN s \/ Covered(blocks, i)
  BY <1>10, <1>11, <1>12, <1>13 DEF Covered
<1>15. w \in Seq(Nat)
  <2>1. \A i \in 1 .. m : w[i] \in Nat
    <3> SUFFICES ASSUME NEW i \in 1 .. m PROVE w[i] \in Nat
      OBVIOUS
    <3>1. CASE Covered(blocks, i)
      <4>1. PICK k \in DOMAIN blocks : Within(blocks[k], i)
        BY <3>1 DEF Covered
      <4>2. blocks[k].data \in Seq(Nat) /\ i - blocks[k].position \in DOMAIN blocks[k].data
        BY <4>1, BlockType
      <4> QED BY <1>11, <4>1, <4>2
    <3>2. CASE ~ Covered(blocks, i)
      BY <1>12, <3>2
    <3> QED BY <3>1, <3>2
  <2>2. w = [i \in 1 .. m |-> w[i]]
    BY <1>5, <1>9
  <2>3. m \in Nat
    BY <1>9
  <2> HIDE DEF w
  <2>4. w \in [1 .. m -> Nat]
    BY <2>1, <2>2, Zenon
  <2> QED BY <2>3, <2>4, MadeList
<1>16. IsWritten(w, s, blocks)
  BY <1>10, <1>11, <1>12, <1>14, <1>15 DEF IsWritten
<1> QED BY <1>16 DEF w

-----------------------------------------------------------------------------
(* Writing bytes over a sequence.                                          *)

\* The larger of two sizes.
LEMMA MaxOfTwo ==
  ASSUME NEW a \in Nat, NEW b \in Nat
  PROVE  /\ Max({a, b}) \in {a, b} /\ Max({a, b}) \in Nat
         /\ Max({a, b}) >= a /\ Max({a, b}) >= b
<1> DEFINE S == {a, b}
           m == IF a >= b THEN a ELSE b
<1>1. S \in SUBSET Int /\ m \in S /\ m \in Nat /\ m >= a /\ m >= b
  OBVIOUS
<1>2. Max(S) = m
  <2>1. \A y \in S : m >= y
    OBVIOUS
  <2> HIDE DEF S, m
  <2> QED BY <1>1, <2>1, MaxIs
<1> HIDE DEF m
<1> QED BY <1>1, <1>2

\* The smaller of two sizes.
LEMMA MinOfTwo ==
  ASSUME NEW a \in Nat, NEW b \in Nat
  PROVE  /\ Min({a, b}) \in {a, b} /\ Min({a, b}) \in Nat
         /\ Min({a, b}) <= a /\ Min({a, b}) <= b
<1> DEFINE S == {a, b}
           m == IF a <= b THEN a ELSE b
<1>1. S \in SUBSET Int /\ m \in S /\ m \in Nat /\ m <= a /\ m <= b
  OBVIOUS
<1>2. Min(S) = m
  <2>1. \A y \in S : m <= y
    OBVIOUS
  <2> HIDE DEF S, m
  <2> QED BY <1>1, <2>1, MinIs
<1> HIDE DEF m
<1> QED BY <1>1, <1>2

InRange(i, at, data) == i \in at + 1 .. at + Len(data)

IsPatched(w, s, at, data) ==
  /\ w \in Seq(Nat)
  /\ \A i \in Nat : i \in DOMAIN w <=> i \in DOMAIN s \/ i \in 1 .. at + Len(data)
  /\ \A i \in Nat : InRange(i, at, data) => w[i] = data[i - at]
  /\ \A i \in DOMAIN s : ~ InRange(i, at, data) => w[i] = s[i]

\* A write to storage: the new bytes, the old ones around them, filler in a
\* hole.
LEMMA StorageWriteIs ==
  ASSUME NEW s \in Seq(Nat), NEW at \in Nat, NEW data \in Seq(Nat)
  PROVE  IsPatched(StorageWrite(s, at, data), s, at, data)
<1> DEFINE m == Max({Len(s), at + Len(data)})
           w == StorageWrite(s, at, data)
<1>1. Len(s) \in Nat /\ Len(data) \in Nat /\ DOMAIN s = 1 .. Len(s) /\ DOMAIN data = 1 .. Len(data)
  OBVIOUS
<1>2. (m = Len(s) \/ m = at + Len(data)) /\ m \in Nat /\ m >= Len(s) /\ m >= at + Len(data)
  <2>1. at + Len(data) \in Nat
    BY <1>1
  <2>2. /\ m \in {Len(s), at + Len(data)} /\ m \in Nat
        /\ m >= Len(s) /\ m >= at + Len(data)
    BY <1>1, <2>1, MaxOfTwo, Zenon
  <2> QED BY <2>2
<1>3. w = [i \in 1 .. m |-> IF InRange(i, at, data) THEN data[i - at]
                            ELSE IF i <= Len(s) THEN s[i] ELSE Filler]
  BY DEF StorageWrite, InRange
<1> HIDE DEF w, m
<1>4. \A i \in Nat : i \in 1 .. m <=> i \in DOMAIN s \/ i \in 1 .. at + Len(data)
  <2>1. Len(s) \in Nat /\ Len(data) \in Nat
    OBVIOUS
  <2>2. \A i \in Nat : i \in 1 .. m <=> i \in 1 .. Len(s) \/ i \in 1 .. at + Len(data)
    BY <1>2, <2>1
  <2> QED BY <1>1, <2>2
<1>5. ASSUME NEW i \in Nat, InRange(i, at, data)
      PROVE  i \in 1 .. m /\ w[i] = data[i - at] /\ data[i - at] \in Nat
  <2>1. i \in 1 .. at + Len(data) /\ i - at \in DOMAIN data
    BY <1>1, <1>5 DEF InRange
  <2>2. i \in 1 .. m
    BY <1>4, <2>1
  <2> QED BY <1>3, <1>5, <2>1, <2>2
<1>6. ASSUME NEW i \in DOMAIN s, ~ InRange(i, at, data)
      PROVE  w[i] = s[i]
  BY <1>1, <1>3, <1>4, <1>6
<1>7. \A i \in 1 .. m : w[i] \in Nat
  <2> SUFFICES ASSUME NEW i \in 1 .. m PROVE w[i] \in Nat
    OBVIOUS
  <2>1. CASE InRange(i, at, data)
    BY <1>5, <2>1
  <2>2. CASE ~ InRange(i, at, data) /\ i <= Len(s)
    BY <1>1, <1>3, <2>2
  <2>3. CASE ~ InRange(i, at, data) /\ ~(i <= Len(s))
    BY <1>3, <2>3 DEF Filler
  <2> QED BY <2>1, <2>2, <2>3
<1>8. w \in Seq(Nat) /\ DOMAIN w = 1 .. m
  <2>1. w = [i \in 1 .. m |-> w[i]]
    BY <1>3
  <2>2. DOMAIN w = 1 .. m
    BY <1>3
  <2>3. w \in [1 .. m -> Nat]
    BY <1>7, <2>1
  <2> QED BY <1>2, <2>2, <2>3
<1>9. IsPatched(w, s, at, data)
  BY <1>4, <1>5, <1>6, <1>8 DEF IsPatched
<1> QED BY <1>9 DEF w

(* At a position the sequence has, the storage writes what is expected.    *)
LEMMA OverwrittenIs ==
  ASSUME NEW s \in Seq(Nat), NEW at \in 0 .. Len(s), NEW data \in Seq(Nat)
  PROVE  File!Overwritten(s, at, data) = StorageWrite(s, at, data)
<1> DEFINE m == Max({Len(s), at + Len(data)})
<1>1. Len(s) \in Nat /\ Len(data) \in Nat /\ at \in Nat /\ at <= Len(s)
  OBVIOUS
<1>2. (m = Len(s) \/ m = at + Len(data)) /\ m \in Nat /\ m >= Len(s) /\ m >= at + Len(data)
  <2>1. at + Len(data) \in Nat
    BY <1>1
  <2>2. /\ m \in {Len(s), at + Len(data)} /\ m \in Nat
        /\ m >= Len(s) /\ m >= at + Len(data)
    BY <1>1, <2>1, MaxOfTwo, Zenon
  <2> QED BY <2>2
<1>3. File!Overwritten(s, at, data) =
        [i \in 1 .. m |-> IF i \in at + 1 .. at + Len(data) THEN data[i - at] ELSE s[i]]
  BY DEF File!Overwritten, Max, File!Max
<1>4. StorageWrite(s, at, data) =
        [i \in 1 .. m |-> IF i \in at + 1 .. at + Len(data) THEN data[i - at]
                          ELSE IF i <= Len(s) THEN s[i] ELSE Filler]
  BY DEF StorageWrite
<1>5. \A i \in 1 .. m : i \notin at + 1 .. at + Len(data) => i <= Len(s)
  BY <1>1, <1>2
<1> HIDE DEF m
<1> QED BY <1>3, <1>4, <1>5

-----------------------------------------------------------------------------
(* What a write leaves behind: a block of its own, bytes inside a block,   *)
(* or bytes of the storage that no block covers.                           *)

(* The first p blocks end before the n bytes at position at, the others    *)
(* begin behind them.                                                      *)
Apart(blocks, at, n, p) ==
  /\ p \in 0 .. Len(blocks)
  /\ \A k \in 1 .. p : End(blocks[k]) <= at
  /\ \A k \in p + 1 .. Len(blocks) : at + n <= blocks[k].position

\* A region apart from all blocks has none of their bytes.
LEMMA ApartUncovered ==
  ASSUME NEW blocks, BlockList(blocks), NEW at \in Nat, NEW n \in Nat, NEW p,
         Apart(blocks, at, n, p), NEW i \in at + 1 .. at + n
  PROVE  ~ Covered(blocks, i)
<1> SUFFICES ASSUME NEW k \in DOMAIN blocks, Within(blocks[k], i) PROVE FALSE
  BY DEF Covered
<1>1. /\ blocks[k].position \in Nat /\ End(blocks[k]) \in Nat
      /\ blocks[k].position < i /\ i <= End(blocks[k])
  BY BlockType DEF Within
<1>2. k \in 1 .. p \/ k \in p + 1 .. Len(blocks)
  <2>1. blocks \in Seq(Block)
    BY DEF BlockList
  <2> QED BY <2>1 DEF Apart
<1> QED BY <1>1, <1>2 DEF Apart

\* A new block at its place in the order writes its bytes, and makes no
\* holes.
LEMMA InsertedBlock ==
  ASSUME NEW s \in Seq(Nat), NEW blocks, BlockList(blocks), NoHoles(s, blocks),
         NEW data \in Seq(Nat) \ {<< >>}, NEW at \in 0 .. Len(Written(s, blocks)), NEW p,
         Apart(blocks, at, Len(data), p)
  PROVE  LET b == [position |-> at, data |-> data]
             new == InsertAt(blocks, p + 1, b)
         IN  /\ BlockList(new) /\ NoHoles(s, new)
             /\ Written(s, new) = StorageWrite(Written(s, blocks), at, data)
<1> DEFINE b == [position |-> at, data |-> data]
           new == InsertAt(blocks, p + 1, b)
           w == Written(s, blocks)
           v == StorageWrite(w, at, data)
<1>1. IsWritten(w, s, blocks)
  BY WrittenIs
<1>2. w \in Seq(Nat) /\ Len(w) \in Nat /\ at \in Nat /\ at <= Len(w) /\ DOMAIN w = 1 .. Len(w)
  <2>1. w \in Seq(Nat)
    BY <1>1 DEF IsWritten
  <2> QED BY <2>1
<1> HIDE DEF w
<1>3. IsPatched(v, w, at, data)
  BY <1>2, StorageWriteIs
<1> HIDE DEF v
<1>4. b \in Block /\ b.position = at /\ b.data = data /\ b.data # << >> /\ End(b) = at + Len(data)
      /\ Len(data) \in Nat \ {0}
  BY <1>2 DEF Block, End
<1>5. \A i \in Nat : Within(b, i) <=> InRange(i, at, data)
  BY <1>2, <1>4 DEF Within, InRange
<1> HIDE DEF b
<1>6. blocks \in Seq(Block) /\ Len(blocks) \in Nat /\ DOMAIN blocks = 1 .. Len(blocks)
      /\ p \in 0 .. Len(blocks) /\ p \in Nat
  BY DEF BlockList, Apart
<1>7. /\ new \in Seq(Block) /\ Len(new) = Len(blocks) + 1 /\ new[p + 1] = b
      /\ \A j \in 1 .. p : new[j] = blocks[j]
      /\ \A j \in p + 1 .. Len(blocks) : new[j + 1] = blocks[j]
  <2>1. b \in Block /\ blocks \in Seq(Block) /\ p \in 0 .. Len(blocks)
    BY <1>4, <1>6
  <2>2. IsInserted(InsertAt(blocks, p + 1, b), blocks, p, b)
    BY <2>1, Inserted
  <2> HIDE DEF new
  <2>3. IsInserted(new, blocks, p, b)
    BY <2>2 DEF new
  <2>4. new \in Seq(Block)
    BY <2>1, Inserted DEF new
  <2> QED BY <2>1, <2>3, <2>4 DEF IsInserted
<1> HIDE DEF new
<1>8. DOMAIN new = 1 .. Len(blocks) + 1
  BY <1>7
<1> DEFINE Old(k) == IF k <= p THEN k ELSE k - 1
<1>9. \A k \in DOMAIN new : \/ k = p + 1 /\ new[k] = b
                            \/ k # p + 1 /\ Old(k) \in DOMAIN blocks /\ new[k] = blocks[Old(k)]
  <2> SUFFICES ASSUME NEW k \in DOMAIN new, k # p + 1
               PROVE  Old(k) \in DOMAIN blocks /\ new[k] = blocks[Old(k)]
    BY <1>7
  <2>1. CASE k <= p
    BY <1>6, <1>7, <1>8, <2>1
  <2>2. CASE ~(k <= p)
    <3>1. k - 1 \in p + 1 .. Len(blocks) /\ (k - 1) + 1 = k /\ Old(k) = k - 1
      BY <1>6, <1>8, <2>2
    <3>2. new[k] = blocks[k - 1]
      BY <1>7, <3>1
    <3> QED BY <1>6, <3>1, <3>2
  <2> QED BY <2>1, <2>2
<1>10. p + 1 \in DOMAIN new /\ \A j \in DOMAIN blocks : \E k \in DOMAIN new : new[k] = blocks[j]
  <2>1. p + 1 \in DOMAIN new
    BY <1>6, <1>8
  <2>2. ASSUME NEW j \in DOMAIN blocks
        PROVE  \E k \in DOMAIN new : new[k] = blocks[j]
    <3>1. CASE j <= p
      BY <1>6, <1>7, <1>8, <3>1
    <3>2. CASE ~(j <= p)
      <4>1. j + 1 \in DOMAIN new /\ j \in p + 1 .. Len(blocks)
        BY <1>6, <1>8, <3>2
      <4> QED BY <1>7, <4>1
    <3> QED BY <3>1, <3>2
  <2> QED BY <2>1, <2>2
<1>11. \A i \in Nat : Covered(new, i) <=> Covered(blocks, i) \/ InRange(i, at, data)
  <2> SUFFICES ASSUME NEW i \in Nat
               PROVE  Covered(new, i) <=> Covered(blocks, i) \/ Within(b, i)
    BY <1>5
  <2>1. Covered(new, i) => Covered(blocks, i) \/ Within(b, i)
    BY <1>9 DEF Covered
  <2>2. Covered(blocks, i) => Covered(new, i)
    BY <1>10 DEF Covered
  <2>3. Within(b, i) => Covered(new, i)
    BY <1>7, <1>10 DEF Covered
  <2> QED BY <2>1, <2>2, <2>3
<1>12. BlockList(new)
  <2>1. \A k \in DOMAIN new : new[k].data # << >>
    BY <1>4, <1>9 DEF BlockList
  <2>2. ASSUME NEW i \in DOMAIN new, NEW j \in DOMAIN new, i < j
        PROVE  End(new[i]) <= new[j].position
    <3>1. i \in Nat /\ j \in Nat
      BY <1>8
    <3>2. CASE i = p + 1
      <4>1. ~(j <= p) /\ j # p + 1 /\ Old(j) \in p + 1 .. Len(blocks) /\ new[j] = blocks[Old(j)]
        BY <1>6, <1>8, <1>9, <2>2, <3>1, <3>2
      <4>2. at + Len(data) <= blocks[Old(j)].position
        BY <4>1 DEF Apart
      <4> QED BY <1>4, <1>7, <3>2, <4>1, <4>2
    <3>3. CASE j = p + 1
      <4>1. i \in 1 .. p /\ new[i] = blocks[i]
        BY <1>6, <1>7, <1>8, <2>2, <3>1, <3>3
      <4>2. End(blocks[i]) <= at
        BY <4>1 DEF Apart
      <4> QED BY <1>4, <1>7, <3>3, <4>1, <4>2
    <3>4. CASE i # p + 1 /\ j # p + 1
      <4>1. /\ Old(i) \in DOMAIN blocks /\ new[i] = blocks[Old(i)]
            /\ Old(j) \in DOMAIN blocks /\ new[j] = blocks[Old(j)]
        BY <1>9, <3>4
      <4>2. Old(i) < Old(j)
        BY <1>6, <2>2, <3>1, <3>4
      <4> HIDE DEF Old
      <4> QED BY <4>1, <4>2 DEF BlockList
    <3> QED BY <3>2, <3>3, <3>4
  <2> QED BY <1>7, <2>1, <2>2 DEF BlockList
<1> HIDE DEF Old
<1>13. NoHoles(s, new)
  <2> SUFFICES ASSUME NEW k \in DOMAIN new, NEW i \in 1 .. new[k].position
               PROVE  i \in DOMAIN s \/ Covered(new, i)
    BY DEF NoHoles
  <2>1. CASE new[k] = b
    <3>1. i \in DOMAIN w /\ i \in Nat
      BY <1>2, <1>4, <2>1
    <3> QED BY <1>1, <1>11, <3>1 DEF IsWritten
  <2>2. ASSUME NEW j \in DOMAIN blocks, new[k] = blocks[j]
        PROVE  i \in DOMAIN s \/ Covered(new, i)
    BY <1>11, <2>2 DEF NoHoles
  <2> QED BY <1>9, <2>1, <2>2
<1>14. IsWritten(v, s, new)
  <2>1. ASSUME NEW i \in Nat
        PROVE  i \in DOMAIN v <=> i \in DOMAIN s \/ Covered(new, i)
    <3>1. i \in DOMAIN v <=> i \in DOMAIN w \/ i \in 1 .. at + Len(data)
      BY <1>3 DEF IsPatched
    <3>2. i \in 1 .. at + Len(data) <=> i \in 1 .. at \/ InRange(i, at, data)
      BY <1>2, <1>4 DEF InRange
    <3>3. i \in 1 .. at => i \in DOMAIN w
      BY <1>2
    <3>4. i \in DOMAIN w <=> i \in DOMAIN s \/ Covered(blocks, i)
      BY <1>1 DEF IsWritten
    <3> QED BY <1>11, <3>1, <3>2, <3>3, <3>4
  <2>2. ASSUME NEW k \in DOMAIN new, NEW i \in Nat, Within(new[k], i)
        PROVE  v[i] = new[k].data[i - new[k].position]
    <3>1. CASE new[k] = b
      BY <1>3, <1>4, <1>5, <2>2, <3>1 DEF IsPatched
    <3>2. ASSUME NEW j \in DOMAIN blocks, new[k] = blocks[j]
          PROVE  v[i] = new[k].data[i - new[k].position]
      <4>1. Covered(blocks, i)
        BY <2>2, <3>2 DEF Covered
      <4>2. ~ InRange(i, at, data)
        BY <1>2, <1>4, <4>1, ApartUncovered DEF InRange
      <4>3. i \in DOMAIN w /\ w[i] = blocks[j].data[i - blocks[j].position]
        BY <1>1, <2>2, <3>2, <4>1 DEF IsWritten
      <4> QED BY <1>3, <3>2, <4>2, <4>3 DEF IsPatched
    <3> QED BY <1>9, <3>1, <3>2
  <2>3. ASSUME NEW i \in DOMAIN v, ~ Covered(new, i)
        PROVE  v[i] = s[i]
    <3>1. i \in Nat
      BY <1>3 DEF IsPatched
    <3>2. ~ Covered(blocks, i) /\ ~ InRange(i, at, data)
      BY <1>11, <2>3, <3>1
    <3>3. i \in DOMAIN w
      BY <1>1, <2>1, <2>3, <3>1 DEF IsWritten
    <3> QED BY <1>1, <1>3, <3>2, <3>3 DEF IsPatched, IsWritten
  <2> QED BY <1>3, <2>1, <2>2, <2>3 DEF IsWritten, IsPatched
<1>15. IsWritten(Written(s, new), s, new)
  BY <1>12, <1>13, WrittenIs
<1>16. Written(s, new) = v
  BY <1>14, <1>15, WrittenUnique
<1> QED BY <1>12, <1>13, <1>16 DEF v, new, w, b

(* A write past the cache that meets no block.                             *)
LEMMA BypassedBlocks ==
  ASSUME NEW s \in Seq(Nat), NEW blocks, BlockList(blocks), NoHoles(s, blocks),
         NEW data \in Seq(Nat) \ {<< >>}, NEW at \in 0 .. Len(Written(s, blocks)), NEW p,
         Apart(blocks, at, Len(data), p)
  PROVE  /\ StorageWrite(s, at, data) \in Seq(Nat)
         /\ NoHoles(StorageWrite(s, at, data), blocks)
         /\ Written(StorageWrite(s, at, data), blocks) =
              StorageWrite(Written(s, blocks), at, data)
<1> DEFINE w == Written(s, blocks)
           v == StorageWrite(w, at, data)
           t == StorageWrite(s, at, data)
<1>1. IsWritten(w, s, blocks)
  BY WrittenIs
<1>2. w \in Seq(Nat) /\ Len(w) \in Nat /\ at \in Nat /\ at <= Len(w) /\ DOMAIN w = 1 .. Len(w)
      /\ Len(data) \in Nat
  <2>1. w \in Seq(Nat)
    BY <1>1 DEF IsWritten
  <2> QED BY <2>1
<1> HIDE DEF w
<1>3. IsPatched(v, w, at, data) /\ IsPatched(t, s, at, data)
  BY <1>2, StorageWriteIs
<1> HIDE DEF v, t
<1>4. \A i \in Nat : InRange(i, at, data) => ~ Covered(blocks, i)
  BY <1>2, ApartUncovered DEF InRange
<1>5. \A i \in Nat : i \in 1 .. at + Len(data) <=> i \in 1 .. at \/ InRange(i, at, data)
  BY <1>2 DEF InRange
<1>6. \A i \in DOMAIN s : i \in DOMAIN t
  <2>1. DOMAIN s \subseteq Nat
    OBVIOUS
  <2> QED BY <1>3, <2>1 DEF IsPatched
<1>7. NoHoles(t, blocks)
  BY <1>6 DEF NoHoles
<1>8. IsWritten(v, t, blocks)
  <2>1. ASSUME NEW i \in Nat
        PROVE  i \in DOMAIN v <=> i \in DOMAIN t \/ Covered(blocks, i)
    <3>1. i \in DOMAIN v <=> i \in DOMAIN w \/ i \in 1 .. at + Len(data)
      BY <1>3 DEF IsPatched
    <3>2. i \in DOMAIN t <=> i \in DOMAIN s \/ i \in 1 .. at + Len(data)
      BY <1>3 DEF IsPatched
    <3>3. i \in DOMAIN w <=> i \in DOMAIN s \/ Covered(blocks, i)
      BY <1>1 DEF IsWritten
    <3> QED BY <3>1, <3>2, <3>3
  <2>2. ASSUME NEW k \in DOMAIN blocks, NEW i \in Nat, Within(blocks[k], i)
        PROVE  v[i] = blocks[k].data[i - blocks[k].position]
    <3>1. Covered(blocks, i) /\ ~ InRange(i, at, data)
      BY <1>4, <2>2 DEF Covered
    <3>2. i \in DOMAIN w /\ w[i] = blocks[k].data[i - blocks[k].position]
      BY <1>1, <2>2, <3>1 DEF IsWritten
    <3> QED BY <1>3, <3>1, <3>2 DEF IsPatched
  <2>3. ASSUME NEW i \in DOMAIN v, ~ Covered(blocks, i)
        PROVE  v[i] = t[i]
    <3>1. i \in Nat
      BY <1>3 DEF IsPatched
    <3>2. CASE InRange(i, at, data)
      BY <1>3, <3>1, <3>2 DEF IsPatched
    <3>3. CASE ~ InRange(i, at, data)
      <4>1. i \in DOMAIN w
        <5>1. i \in DOMAIN w \/ i \in 1 .. at + Len(data)
          BY <1>3, <2>3, <3>1 DEF IsPatched
        <5>2. i \in 1 .. at => i \in DOMAIN w
          BY <1>2
        <5> QED BY <1>5, <3>1, <3>3, <5>1, <5>2
      <4>2. i \in DOMAIN s /\ w[i] = s[i]
        BY <1>1, <2>3, <3>1, <4>1 DEF IsWritten
      <4> QED BY <1>3, <3>3, <4>1, <4>2 DEF IsPatched
    <3> QED BY <3>2, <3>3
  <2> QED BY <1>3, <2>1, <2>2, <2>3 DEF IsWritten, IsPatched
<1>9. t \in Seq(Nat)
  BY <1>3 DEF IsPatched
<1>10. IsWritten(Written(t, blocks), t, blocks)
  BY <1>7, <1>9, WrittenIs
<1>11. Written(t, blocks) = v
  BY <1>8, <1>10, WrittenUnique
<1> QED BY <1>7, <1>9, <1>11 DEF v, w, t

(* A write inside the block k.                                             *)
Changed(new, blocks, s, at, data) ==
  /\ BlockList(new) /\ NoHoles(s, new)
  /\ DOMAIN new = DOMAIN blocks
  /\ \A j \in DOMAIN blocks : Len(new[j].data) = Len(blocks[j].data)
  /\ Written(s, new) = StorageWrite(Written(s, blocks), at, data)
  /\ at <= Len(Written(s, blocks))

\* So do bytes written into an existing block.
LEMMA ChangedBlock ==
  ASSUME NEW s \in Seq(Nat), NEW blocks, BlockList(blocks), NoHoles(s, blocks),
         NEW data \in Seq(Nat) \ {<< >>}, NEW at \in Nat, NEW k \in DOMAIN blocks,
         blocks[k].position <= at, at + Len(data) <= End(blocks[k])
  PROVE  Changed([blocks EXCEPT ![k].data =
                    StorageWrite(blocks[k].data, at - blocks[k].position, data)],
                 blocks, s, at, data)
<1> DEFINE q == blocks[k].position
           from == at - q
           old == blocks[k].data
           m == Len(old)
           n == Len(data)
           bytes == StorageWrite(old, from, data)
           new == [blocks EXCEPT ![k].data = bytes]
           w == Written(s, blocks)
           v == StorageWrite(w, at, data)
<1>1. IsWritten(w, s, blocks)
  BY WrittenIs
<1>2. w \in Seq(Nat) /\ Len(w) \in Nat /\ DOMAIN w = 1 .. Len(w)
  <2>1. w \in Seq(Nat)
    BY <1>1 DEF IsWritten
  <2> QED BY <2>1
<1> HIDE DEF w
<1>3. /\ blocks \in Seq(Block) /\ blocks[k] \in Block
      /\ q \in Nat /\ old \in Seq(Nat) /\ Len(old) \in Nat \ {0} /\ Len(data) \in Nat \ {0}
      /\ End(blocks[k]) = q + Len(old) /\ from \in Nat
      /\ DOMAIN old = 1 .. Len(old) /\ DOMAIN data = 1 .. Len(data)
  <2>1. blocks \in Seq(Block)
    BY DEF BlockList
  <2>2. q \in Nat /\ old \in Seq(Nat) /\ Len(old) \in Nat \ {0} /\ End(blocks[k]) = q + Len(old)
    BY BlockType
  <2>3. blocks[k] \in Block /\ Len(data) \in Nat \ {0} /\ DOMAIN data = 1 .. Len(data)
    BY <2>1
  <2>4. from \in Nat /\ DOMAIN old = 1 .. Len(old)
    BY <2>2
  <2> HIDE DEF from, old
  <2> QED BY <2>1, <2>2, <2>3, <2>4
<1>4. /\ at \in Nat /\ q \in Nat /\ from \in Nat /\ n \in Nat \ {0} /\ m \in Nat \ {0}
      /\ from = at - q /\ at + n <= q + m
  BY <1>3
<1> HIDE DEF q, from, m, n
<1>5. IsPatched(bytes, old, from, data) /\ IsPatched(v, w, at, data)
  BY <1>2, <1>3, <1>4, StorageWriteIs
<1> HIDE DEF bytes, v
<1>6. bytes \in Seq(Nat) /\ Len(bytes) = Len(old) /\ bytes # << >>
  <2>1. bytes \in Seq(Nat)
    BY <1>5 DEF IsPatched
  <2>2. \A i \in Nat : i \in 1 .. from + Len(data) => i \in 1 .. Len(old)
    <3>1. \A i \in Nat : i \in 1 .. from + n => i \in 1 .. m
      BY <1>4
    <3> QED BY <3>1 DEF m, n
  <2>3. \A i \in Nat : i \in DOMAIN bytes <=> i \in 1 .. Len(old)
    BY <1>3, <1>5, <2>2 DEF IsPatched
  <2>4. DOMAIN bytes = 1 .. Len(bytes) /\ Len(bytes) \in Nat
    BY <2>1
  <2>5. \A i \in Nat : i \in 1 .. Len(bytes) <=> i \in 1 .. Len(old)
    BY <2>3, <2>4
  <2>6. Len(bytes) = Len(old)
    <3>1. Len(bytes) \in Nat /\ Len(old) \in Nat
      BY <1>3, <2>4
    <3> HIDE DEF old
    <3>2. Len(old) <= Len(bytes) /\ Len(bytes) <= Len(old)
      BY <2>5, <3>1
    <3> QED BY <3>1, <3>2
  <2> QED BY <1>3, <2>1, <2>6
<1>7. /\ new \in Seq(Block) /\ DOMAIN new = DOMAIN blocks
      /\ new[k] = [position |-> q, data |-> bytes]
      /\ \A j \in DOMAIN blocks : j # k => new[j] = blocks[j]
  <2>1. new[k] = [position |-> q, data |-> bytes]
    <3>1. new[k] = [blocks[k] EXCEPT !.data = bytes]
      OBVIOUS
    <3>2. blocks[k] = [position |-> q, data |-> old]
      BY <1>3 DEF Block, q
    <3>3. [[position |-> q, data |-> old] EXCEPT !.data = bytes] = [position |-> q, data |-> bytes]
      OBVIOUS
    <3> QED BY <3>1, <3>2, <3>3, Zenon
  <2>2. [position |-> q, data |-> bytes] \in Block
    BY <1>3, <1>6 DEF Block
  <2>3. DOMAIN new = DOMAIN blocks /\ \A j \in DOMAIN blocks : j # k => new[j] = blocks[j]
    OBVIOUS
  <2>4. DOMAIN blocks = 1 .. Len(blocks) /\ Len(blocks) \in Nat
        /\ \A j \in DOMAIN blocks : blocks[j] \in Block
    BY <1>3
  <2>5. \A j \in DOMAIN blocks : new[j] \in Block
    BY <2>1, <2>2, <2>3, <2>4
  <2>6. new = [j \in 1 .. Len(blocks) |-> new[j]]
    BY <2>4
  <2> HIDE DEF new
  <2>7. new \in [1 .. Len(blocks) -> Block]
    BY <2>4, <2>5, <2>6
  <2>8. new \in Seq(Block)
    <3>1. Len(blocks) \in Nat
      BY <2>4
    <3> QED BY <2>7, <3>1, MadeList
  <2> QED BY <2>1, <2>3, <2>8
<1> HIDE DEF new
<1>8. \A j \in DOMAIN blocks :
        new[j].position = blocks[j].position /\ Len(new[j].data) = Len(blocks[j].data)
  <2>1. new[k].position = blocks[k].position /\ Len(new[k].data) = Len(blocks[k].data)
    BY <1>6, <1>7 DEF q
  <2> QED BY <1>7, <2>1
<1>9. \A j \in DOMAIN blocks : End(new[j]) = End(blocks[j])
  BY <1>8 DEF End
<1>10. \A j \in DOMAIN blocks, i \in Nat : Within(new[j], i) <=> Within(blocks[j], i)
  BY <1>8, <1>9 DEF Within
<1>11. \A i \in Nat : Covered(new, i) <=> Covered(blocks, i)
  BY <1>7, <1>10 DEF Covered
<1>12. BlockList(new)
  <2>1. \A j \in DOMAIN new : new[j].data # << >>
    <3>1. new[k].data # << >>
      BY <1>6, <1>7
    <3> QED BY <1>7, <3>1 DEF BlockList
  <2>2. \A i, j \in DOMAIN new : i < j => End(new[i]) <= new[j].position
    BY <1>7, <1>8, <1>9 DEF BlockList
  <2> QED BY <1>7, <2>1, <2>2 DEF BlockList
<1>13. NoHoles(s, new)
  <2> SUFFICES ASSUME NEW j \in DOMAIN new, NEW i \in 1 .. new[j].position
               PROVE  i \in DOMAIN s \/ Covered(new, i)
    BY DEF NoHoles
  <2>1. j \in DOMAIN blocks /\ i \in 1 .. blocks[j].position /\ i \in Nat
    BY <1>7, <1>8
  <2> QED BY <1>11, <2>1 DEF NoHoles
<1>22. \A i \in Nat :
         /\ InRange(i, at, data) <=> (i \in at + 1 .. at + n)
         /\ InRange(i, from, data) <=> (i \in from + 1 .. from + n)
         /\ Within(blocks[k], i) <=> (i \in q + 1 .. q + m)
         /\ (i \in DOMAIN old) <=> (i \in 1 .. m)
  <2>1. \A i \in Nat : Within(blocks[k], i) <=> i \in q + 1 .. q + m
    BY BlockType, Zenon DEF q, m
  <2>2. DOMAIN old = 1 .. m
    BY <1>3 DEF m
  <2> QED BY <2>1, <2>2 DEF InRange, n
<1>14. \A i \in Nat : InRange(i, at, data) => Within(blocks[k], i)
  BY <1>4, <1>22
<1>15. \A i \in Nat : Within(blocks[k], i) => i \in DOMAIN w
  BY <1>1 DEF IsWritten, Covered
<1>16. at + Len(data) \in DOMAIN w /\ at + Len(data) <= Len(w)
  <2>1. at + Len(data) \in Nat /\ Within(blocks[k], at + Len(data))
    <3>1. at + n \in Nat /\ at + n \in q + 1 .. q + m
      BY <1>4
    <3> QED BY <1>22, <3>1 DEF n
  <2>2. at + Len(data) \in DOMAIN w
    BY <1>15, <2>1
  <2> QED BY <1>2, <2>2
<1>17. \A i \in Nat : i \in DOMAIN v <=> i \in DOMAIN w
  <2>1. \A i \in Nat : i \in 1 .. at + Len(data) => i \in 1 .. Len(w)
    BY <1>2, <1>3, <1>16
  <2> QED BY <1>2, <1>5, <2>1 DEF IsPatched
<1>18. IsWritten(v, s, new)
  <2>1. \A i \in Nat : i \in DOMAIN v <=> i \in DOMAIN s \/ Covered(new, i)
    BY <1>1, <1>11, <1>17 DEF IsWritten
  <2>2. ASSUME NEW j \in DOMAIN new, NEW i \in Nat, Within(new[j], i)
        PROVE  v[i] = new[j].data[i - new[j].position]
    <3>1. j \in DOMAIN blocks /\ Within(blocks[j], i)
      BY <1>7, <1>10, <2>2
    <3>2. i \in DOMAIN w /\ w[i] = blocks[j].data[i - blocks[j].position]
      BY <1>1, <3>1 DEF IsWritten, Covered
    <3>3. CASE j # k
      <4>1. ~ InRange(i, at, data)
        BY <1>14, <3>1, <3>3, OneBlock
      <4> QED BY <1>5, <1>7, <3>1, <3>2, <3>3, <4>1 DEF IsPatched
    <3>4. CASE j = k /\ InRange(i, at, data)
      <4>1. i - q \in Nat /\ InRange(i - q, from, data) /\ (i - q) - from = i - at
        BY <1>4, <1>22, <3>4
      <4>2. bytes[i - q] = data[i - at] /\ v[i] = data[i - at]
        <5>1. bytes[i - q] = data[(i - q) - from]
          BY <1>5, <4>1 DEF IsPatched
        <5>2. v[i] = data[i - at]
          BY <1>5, <3>4 DEF IsPatched
        <5> QED BY <4>1, <5>1, <5>2
      <4> QED BY <1>7, <3>4, <4>2
    <3>5. CASE j = k /\ ~ InRange(i, at, data)
      <4>1. i - q \in DOMAIN old /\ ~ InRange(i - q, from, data)
        BY <1>4, <1>22, <3>1, <3>5
      <4>2. bytes[i - q] = old[i - q] /\ v[i] = w[i]
        <5>1. bytes[i - q] = old[i - q]
          BY <1>5, <4>1 DEF IsPatched
        <5>2. v[i] = w[i]
          BY <1>5, <3>2, <3>5 DEF IsPatched
        <5> QED BY <5>1, <5>2
      <4>3. new[k].data = bytes /\ new[k].position = q
        BY <1>7
      <4> QED BY <3>2, <3>5, <4>2, <4>3 DEF q
    <3> QED BY <3>3, <3>4, <3>5
  <2>3. ASSUME NEW i \in DOMAIN v, ~ Covered(new, i)
        PROVE  v[i] = s[i]
    <3>1. i \in Nat /\ ~ Covered(blocks, i)
      BY <1>5, <1>11, <2>3 DEF IsPatched
    <3>2. ~ InRange(i, at, data) /\ i \in DOMAIN w
      BY <1>14, <1>17, <2>3, <3>1 DEF Covered
    <3> QED BY <1>1, <1>5, <3>1, <3>2 DEF IsPatched, IsWritten
  <2> QED BY <1>5, <2>1, <2>2, <2>3 DEF IsWritten, IsPatched
<1>19. IsWritten(Written(s, new), s, new)
  BY <1>12, <1>13, WrittenIs
<1>20. Written(s, new) = v
  BY <1>18, <1>19, WrittenUnique
<1>21. at <= Len(w)
  BY <1>2, <1>3, <1>16
<1> QED BY <1>7, <1>8, <1>12, <1>13, <1>20, <1>21 DEF v, w, new, bytes, q, from, Changed

-----------------------------------------------------------------------------
(* Where the search for a region of the file ends.                         *)

\* midp_file_cache_write's search ends at a block that overlaps or at the
\* place to insert.
LEMMA ScanIs ==
  ASSUME NEW blocks, BlockList(blocks), NEW at \in Nat, NEW n \in Nat \ {0}
  PROVE  /\ Scan(blocks, at, n) \in 1 .. Len(blocks) + 1
         /\ \/ /\ Scan(blocks, at, n) \in DOMAIN blocks
               /\ Overlaps(blocks[Scan(blocks, at, n)], at, n)
            \/ Apart(blocks, at, n, Scan(blocks, at, n) - 1)
<1> DEFINE S == {Len(blocks) + 1}
                \cup {i \in DOMAIN blocks : Overlaps(blocks[i], at, n) \/ at + n <= blocks[i].position}
<1>1. Len(blocks) \in Nat /\ DOMAIN blocks = 1 .. Len(blocks)
  <2>1. blocks \in Seq(Block)
    BY DEF BlockList
  <2> QED BY <2>1
<1>2. S \in SUBSET Nat /\ S # {} /\ S \subseteq 1 .. Len(blocks) + 1
  BY <1>1
<1> HIDE DEF S
<1>3. PICK m \in S : \A y \in S : m <= y
  BY <1>2, LeastExists
<1>4. Scan(blocks, at, n) = m
  <2>1. Min(S) = m
    BY <1>2, <1>3, MinIs
  <2> QED BY <2>1 DEF Scan, S
<1>5. m \in 1 .. Len(blocks) + 1 /\ m \in Nat
  BY <1>2
<1>6. \A k \in DOMAIN blocks : blocks[k].position \in Nat /\ Len(blocks[k].data) \in Nat
        /\ End(blocks[k]) = blocks[k].position + Len(blocks[k].data) /\ End(blocks[k]) \in Nat
  BY BlockType
<1>7. ASSUME NEW k \in DOMAIN blocks, k < m
      PROVE  End(blocks[k]) <= at
  <2>1. k \notin S
    <3>1. k \in Int
      BY <1>1
    <3> QED BY <1>3, <1>5, <1>7, <3>1
  <2>2. ~ Overlaps(blocks[k], at, n) /\ ~(at + n <= blocks[k].position)
    BY <2>1 DEF S
  <2> QED BY <1>6, <2>2 DEF Overlaps, IsOverlap
<1>8. ASSUME m \in DOMAIN blocks, ~ Overlaps(blocks[m], at, n), NEW k \in DOMAIN blocks, m <= k
      PROVE  at + n <= blocks[k].position
  <2>1. at + n <= blocks[m].position
    BY <1>1, <1>8 DEF S
  <2>2. CASE k = m
    BY <2>1, <2>2
  <2>3. CASE k # m
    <3>1. m < k
      BY <1>1, <1>5, <1>8, <2>3
    <3>2. End(blocks[m]) <= blocks[k].position
      BY <1>8, <3>1 DEF BlockList
    <3> QED BY <1>6, <1>8, <2>1, <3>2
  <2> QED BY <2>2, <2>3
<1>9. ASSUME ~(m \in DOMAIN blocks /\ Overlaps(blocks[m], at, n))
      PROVE  Apart(blocks, at, n, m - 1)
  <2>1. m - 1 \in 0 .. Len(blocks)
    BY <1>1, <1>5
  <2>2. \A k \in 1 .. m - 1 : k \in DOMAIN blocks /\ k < m
    BY <1>1, <1>5
  <2>3. \A k \in (m - 1) + 1 .. Len(blocks) : m \in DOMAIN blocks /\ k \in DOMAIN blocks /\ m <= k
    BY <1>1, <1>5
  <2> QED BY <1>7, <1>8, <1>9, <2>1, <2>2, <2>3 DEF Apart
<1> QED BY <1>4, <1>5, <1>9

\* So does midp_file_cache_read's, which also finds the block that has all
\* bytes.
LEMMA HitIs ==
  ASSUME NEW c \in Cache, BlockList(c.blocks), NEW n \in Nat \ {0}
  PROVE  LET i == Scan(c.blocks, c.position, n)
         IN  /\ ~ Hits(c, n) => Apart(c.blocks, c.position, n, i - 1)
             /\ HitIncludes(c, n) =>
                  /\ i \in DOMAIN c.blocks
                  /\ c.blocks[i].position <= c.position
                  /\ c.position + n <= End(c.blocks[i])
<1> DEFINE i == Scan(c.blocks, c.position, n)
<1>1. c.position \in Nat
  BY DEF Cache
<1>2. \/ i \in DOMAIN c.blocks /\ Overlaps(c.blocks[i], c.position, n)
      \/ Apart(c.blocks, c.position, n, i - 1)
  BY <1>1, ScanIs
<1> HIDE DEF i
<1>3. ~ Hits(c, n) => Apart(c.blocks, c.position, n, i - 1)
  BY <1>2 DEF Hits, i
<1>4. HitIncludes(c, n) =>
        /\ i \in DOMAIN c.blocks
        /\ c.blocks[i].position <= c.position
        /\ c.position + n <= End(c.blocks[i])
  <2> SUFFICES ASSUME HitIncludes(c, n)
               PROVE  /\ i \in DOMAIN c.blocks
                      /\ c.blocks[i].position <= c.position
                      /\ c.position + n <= End(c.blocks[i])
    OBVIOUS
  <2>1. i \in DOMAIN c.blocks /\ Includes(c.blocks[i], c.position, n)
    BY DEF HitIncludes, Hits, i
  <2>2. c.blocks[i].position \in Nat /\ Len(c.blocks[i].data) \in Nat
        /\ End(c.blocks[i]) = c.blocks[i].position + Len(c.blocks[i].data)
    BY <2>1, BlockType
  <2> QED BY <1>1, <2>1, <2>2 DEF Includes, IsInclude
<1> QED BY <1>3, <1>4 DEF i

-----------------------------------------------------------------------------
(* What the blocks cost.                                                   *)

IsSum(f, q) ==
  /\ f \in [0 .. Len(q) -> Nat]
  /\ f[0] = 0
  /\ \A n \in 1 .. Len(q) : f[n] = f[n - 1] + Cost(q[n].data)

\* Every block costs a natural number of bytes.
LEMMA CostType ==
  ASSUME NEW b \in Block
  PROVE  Cost(b.data) \in Nat
BY Sizes DEF Cost, Block

\* The costs of the blocks add up.
LEMMA SumExists ==
  ASSUME NEW q \in Seq(Block)
  PROVE  \E f : IsSum(f, q)
<1> DEFINE N == Len(q)
           s == [x \in (1 .. N) \X Nat |-> x[2] + Cost(q[x[1]].data)]
<1>1. \A n \in 1 .. N : Cost(q[n].data) \in Nat
  <2>1. \A n \in 1 .. N : q[n] \in Block
    OBVIOUS
  <2> QED BY <2>1, CostType
<1>2. s \in [(1 .. N) \X Nat -> Nat]
  BY <1>1
<1>3. \A n \in 1 .. N, v \in Nat : s[<<n, v>>] = v + Cost(q[n].data)
  OBVIOUS
<1> HIDE DEF s
<1>4. N \in Nat
  OBVIOUS
<1> HIDE DEF N
<1>5. PICK f : IsIteration(f, Nat, 0, N, s)
  <2>1. 0 \in Nat
    OBVIOUS
  <2> QED BY <1>2, <1>4, <2>1, Iterated
<1>6. \A n \in 1 .. N : f[n] = f[n - 1] + Cost(q[n].data)
  <2> SUFFICES ASSUME NEW n \in 1 .. N PROVE f[n] = f[n - 1] + Cost(q[n].data)
    OBVIOUS
  <2>1. n - 1 \in 0 .. N /\ f[n - 1] \in Nat
    BY <1>4, <1>5 DEF IsIteration
  <2> QED BY <1>3, <1>5, <2>1 DEF IsIteration
<1> QED BY <1>5, <1>6 DEF IsSum, N, IsIteration

\* CostOf is that sum, by whatever function it is computed.
LEMMA CostIs ==
  ASSUME NEW q \in Seq(Block), NEW g, IsSum(g, q)
  PROVE  CostOf(q) = g[Len(q)]
<1> DEFINE F(h) == [n \in 0 .. Len(q) |-> IF n = 0 THEN 0 ELSE h[n - 1] + Cost(q[n].data)]
           f == CHOOSE h : h = F(h)
<1>1. f = F(f)
  <2>1. g = F(g)
    <3>1. \A n \in 0 .. Len(q) : g[n] = IF n = 0 THEN 0 ELSE g[n - 1] + Cost(q[n].data)
      BY DEF IsSum
    <3>2. g = [n \in 0 .. Len(q) |-> g[n]]
      BY DEF IsSum
    <3> QED BY <3>1, <3>2
  <2> HIDE DEF F
  <2> QED BY <2>1
<1>2. CostOf(q) = f[Len(q)]
  BY DEF CostOf
<1> HIDE DEF f
<1>3. \A n \in 0 .. Len(q) : f[n] = g[n]
  <2> DEFINE D == {n \in 0 .. Len(q) : f[n] # g[n]}
  <2> SUFFICES ASSUME D # {} PROVE FALSE
    OBVIOUS
  <2>1. D \in SUBSET Nat
    OBVIOUS
  <2> HIDE DEF D
  <2>2. PICK n \in D : \A m \in D : n <= m
    BY <2>1, LeastExists
  <2> USE DEF D
  <2>3. n # 0
    BY <1>1 DEF IsSum
  <2>4. n - 1 \in 0 .. Len(q) /\ n - 1 \notin D /\ n \in 1 .. Len(q)
    BY <2>2, <2>3
  <2>5. f[n - 1] = g[n - 1]
    BY <2>4
  <2>6. f[n] = f[n - 1] + Cost(q[n].data)
    BY <1>1, <2>3
  <2>7. g[n] = g[n - 1] + Cost(q[n].data)
    BY <2>4 DEF IsSum
  <2> QED BY <2>5, <2>6, <2>7
<1> QED BY <1>2, <1>3

\* No blocks cost nothing.
LEMMA CostOfNone == CostOf(<< >>) = 0
<1> DEFINE f == [n \in 0 .. 0 |-> 0]
<1>1. IsSum(f, << >>)
  <2>1. Len(<< >>) = 0 /\ f \in [0 .. 0 -> Nat] /\ f[0] = 0 /\ 1 .. 0 = {}
    OBVIOUS
  <2> HIDE DEF f
  <2> QED BY <2>1 DEF IsSum
<1>2. << >> \in Seq(Block) /\ Len(<< >>) = 0 /\ f[0] = 0
  OBVIOUS
<1> HIDE DEF f
<1> QED BY <1>1, <1>2, CostIs

(* Blocks of the same sizes cost the same.                                 *)
LEMMA CostOfSameSizes ==
  ASSUME NEW p \in Seq(Block), NEW q \in Seq(Block), DOMAIN p = DOMAIN q,
         \A j \in DOMAIN q : Len(p[j].data) = Len(q[j].data)
  PROVE  CostOf(p) = CostOf(q)
<1>1. PICK f : IsSum(f, q)
  BY SumExists
<1>2. Len(p) = Len(q)
  OBVIOUS
<1>3. \A j \in 1 .. Len(q) : Cost(p[j].data) = Cost(q[j].data)
  BY DEF Cost
<1>4. IsSum(f, p)
  BY <1>1, <1>2, <1>3 DEF IsSum
<1> QED BY <1>1, <1>2, <1>4, CostIs

(* A new block adds its cost.                                              *)
LEMMA CostOfInserted ==
  ASSUME NEW q \in Seq(Block), NEW p \in 0 .. Len(q), NEW b \in Block
  PROVE  CostOf(InsertAt(q, p + 1, b)) = CostOf(q) + Cost(b.data)
<1> DEFINE r == InsertAt(q, p + 1, b)
           n == Len(q)
           c == Cost(b.data)
<1>1. r \in Seq(Block) /\ IsInserted(r, q, p, b)
  BY Inserted
<1> HIDE DEF r
<1>2. n \in Nat /\ p \in Nat /\ p <= n /\ Len(r) = n + 1 /\ c \in Nat
  BY <1>1, CostType DEF IsInserted
<1>3. PICK f : IsSum(f, q)
  BY SumExists
<1>4. f \in [0 .. n -> Nat] /\ f[0] = 0
  BY <1>3 DEF IsSum
<1> DEFINE g == [m \in 0 .. n + 1 |-> IF m <= p THEN f[m] ELSE f[m - 1] + c]
<1>5. g \in [0 .. n + 1 -> Nat]
  <2>1. \A m \in 0 .. n + 1 : (m <= p => m \in 0 .. n) /\ (~(m <= p) => m - 1 \in 0 .. n)
    BY <1>2
  <2> HIDE DEF n, c
  <2> QED BY <1>2, <1>4, <2>1
<1>6. g[0] = 0 /\ g[n + 1] = f[n] + c
  <2>1. 0 \in 0 .. n + 1 /\ n + 1 \in 0 .. n + 1 /\ 0 <= p /\ ~(n + 1 <= p) /\ (n + 1) - 1 = n
    BY <1>2
  <2> HIDE DEF n, c
  <2> QED BY <1>4, <2>1
<1>7. ASSUME NEW m \in 1 .. n + 1
      PROVE  g[m] = g[m - 1] + Cost(r[m].data)
  <2>1. CASE m <= p
    <3>1. m \in 1 .. n /\ m \in 1 .. p /\ m - 1 <= p /\ m - 1 \in 0 .. n + 1 /\ m \in 0 .. n + 1
      BY <1>2, <2>1
    <3>2. r[m] = q[m]
      BY <1>1, <3>1 DEF IsInserted
    <3>3. f[m] = f[m - 1] + Cost(q[m].data)
      BY <1>3, <3>1 DEF IsSum
    <3>4. g[m] = f[m] /\ g[m - 1] = f[m - 1]
      BY <2>1, <3>1
    <3> HIDE DEF g
    <3> QED BY <3>2, <3>3, <3>4
  <2>2. CASE m = p + 1
    <3>1. m - 1 = p /\ m - 1 \in 0 .. n + 1 /\ m \in 0 .. n + 1 /\ ~(m <= p)
      BY <1>2, <2>2
    <3>2. g[m] = f[p] + c /\ g[m - 1] = f[p]
      BY <3>1
    <3>3. r[m] = b
      BY <1>1, <2>2 DEF IsInserted
    <3> HIDE DEF g
    <3> QED BY <3>2, <3>3
  <2>3. CASE m > p + 1
    <3>1. /\ m - 1 \in p + 1 .. n /\ (m - 1) + 1 = m /\ m - 1 \in 1 .. n
          /\ m - 1 \in 0 .. n + 1 /\ m \in 0 .. n + 1 /\ ~(m <= p) /\ ~(m - 1 <= p)
          /\ (m - 1) - 1 \in 0 .. n
      BY <1>2, <2>3
    <3>2. r[m] = q[m - 1]
      BY <1>1, <3>1 DEF IsInserted
    <3>3. f[m - 1] = f[(m - 1) - 1] + Cost(q[m - 1].data)
      BY <1>3, <3>1 DEF IsSum
    <3>4. g[m] = f[m - 1] + c /\ g[m - 1] = f[(m - 1) - 1] + c
      BY <3>1
    <3>5. f[(m - 1) - 1] \in Nat /\ Cost(q[m - 1].data) \in Nat
      <4>1. q[m - 1] \in Block
        BY <3>1
      <4> QED BY <1>4, <3>1, <4>1, CostType
    <3> HIDE DEF g, c
    <3> QED BY <1>2, <3>2, <3>3, <3>4, <3>5
  <2> QED BY <1>2, <2>1, <2>2, <2>3
<1> HIDE DEF g
<1>8. IsSum(g, r)
  BY <1>2, <1>5, <1>6, <1>7 DEF IsSum
<1>9. CostOf(r) = g[n + 1] /\ CostOf(q) = f[n]
  BY <1>1, <1>2, <1>3, <1>8, CostIs
<1> QED BY <1>6, <1>9 DEF r

-----------------------------------------------------------------------------
(* What a read returns.                                                    *)

\* A read from storage: the bytes there are, at most n.
LEMMA ReadIs ==
  ASSUME NEW s \in Seq(Nat), NEW at \in Nat, NEW n \in Nat
  PROVE  /\ StorageRead(s, at, n) \in Seq(Nat)
         /\ \A i \in Nat : i \in DOMAIN StorageRead(s, at, n) <=> i \in 1 .. n /\ at + i \in DOMAIN s
         /\ \A i \in DOMAIN StorageRead(s, at, n) : StorageRead(s, at, n)[i] = s[at + i]
<1> DEFINE m == Min({at + n, Len(s)})
           r == SubSeq(s, at + 1, m)
           l == Len(s)
<1>1. l \in Nat /\ at + n \in Nat
  OBVIOUS
<1>2. m \in {at + n, l} /\ m \in Nat /\ m <= at + n /\ m <= l
  BY <1>1, MinOfTwo, Zenon
<1> HIDE DEF m
<1>3. /\ r \in Seq(Nat)
      /\ Len(r) = IF at + 1 <= m THEN m - at ELSE 0
      /\ \A i \in 1 .. m - at : r[i] = s[at + i]
  BY <1>2, PartIs
<1> HIDE DEF r
<1>4. DOMAIN r = 1 .. Len(r) /\ DOMAIN s = 1 .. l
  BY <1>3
<1> HIDE DEF l
<1>5. \A i \in Nat : i \in 1 .. Len(r) <=> i \in 1 .. m - at
  BY <1>2, <1>3
<1>6. \A i \in Nat : i \in 1 .. m - at <=> i \in 1 .. n /\ at + i \in 1 .. l
  BY <1>1, <1>2
<1>7. StorageRead(s, at, n) = r
  BY DEF StorageRead, r, m
<1>8. \A i \in Nat : i \in DOMAIN r <=> i \in 1 .. n /\ at + i \in DOMAIN s
  BY <1>4, <1>5, <1>6
<1>9. \A i \in DOMAIN r : r[i] = s[at + i]
  <2>1. \A i \in DOMAIN r : i \in 1 .. m - at
    BY <1>3, <1>4, <1>5
  <2> QED BY <1>3, <2>1
<1> QED BY <1>3, <1>7, <1>8, <1>9

(* Inside a block, its bytes.                                              *)
LEMMA ReadInside ==
  ASSUME NEW s \in Seq(Nat), NEW blocks, BlockList(blocks), NoHoles(s, blocks),
         NEW n \in Nat, NEW at \in Nat, NEW k \in DOMAIN blocks,
         blocks[k].position <= at, at + n <= End(blocks[k])
  PROVE  StorageRead(blocks[k].data, at - blocks[k].position, n) =
           StorageRead(Written(s, blocks), at, n)
<1> DEFINE q == blocks[k].position
           w == Written(s, blocks)
           old == blocks[k].data
           m == Len(old)
           from == at - q
           x == StorageRead(old, from, n)
           y == StorageRead(w, at, n)
<1>1. IsWritten(w, s, blocks)
  BY WrittenIs
<1>2. q \in Nat /\ old \in Seq(Nat) /\ m \in Nat /\ from \in Nat /\ from = at - q /\ at + n <= q + m
      /\ \A i \in Nat : Within(blocks[k], i) <=> i \in q + 1 .. q + m
  BY BlockType
<1>3. w \in Seq(Nat) /\ DOMAIN old = 1 .. m
  BY <1>1, <1>2 DEF IsWritten
<1> HIDE DEF w
<1>4. /\ x \in Seq(Nat) /\ y \in Seq(Nat)
      /\ \A i \in Nat : i \in DOMAIN x <=> i \in 1 .. n /\ from + i \in DOMAIN old
      /\ \A i \in DOMAIN x : x[i] = old[from + i]
      /\ \A i \in Nat : i \in DOMAIN y <=> i \in 1 .. n /\ at + i \in DOMAIN w
      /\ \A i \in DOMAIN y : y[i] = w[at + i]
  <2>1. at \in Nat /\ n \in Nat /\ from \in Nat /\ old \in Seq(Nat)
    BY <1>2
  <2> HIDE DEF from, old
  <2>2. /\ x \in Seq(Nat)
        /\ \A i \in Nat : i \in DOMAIN x <=> i \in 1 .. n /\ from + i \in DOMAIN old
        /\ \A i \in DOMAIN x : x[i] = old[from + i]
    BY <2>1, ReadIs, Zenon
  <2>3. /\ y \in Seq(Nat)
        /\ \A i \in Nat : i \in DOMAIN y <=> i \in 1 .. n /\ at + i \in DOMAIN w
        /\ \A i \in DOMAIN y : y[i] = w[at + i]
    BY <1>3, <2>1, ReadIs, Zenon
  <2> QED BY <2>2, <2>3, Zenon
<1> HIDE DEF x, y
<1>5. ASSUME NEW i \in 1 .. n
      PROVE  from + i \in DOMAIN old /\ at + i \in DOMAIN w /\ w[at + i] = old[from + i]
  <2> HIDE DEF q, m, old, from
  <2>1. from + i \in 1 .. m /\ at + i \in q + 1 .. q + m /\ at + i \in Nat /\ (at + i) - q = from + i
    BY <1>2
  <2>2. Within(blocks[k], at + i)
    BY <1>2, <2>1
  <2>3. at + i \in DOMAIN w /\ w[at + i] = old[(at + i) - q]
    <3>1. Covered(blocks, at + i)
      BY <2>2 DEF Covered
    <3> QED BY <1>1, <2>1, <2>2, <3>1 DEF IsWritten, old, q
  <2> QED BY <1>3, <2>1, <2>3
<1>6. DOMAIN x = DOMAIN y
  <2>1. DOMAIN x \subseteq Nat /\ DOMAIN y \subseteq Nat
    BY <1>4
  <2>2. \A i \in Nat : i \in DOMAIN x <=> i \in DOMAIN y
    BY <1>4, <1>5
  <2> QED BY <2>1, <2>2
<1>7. \A i \in DOMAIN x : x[i] = y[i]
  <2>1. DOMAIN x \subseteq Nat
    BY <1>4
  <2> QED BY <1>4, <1>5, <1>6, <2>1
<1> QED BY <1>4, <1>6, <1>7, SameList DEF x, y, w

(* Apart from all blocks, the storage's.                                   *)
LEMMA ReadOutside ==
  ASSUME NEW s \in Seq(Nat), NEW blocks, BlockList(blocks), NoHoles(s, blocks),
         NEW n \in Nat, NEW at \in Nat, NEW p, Apart(blocks, at, n, p)
  PROVE  StorageRead(s, at, n) = StorageRead(Written(s, blocks), at, n)
<1> DEFINE w == Written(s, blocks)
           x == StorageRead(s, at, n)
           y == StorageRead(w, at, n)
<1>1. IsWritten(w, s, blocks)
  BY WrittenIs
<1>2. w \in Seq(Nat)
  BY <1>1 DEF IsWritten
<1> HIDE DEF w
<1>3. /\ x \in Seq(Nat) /\ y \in Seq(Nat)
      /\ \A i \in Nat : i \in DOMAIN x <=> i \in 1 .. n /\ at + i \in DOMAIN s
      /\ \A i \in DOMAIN x : x[i] = s[at + i]
      /\ \A i \in Nat : i \in DOMAIN y <=> i \in 1 .. n /\ at + i \in DOMAIN w
      /\ \A i \in DOMAIN y : y[i] = w[at + i]
  BY <1>2, ReadIs
<1> HIDE DEF x, y
<1>4. ASSUME NEW i \in 1 .. n
      PROVE  /\ at + i \in DOMAIN w <=> at + i \in DOMAIN s
             /\ at + i \in DOMAIN w => w[at + i] = s[at + i]
  <2>1. at + i \in Nat /\ at + i \in at + 1 .. at + n
    OBVIOUS
  <2>2. ~ Covered(blocks, at + i)
    BY <2>1, ApartUncovered
  <2> QED BY <1>1, <2>1, <2>2 DEF IsWritten
<1>5. DOMAIN x = DOMAIN y
  <2>1. DOMAIN x \subseteq Nat /\ DOMAIN y \subseteq Nat
    <3>1. x \in Seq(Nat) /\ y \in Seq(Nat)
      BY <1>3
    <3> QED BY <3>1
  <2>2. \A i \in Nat : i \in DOMAIN x <=> i \in DOMAIN y
    BY <1>3, <1>4
  <2> QED BY <2>1, <2>2
<1>6. \A i \in DOMAIN x : x[i] = y[i]
  <2>1. DOMAIN x \subseteq Nat
    BY <1>3
  <2> QED BY <1>3, <1>4, <1>5, <2>1
<1> QED BY <1>3, <1>5, <1>6, SameList DEF x, y, w

-----------------------------------------------------------------------------
(* The files as they are seen through a cache c of a disk d.               *)

View(d, o, c) ==
  [f \in Files |-> IF c # None /\ o[c.handle] = f THEN Written(d[f], c.blocks) ELSE d[f]]

Flush(d, o, c) == [d EXCEPT ![o[c.handle]] = Written(@, c.blocks)]

\* A cache record is not the absence of a cache.
LEMMA NotNone ==
  ASSUME NEW c \in Cache
  PROVE  /\ c # None /\ c.handle \in Handles /\ c.size \in Nat /\ c.position \in Nat
         /\ c.blocks \in Seq(Block)
         /\ c = [handle |-> c.handle, size |-> c.size, position |-> c.position, blocks |-> c.blocks]
BY NoneIsNothing DEF Cache

\* With a cache, what the file holds is what a flush would write.
LEMMA ViewIs ==
  ASSUME NEW d \in Disks, NEW o, NEW c \in Cache, Good(d, o, c)
  PROVE  View(d, o, c) = Flush(d, o, c) /\ Flush(d, o, c) \in Disks
<1> DEFINE f == o[c.handle]
<1>1. c # None
  BY NotNone
<1>2. f \in Files /\ BlockList(c.blocks) /\ NoHoles(d[f], c.blocks)
  BY <1>1 DEF Good
<1>3. Written(d[f], c.blocks) \in Seq(Nat)
  <2>1. d[f] \in Seq(Nat)
    BY <1>2 DEF Disks
  <2> QED BY <1>2, <2>1, WrittenIs DEF IsWritten
<1> QED BY <1>1, <1>2, <1>3 DEF View, Flush, Disks

\* Without one it is what the storage has.
LEMMA ViewNone ==
  ASSUME NEW d \in Disks, NEW o
  PROVE  View(d, o, None) = d
BY DEF View, Disks

\* Nothing to flush leaves a file as it is.
LEMMA WrittenNone ==
  ASSUME NEW s \in Seq(Nat)
  PROVE  Written(s, << >>) = s /\ BlockList(<< >>) /\ NoHoles(s, << >>)
<1>1. << >> \in Seq(Block) /\ DOMAIN << >> = {}
  OBVIOUS
<1>2. BlockList(<< >>) /\ NoHoles(s, << >>)
  BY <1>1 DEF BlockList, NoHoles
<1>3. IsWritten(Written(s, << >>), s, << >>)
  BY <1>2, WrittenIs
<1>4. IsWritten(s, s, << >>)
  BY <1>1 DEF IsWritten, Covered
<1> QED BY <1>2, <1>3, <1>4, WrittenUnique

(* A cache without blocks shows the disk.                                  *)
LEMMA NoBlocks ==
  ASSUME NEW d \in Disks, NEW o, NEW c \in Cache, c.blocks = << >>, c.size = 0,
         o[c.handle] \in Files
  PROVE  Good(d, o, c) /\ View(d, o, c) = d
<1>1. d[o[c.handle]] \in Seq(Nat)
  BY DEF Disks
<1>2. /\ Written(d[o[c.handle]], << >>) = d[o[c.handle]]
      /\ BlockList(<< >>) /\ NoHoles(d[o[c.handle]], << >>)
  BY <1>1, WrittenNone
<1>3. Good(d, o, c)
  BY <1>2, CostOfNone, Sizes DEF Good
<1>4. View(d, o, c) = d
  BY <1>2 DEF View, Disks
<1> QED BY <1>3, <1>4

\* The cache after a flush.
LEMMA EmptyIs ==
  ASSUME NEW c \in Cache
  PROVE  /\ Empty(c) \in Cache /\ Empty(c).handle = c.handle /\ Empty(c).position = c.position
         /\ Empty(c).blocks = << >> /\ Empty(c).size = 0
<1>1. << >> \in Seq(Block)
  OBVIOUS
<1> QED BY <1>1 DEF Empty, Cache

(* Only its blocks and their file matter of a cache.                       *)
LEMMA SameBlocks ==
  ASSUME NEW d, NEW o, NEW u, NEW b \in Cache, NEW c \in Cache,
         b.blocks = c.blocks, b.size = c.size, o[b.handle] = u[c.handle]
  PROVE  /\ Good(d, o, b) => Good(d, u, c)
         /\ View(d, o, b) = View(d, u, c)
BY NotNone DEF Good, View

\* The content of the refinement mapping, by name.
LEMMA ContentIs ==
  ASSUME TypeOK, CacheOK
  PROVE  /\ Content = View(disk, open, cache) /\ Content \in Disks
         /\ cache # None => FlushedDisk = Flush(disk, open, cache) /\ FlushedDisk = Content
<1>1. CASE cache = None
  BY <1>1, ViewNone DEF Content, TypeOK, View, Disks
<1>2. CASE cache # None
  <2>1. cache \in Cache /\ CachedFile \in Files
    BY <1>2 DEF TypeOK, CacheOK, Good, CachedFile
  <2>2. FlushedDisk = Flush(disk, open, cache)
    BY DEF FlushedDisk, Flush, CachedFile
  <2>3. Content = View(disk, open, cache)
    BY <1>2, <2>1 DEF Content, View, FlushedDisk, CachedFile, TypeOK, Disks
  <2>4. View(disk, open, cache) = Flush(disk, open, cache) /\ Flush(disk, open, cache) \in Disks
    BY <2>1, ViewIs DEF TypeOK, CacheOK
  <2> QED BY <2>2, <2>3, <2>4
<1> QED BY <1>1, <1>2

\* And after a step.
LEMMA NextContentIs ==
  ASSUME TypeOK', CacheOK'
  PROVE  Content' = View(disk', open', cache')
<1>1. CASE cache' = None
  BY <1>1, ViewNone DEF Content, TypeOK, View, Disks
<1>2. CASE cache' # None
  <2>1. cache' \in Cache /\ open'[cache'.handle] \in Files
    BY <1>2 DEF TypeOK, CacheOK, Good
  <2> QED BY <1>2, <2>1 DEF Content, View, FlushedDisk, CachedFile, TypeOK, Disks
<1> QED BY <1>1, <1>2

-----------------------------------------------------------------------------
(* The three ways a write to the cached file takes effect.                 *)

WrittenThrough(d, o, c, e, u, data) ==
  /\ e \in Disks /\ u \in Cache /\ u.handle = c.handle
  /\ u.position = c.position + Len(data)
  /\ Good(e, o, u)
  /\ View(e, o, u) = [View(d, o, c) EXCEPT ![o[c.handle]] = StorageWrite(@, c.position, data)]

\* A write shows in the written file only, as a write to a plain file.
LEMMA WrittenThroughIs ==
  ASSUME NEW d \in Disks, NEW o, NEW c \in Cache, Good(d, o, c), NEW data,
         NEW e \in Disks, NEW u \in Cache, Good(e, o, u), u.handle = c.handle,
         u.position = c.position + Len(data),
         \A f \in Files : f # o[c.handle] => e[f] = d[f],
         Written(e[o[c.handle]], u.blocks) =
           StorageWrite(Written(d[o[c.handle]], c.blocks), c.position, data)
  PROVE  WrittenThrough(d, o, c, e, u, data)
<1> DEFINE f == o[c.handle]
           x == Written(d[f], c.blocks)
           y == StorageWrite(x, c.position, data)
<1>1. c # None /\ u # None /\ o[u.handle] = f
  BY NotNone
<1>2. Written(e[f], u.blocks) = y
  OBVIOUS
<1> HIDE DEF y, x, f
<1>3. /\ View(d, o, c) = [g \in Files |-> IF f = g THEN Written(d[g], c.blocks) ELSE d[g]]
      /\ View(e, o, u) = [g \in Files |-> IF f = g THEN Written(e[g], u.blocks) ELSE e[g]]
  BY <1>1 DEF View, f
<1>4. \A g \in Files : g # f => e[g] = d[g]
  BY DEF f
<1>5. f \in Files
  BY <1>1 DEF Good, f
<1>6. View(d, o, c)[f] = x
  BY <1>3, <1>5 DEF x
<1>7. View(e, o, u) = [View(d, o, c) EXCEPT ![f] = y]
  <2>1. View(e, o, u) = [g \in Files |-> IF f = g THEN y ELSE d[g]]
    BY <1>2, <1>3, <1>4
  <2>2. [View(d, o, c) EXCEPT ![f] = y] = [g \in Files |-> IF f = g THEN y ELSE d[g]]
    BY <1>3
  <2> QED BY <2>1, <2>2
<1>8. [View(d, o, c) EXCEPT ![f] = StorageWrite(@, c.position, data)] =
        [View(d, o, c) EXCEPT ![f] = y]
  BY <1>6 DEF y
<1> QED BY <1>7, <1>8 DEF WrittenThrough, f

\* The fields of a cache whose blocks and size are new.
LEMMA UpdatedCache ==
  ASSUME NEW c \in Cache, NEW blocks, NEW size
  PROVE  [c EXCEPT !.blocks = blocks, !.size = size] =
           [handle |-> c.handle, size |-> size, position |-> c.position, blocks |-> blocks]
<1> DEFINE d == [c EXCEPT !.blocks = blocks]
           e == [d EXCEPT !.size = size]
<1>1. d = [handle |-> c.handle, size |-> c.size, position |-> c.position, blocks |-> blocks]
  BY DEF Cache
<1>2. [c EXCEPT !.blocks = blocks, !.size = size] = e
  BY Zenon
<1> HIDE DEF d
<1>3. e = [handle |-> d.handle, size |-> size, position |-> d.position, blocks |-> d.blocks]
  BY <1>1
<1>4. d.handle = c.handle /\ d.position = c.position /\ d.blocks = blocks
  BY <1>1
<1> HIDE DEF e
<1> QED BY <1>2, <1>3, <1>4

\* midp_file_cache_write with a new block.
LEMMA InsertWrites ==
  ASSUME NEW d \in Disks, NEW o, NEW c \in Cache, Good(d, o, c), NEW data \in Seq(Nat) \ {<< >>},
         c.position <= Len(View(d, o, c)[o[c.handle]]),
         NEW p, Apart(c.blocks, c.position, Len(data), p),
         c.size + Cost(data) <= RMS_CACHE_LIMIT
  PROVE  WrittenThrough(d, o, c, d,
           Advanced([c EXCEPT !.blocks =
                        InsertAt(@, p + 1, [position |-> c.position, data |-> data]),
                      !.size = @ + Cost(data)], Len(data)), data)
<1> DEFINE u == Advanced([c EXCEPT !.blocks =
                             InsertAt(@, p + 1, [position |-> c.position, data |-> data]),
                           !.size = @ + Cost(data)], Len(data))
           f == o[c.handle]
           b == [position |-> c.position, data |-> data]
           new == InsertAt(c.blocks, p + 1, b)
           x == Written(d[f], c.blocks)
<1>1. /\ c.handle \in Handles /\ c.size \in Nat /\ c.position \in Nat
      /\ c.blocks \in Seq(Block) /\ c # None
      /\ c = [handle |-> c.handle, size |-> c.size, position |-> c.position, blocks |-> c.blocks]
  BY NotNone
<1>2. /\ f \in Files /\ BlockList(c.blocks) /\ NoHoles(d[f], c.blocks) /\ d[f] \in Seq(Nat)
      /\ c.size = CostOf(c.blocks)
  BY <1>1 DEF Good, Disks
<1>3. View(d, o, c)[f] = x
  BY <1>1, <1>2 DEF View
<1>4. x \in Seq(Nat)
  BY <1>2, WrittenIs DEF IsWritten
<1>5. c.position \in 0 .. Len(x)
  BY <1>1, <1>3, <1>4
<1>6. /\ BlockList(new) /\ NoHoles(d[f], new)
      /\ Written(d[f], new) = StorageWrite(x, c.position, data)
  BY <1>2, <1>5, InsertedBlock
<1>7. b \in Block /\ b.data = data
  BY <1>1 DEF Block
<1>8. Cost(data) \in Nat
  BY <1>7, CostType
<1>9. CostOf(new) = CostOf(c.blocks) + Cost(data)
  <2>1. p \in 0 .. Len(c.blocks)
    BY DEF Apart
  <2> QED BY <1>1, <1>7, <2>1, CostOfInserted
<1>10. new \in Seq(Block)
  BY <1>6 DEF BlockList
<1> HIDE DEF new
<1>11. u = [handle |-> c.handle, size |-> c.size + Cost(data),
            position |-> c.position + Len(data), blocks |-> new]
  <2>1. u = [[c EXCEPT !.blocks = new, !.size = c.size + Cost(data)]
               EXCEPT !.position = c.position + Len(data)]
    <3>1. [c EXCEPT !.blocks = new, !.size = c.size + Cost(data)].position = c.position
      BY <1>1
    <3> QED BY <3>1 DEF Advanced, new
  <2>2. [c EXCEPT !.blocks = new, !.size = c.size + Cost(data)] =
          [handle |-> c.handle, size |-> c.size + Cost(data),
           position |-> c.position, blocks |-> new]
    <3> DEFINE sz == c.size + Cost(data)
    <3> HIDE DEF sz
    <3>1. [c EXCEPT !.blocks = new, !.size = sz] =
            [handle |-> c.handle, size |-> sz, position |-> c.position, blocks |-> new]
      BY UpdatedCache
    <3> QED BY <3>1 DEF sz
  <2> QED BY <2>1, <2>2
<1> HIDE DEF u
<1>12. u \in Cache
  BY <1>1, <1>8, <1>10, <1>11 DEF Cache
<1>13. Good(d, o, u)
  BY <1>2, <1>6, <1>9, <1>11 DEF Good
<1> HIDE DEF x, f
<1>14. /\ u.handle = c.handle /\ u.position = c.position + Len(data)
       /\ Written(d[f], u.blocks) = StorageWrite(x, c.position, data)
  <2>1. u.handle = c.handle /\ u.position = c.position + Len(data) /\ u.blocks = new
    BY <1>11
  <2> QED BY <1>6, <2>1
<1> QED BY <1>12, <1>13, <1>14, WrittenThroughIs DEF x, f, u

\* updateCachedSizes moves the position only.
LEMMA AdvancedIs ==
  ASSUME NEW c \in Cache, NEW n \in Nat
  PROVE  /\ Advanced(c, n) \in Cache /\ Advanced(c, n).handle = c.handle
         /\ Advanced(c, n).blocks = c.blocks /\ Advanced(c, n).size = c.size
         /\ Advanced(c, n).position = c.position + n
BY DEF Advanced, Cache

\* uncachedWrite: the storage gets the bytes, no block has them.
LEMMA BypassWrites ==
  ASSUME NEW d \in Disks, NEW o, NEW c \in Cache, Good(d, o, c), NEW data \in Seq(Nat) \ {<< >>},
         c.position <= Len(View(d, o, c)[o[c.handle]]),
         NEW p, Apart(c.blocks, c.position, Len(data), p)
  PROVE  WrittenThrough(d, o, c, [d EXCEPT ![o[c.handle]] = StorageWrite(@, c.position, data)],
                        Advanced(c, Len(data)), data)
<1> DEFINE f == o[c.handle]
           x == Written(d[f], c.blocks)
           t == StorageWrite(d[f], c.position, data)
           e == [d EXCEPT ![f] = t]
           u == Advanced(c, Len(data))
<1>1. c.position \in Nat /\ c.blocks \in Seq(Block) /\ c # None /\ Len(data) \in Nat
  BY NotNone
<1>2. f \in Files /\ BlockList(c.blocks) /\ NoHoles(d[f], c.blocks) /\ d[f] \in Seq(Nat)
  BY <1>1 DEF Good, Disks
<1>3. View(d, o, c)[f] = x
  BY <1>1, <1>2 DEF View
<1>4. x \in Seq(Nat)
  BY <1>2, WrittenIs DEF IsWritten
<1>5. c.position \in 0 .. Len(x)
  BY <1>1, <1>3, <1>4
<1>6. t \in Seq(Nat) /\ NoHoles(t, c.blocks) /\ Written(t, c.blocks) = StorageWrite(x, c.position, data)
  BY <1>2, <1>5, BypassedBlocks
<1>7. /\ u \in Cache /\ u.handle = c.handle /\ u.blocks = c.blocks /\ u.size = c.size
      /\ u.position = c.position + Len(data)
  BY <1>1, AdvancedIs
<1> HIDE DEF t, u
<1>8. e \in Disks /\ e[f] = t /\ \A g \in Files : g # f => e[g] = d[g]
  BY <1>2, <1>6 DEF Disks
<1> HIDE DEF e
<1>9. Good(e, o, u)
  BY <1>1, <1>2, <1>6, <1>7, <1>8 DEF Good
<1>10. Written(e[f], u.blocks) = StorageWrite(x, c.position, data)
  BY <1>6, <1>7, <1>8
<1>11. WrittenThrough(d, o, c, e, u, data)
  BY <1>7, <1>8, <1>9, <1>10, WrittenThroughIs
<1> QED BY <1>11 DEF e, t, u

\* A cache whose blocks are replaced.
LEMMA ReblockedIs ==
  ASSUME NEW c \in Cache, NEW new
  PROVE  [c EXCEPT !.blocks = new] =
           [handle |-> c.handle, size |-> c.size, position |-> c.position, blocks |-> new]
BY DEF Cache

\* midp_file_cache_write into an existing block.
LEMMA ChangeWrites ==
  ASSUME NEW d \in Disks, NEW o, NEW c \in Cache, Good(d, o, c), NEW data \in Seq(Nat) \ {<< >>},
         NEW k \in DOMAIN c.blocks, c.blocks[k].position <= c.position,
         c.position + Len(data) <= End(c.blocks[k])
  PROVE  WrittenThrough(d, o, c, d,
           Advanced([c EXCEPT !.blocks[k].data =
                       StorageWrite(c.blocks[k].data, c.position - c.blocks[k].position, data)],
                    Len(data)), data)
<1> DEFINE u == Advanced([c EXCEPT !.blocks[k].data =
                            StorageWrite(c.blocks[k].data, c.position - c.blocks[k].position, data)],
                         Len(data))
           f == o[c.handle]
           bytes == StorageWrite(c.blocks[k].data, c.position - c.blocks[k].position, data)
           new == [c.blocks EXCEPT ![k].data = bytes]
           x == Written(d[f], c.blocks)
<1>1. /\ c.handle \in Handles /\ c.size \in Nat /\ c.position \in Nat
      /\ c.blocks \in Seq(Block) /\ c # None
      /\ c = [handle |-> c.handle, size |-> c.size, position |-> c.position, blocks |-> c.blocks]
      /\ Len(data) \in Nat
  BY NotNone
<1>2. /\ f \in Files /\ BlockList(c.blocks) /\ NoHoles(d[f], c.blocks) /\ d[f] \in Seq(Nat)
      /\ c.size = CostOf(c.blocks) /\ c.size <= RMS_CACHE_LIMIT
  BY <1>1 DEF Good, Disks
<1>3. /\ BlockList(new) /\ NoHoles(d[f], new)
      /\ DOMAIN new = DOMAIN c.blocks
      /\ \A j \in DOMAIN c.blocks : Len(new[j].data) = Len(c.blocks[j].data)
      /\ Written(d[f], new) = StorageWrite(x, c.position, data)
  <2>1. Changed(new, c.blocks, d[f], c.position, data)
    BY <1>1, <1>2, ChangedBlock
  <2> QED BY <2>1 DEF Changed
<1>4. new \in Seq(Block)
  BY <1>3 DEF BlockList
<1>5. CostOf(new) = c.size
  BY <1>1, <1>2, <1>3, <1>4, CostOfSameSizes
<1>6. u = [handle |-> c.handle, size |-> c.size,
           position |-> c.position + Len(data), blocks |-> new]
  <2>1. [c EXCEPT !.blocks[k].data = bytes] = [c EXCEPT !.blocks = new]
    BY <1>1
  <2> HIDE DEF new
  <2>2. [c EXCEPT !.blocks = new] =
          [handle |-> c.handle, size |-> c.size, position |-> c.position, blocks |-> new]
    BY ReblockedIs
  <2>3. u = Advanced([handle |-> c.handle, size |-> c.size,
                      position |-> c.position, blocks |-> new], Len(data))
    BY <2>1, <2>2
  <2> QED BY <2>3 DEF Advanced
<1> HIDE DEF new
<1> HIDE DEF u
<1>7. u \in Cache
  BY <1>1, <1>4, <1>6 DEF Cache
<1>8. Good(d, o, u)
  BY <1>2, <1>3, <1>5, <1>6 DEF Good
<1> HIDE DEF x, f
<1>9. /\ u.handle = c.handle /\ u.position = c.position + Len(data)
      /\ Written(d[f], u.blocks) = StorageWrite(x, c.position, data)
  <2>1. u.handle = c.handle /\ u.position = c.position + Len(data) /\ u.blocks = new
    BY <1>6
  <2> QED BY <1>3, <2>1
<1> QED BY <1>7, <1>8, <1>9, WrittenThroughIs DEF x, f, u

-----------------------------------------------------------------------------
(* Locks.                                                                  *)

LocksOK(o, q) ==
  /\ NoRepeat(q)
  /\ \A h \in Handles : o[h] # None => [file |-> o[h], handle |-> h] \in Elems(q)
  /\ \A l \in Elems(q) : o[l.handle] = l.file
  /\ \A k, l \in Elems(q) : k.file = l.file => k = l

\* LockedWhileOpen by the lists it is about.
LEMMA LocksAre ==
  ASSUME locks \in Seq(Lock)
  PROVE  LockedWhileOpen <=> LocksOK(open, locks)
<1>1. ToSet(locks) = Elems(locks)
  BY DEF ToSet, Elems
<1>2. (\A i \in DOMAIN locks : open[locks[i].handle] = locks[i].file)
        <=> \A l \in Elems(locks) : open[l.handle] = l.file
  BY DEF Elems
<1>3. (\A i, j \in DOMAIN locks : locks[i].file = locks[j].file => i = j)
        <=> /\ NoRepeat(locks)
            /\ \A k, l \in Elems(locks) : k.file = l.file => k = l
  <2>1. ASSUME \A i, j \in DOMAIN locks : locks[i].file = locks[j].file => i = j
        PROVE  NoRepeat(locks) /\ \A k, l \in Elems(locks) : k.file = l.file => k = l
    BY <2>1 DEF NoRepeat, Elems
  <2>2. ASSUME NoRepeat(locks), \A k, l \in Elems(locks) : k.file = l.file => k = l
        PROVE  \A i, j \in DOMAIN locks : locks[i].file = locks[j].file => i = j
    BY <2>2 DEF NoRepeat, Elems
  <2> QED BY <2>1, <2>2
<1> QED BY <1>1, <1>2, <1>3 DEF LockedWhileOpen, LocksOK

\* And after a step.
LEMMA NextLocksAre ==
  ASSUME locks' \in Seq(Lock), LocksOK(open', locks')
  PROVE  LockedWhileOpen'
<1>1. ToSet(locks') = Elems(locks')
  BY DEF ToSet, Elems
<1>2. \A i \in DOMAIN locks' : open'[locks'[i].handle] = locks'[i].file
  BY DEF Elems, LocksOK
<1>3. \A i, j \in DOMAIN locks' : locks'[i].file = locks'[j].file => i = j
  BY DEF NoRepeat, Elems, LocksOK
<1> QED BY <1>1, <1>2, <1>3 DEF LockedWhileOpen, LocksOK

\* findLockById answers whether the file is open.
LEMMA LockedIffOpen ==
  ASSUME IInv
  PROVE  /\ \A f \in Files : IsLocked(f) <=> File!IsOpen(f)
         /\ \A h, g \in Handles : open[h] = open[g] /\ open[h] # None => h = g
         /\ LocksOK(open, locks)
<1>1. LocksOK(open, locks) /\ locks \in Seq(Lock)
  BY LocksAre DEF IInv, TypeOK
<1>2. Elems(locks) \subseteq Lock
  BY <1>1, ElemsType
<1>3. ASSUME NEW f \in Files
      PROVE  IsLocked(f) <=> File!IsOpen(f)
  <2>1. IsLocked(f) <=> \E l \in Elems(locks) : l.file = f
    BY DEF IsLocked, Elems
  <2>2. ASSUME NEW l \in Elems(locks), l.file = f
        PROVE  \E h \in Handles : open[h] = f
    BY <1>1, <1>2, <2>2 DEF LocksOK, Lock
  <2>3. ASSUME NEW h \in Handles, open[h] = f
        PROVE  \E l \in Elems(locks) : l.file = f
    BY <1>1, <2>3, NoneIsNothing DEF LocksOK
  <2> QED BY <2>1, <2>2, <2>3 DEF File!IsOpen
<1>4. ASSUME NEW h \in Handles, NEW g \in Handles, open[h] = open[g], open[h] # None
      PROVE  h = g
  <2>1. /\ [file |-> open[h], handle |-> h] \in Elems(locks)
        /\ [file |-> open[g], handle |-> g] \in Elems(locks)
    BY <1>1, <1>4 DEF LocksOK
  <2>2. [file |-> open[h], handle |-> h] = [file |-> open[g], handle |-> g]
    BY <1>1, <1>4, <2>1 DEF LocksOK
  <2> QED BY <2>2
<1> QED BY <1>1, <1>3, <1>4

(* The lock that Close drops is the one of its handle.                     *)
LEMMA UnlockedIs ==
  ASSUME IInv, NEW h \in Handles, open[h] # None
  PROVE  /\ Unlocked(h) \in Seq(Lock) /\ NoRepeat(Unlocked(h))
         /\ Elems(Unlocked(h)) = Elems(locks) \ {[file |-> open[h], handle |-> h]}
<1> DEFINE x == [file |-> open[h], handle |-> h]
           I == {j \in 1 .. Len(locks) : locks[j].handle = h}
<1>1. locks \in Seq(Lock) /\ LocksOK(open, locks)
  BY LockedIffOpen DEF IInv, TypeOK
<1>2. x \in Elems(locks) /\ x.handle = h
  BY <1>1 DEF LocksOK
<1>3. I # {} /\ I \subseteq Nat /\ DOMAIN locks = 1 .. Len(locks)
  BY <1>1, <1>2 DEF Elems
<1>4. PICK n \in I : \A m \in I : n <= m
  BY <1>3, LeastExists
<1>5. Min(I) \in I
  BY <1>3, <1>4 DEF Min
<1> DEFINE i == Min(I)
<1>6. SelectInSeq(locks, LAMBDA l : l.handle = h) = i
  BY <1>3 DEF SelectInSeq
<1>7. Unlocked(h) = RemoveAt(locks, i)
  <2>1. \E j \in 1 .. Len(locks) : locks[j].handle = h
    BY <1>3
  <2> QED BY <1>6, <2>1 DEF Unlocked, RemoveFirstMatch
<1>8. i \in DOMAIN locks /\ locks[i].handle = h
  BY <1>3, <1>5
<1> HIDE DEF i
<1>9. locks[i] = x
  <2>1. locks[i] \in Lock /\ locks[i] \in Elems(locks)
    BY <1>1, <1>8 DEF Elems
  <2>2. locks[i].file = open[h]
    BY <1>1, <1>8, <2>1 DEF LocksOK
  <2> QED BY <1>8, <2>1, <2>2 DEF Lock
<1> HIDE DEF x
<1>10. RemoveAt(locks, i) \in Seq(Lock)
  BY <1>1, <1>8, RemovedAt
<1>11. /\ Elems(locks) = Elems(RemoveAt(locks, i)) \cup {x}
       /\ NoRepeat(RemoveAt(locks, i)) /\ x \notin Elems(RemoveAt(locks, i))
  BY <1>1, <1>8, <1>9, RemovedAtElems DEF LocksOK
<1> QED BY <1>7, <1>10, <1>11 DEF x

-----------------------------------------------------------------------------
(* What the steps have in common.                                          *)

PositionOf(c, p) == [h \in Handles |-> IF c # None /\ c.handle = h THEN c.position ELSE p[h]]

\* All that the inductive invariant says, by part.
LEMMA Now ==
  ASSUME IInv
  PROVE  /\ disk \in Disks /\ open \in [Handles -> Files \cup {None}] /\ ospos \in [Handles -> Nat]
         /\ cache \in Cache \cup {None} /\ locks \in Seq(Lock)
         /\ Good(disk, open, cache) /\ LocksOK(open, locks)
         /\ Content = View(disk, open, cache) /\ Content \in Disks
         /\ Position = PositionOf(cache, ospos) /\ Position \in [Handles -> Nat]
         /\ cache = None => Content = disk
<1>1. Position = PositionOf(cache, ospos)
  BY DEF Position, PositionOf, Cached
<1>2. Position \in [Handles -> Nat]
  BY NotNone DEF IInv, TypeOK, Position, Cached
<1>3. cache = None => Content = disk
  BY DEF Content, IInv, TypeOK, Disks
<1> QED BY <1>1, <1>2, <1>3, ContentIs, LockedIffOpen DEF IInv, TypeOK, CacheOK

\* And what has to be shown of the next state.
LEMMA Then ==
  ASSUME disk' \in Disks, open' \in [Handles -> Files \cup {None}], ospos' \in [Handles -> Nat],
         cache' \in Cache \cup {None}, locks' \in Seq(Lock),
         Good(disk', open', cache'), LocksOK(open', locks')
  PROVE  IInv' /\ Content' = View(disk', open', cache') /\ Position' = PositionOf(cache', ospos')
<1>1. TypeOK' /\ CacheOK'
  BY DEF TypeOK, CacheOK
<1>2. LockedWhileOpen'
  BY NextLocksAre
<1>3. Position' = PositionOf(cache', ospos')
  BY DEF Position, PositionOf, Cached
<1> QED BY <1>1, <1>2, <1>3, NextContentIs DEF IInv

\* A flush changes what storage and cache have, but not what the file holds.
LEMMA Flushed ==
  ASSUME IInv, cache # None
  PROVE  /\ FlushedDisk \in Disks /\ FlushedDisk = Content
         /\ cache \in Cache /\ cache.handle \in Handles /\ CachedFile \in Files
         /\ Good(FlushedDisk, open, Empty(cache))
         /\ View(FlushedDisk, open, Empty(cache)) = Content
         /\ View(FlushedDisk, open, None) = Content
<1>1. cache \in Cache /\ CachedFile \in Files /\ cache.handle \in Handles
  BY Now, NotNone DEF Good, CachedFile
<1>2. FlushedDisk = Content /\ Content \in Disks
  BY ContentIs DEF IInv
<1>3. /\ Empty(cache) \in Cache /\ Empty(cache).handle = cache.handle
      /\ Empty(cache).blocks = << >> /\ Empty(cache).size = 0
  BY <1>1, EmptyIs
<1>4. /\ Good(FlushedDisk, open, Empty(cache))
      /\ View(FlushedDisk, open, Empty(cache)) = FlushedDisk
  BY <1>1, <1>2, <1>3, NoBlocks DEF CachedFile
<1> QED BY <1>1, <1>2, <1>4, ViewNone

(* A flush, with the cache kept and emptied, is seen by nobody.            *)
LEMMA FlushStep ==
  ASSUME IInv, cache # None, disk' = FlushedDisk, cache' = Empty(cache),
         UNCHANGED <<open, ospos, locks>>
  PROVE  IInv' /\ Content' = Content /\ Position' = Position
<1>1. /\ Empty(cache) \in Cache /\ Empty(cache).handle = cache.handle
      /\ Empty(cache).position = cache.position /\ cache' # None
  BY Flushed, EmptyIs, NotNone
<1>2. IInv' /\ Content' = View(disk', open', cache') /\ Position' = PositionOf(cache', ospos')
  BY <1>1, Now, Flushed, Then
<1>3. Content' = Content
  BY <1>2, Flushed
<1>4. Position' = Position
  BY <1>1, <1>2, Now DEF PositionOf
<1> QED BY <1>2, <1>3, <1>4

\* A step that only returns something.
LEMMA QuietStep ==
  ASSUME IInv, UNCHANGED <<disk, open, ospos, cache, locks>>
  PROVE  IInv' /\ Content' = Content /\ Position' = Position
<1>1. IInv' /\ Content' = View(disk', open', cache') /\ Position' = PositionOf(cache', ospos')
  BY Now, Then
<1> QED BY <1>1, Now

\* rmsdb_record_store_open refuses a store that is in use.
LEMMA LockedStep ==
  ASSUME IInv, NEW f \in Files, Locked(f)
  PROVE  IInv' /\ File!Locked(f)
<1>1. IInv' /\ Content' = Content /\ Position' = Position
  BY QuietStep DEF Locked
<1> QED BY <1>1, LockedIffOpen DEF Locked, File!Locked, Result, File!Result

\* recordStoreCommitWrite flushes.
LEMMA CommitStep ==
  ASSUME IInv, NEW h \in Handles, CommitWrite(h)
  PROVE  IInv' /\ File!Sync
<1>1. IInv' /\ Content' = Content /\ Position' = Position /\ open' = open /\ out' = Done
  <2>1. CASE Cached(h) /\ disk' = FlushedDisk /\ cache' = Empty(cache)
    BY <2>1, FlushStep DEF CommitWrite, Cached
  <2>2. CASE UNCHANGED <<disk, cache>>
    BY <2>2, QuietStep DEF CommitWrite
  <2> QED BY <2>1, <2>2 DEF CommitWrite
<1> QED BY <1>1 DEF File!Sync, Done, File!Done, Result, File!Result

\* midp_file_cache_available_space flushes.
LEMMA SpaceStep ==
  ASSUME IInv, NEW h \in Handles \cup {None}, AvailableSpace(h)
  PROVE  IInv' /\ File!Sync
<1>1. IInv' /\ Content' = Content /\ Position' = Position /\ open' = open /\ out' = Done
  <2>1. CASE cache # None /\ disk' = FlushedDisk /\ cache' = Empty(cache)
    BY <2>1, FlushStep DEF AvailableSpace
  <2>2. CASE UNCHANGED <<disk, cache>>
    BY <2>2, QuietStep DEF AvailableSpace
  <2> QED BY <2>1, <2>2 DEF AvailableSpace
<1> QED BY <1>1 DEF File!Sync, Done, File!Done, Result, File!Result

\* rmsdb_get_rms_storage_size opens and closes the file, which ends another
\* file's cache.
LEMMA SizeStep ==
  ASSUME IInv, NEW f \in Files, StorageSize(f)
  PROVE  IInv' /\ File!SizeOf(f)
<1>1. ~ File!IsOpen(f)
  BY LockedIffOpen DEF StorageSize
<1>2. Content[f] = disk[f]
  <2>1. cache # None => CachedFile # f
    BY <1>1, Flushed DEF File!IsOpen, CachedFile
  <2> QED BY <2>1 DEF Content
<1>3. IInv' /\ Content' = Content /\ Position' = Position
  <2>1. CASE cache = None /\ UNCHANGED <<disk, ospos, cache>>
    BY <2>1, QuietStep DEF StorageSize
  <2>2. CASE cache # None /\ Finalize
    <3>1. /\ disk' = FlushedDisk /\ cache' = None /\ UNCHANGED <<open, locks>>
          /\ ospos' = [ospos EXCEPT ![cache.handle] = cache.position]
      BY <2>2 DEF Finalize, StorageSize
    <3>2. cache.position \in Nat /\ cache.handle \in Handles
      BY <2>2, Flushed, NotNone
    <3>3. ospos' \in [Handles -> Nat]
      BY <3>1, <3>2, Now
    <3>4. Good(disk', open', cache')
      BY <3>1 DEF Good
    <3>5. IInv' /\ Content' = View(disk', open', cache') /\ Position' = PositionOf(cache', ospos')
      BY <2>2, <3>1, <3>3, <3>4, Now, Flushed, Then
    <3>6. Content' = Content
      BY <2>2, <3>1, <3>5, Flushed
    <3>7. Position' = Position
      BY <2>2, <3>1, <3>2, <3>5, Now DEF PositionOf
    <3> QED BY <3>5, <3>6, <3>7
  <2> QED BY <2>1, <2>2 DEF StorageSize
<1>4. open' = open /\ out' = Result("size", Len(disk[f]))
  BY DEF StorageSize
<1> QED BY <1>1, <1>2, <1>3, <1>4 DEF File!SizeOf, Result, File!Result

\* Positions are natural numbers.
LEMMA PositionsAre ==
  ASSUME NEW p \in Positions
  PROVE  p \in Nat
BY DEF Positions

(* The disk changes at a file that is not the cached one.                  *)
LEMMA OtherFile ==
  ASSUME IInv, NEW f \in Files, cache # None => CachedFile # f, NEW s \in Seq(Nat),
         disk' = [disk EXCEPT ![f] = s], UNCHANGED <<open, cache, locks>>, ospos' \in [Handles -> Nat]
  PROVE  /\ IInv' /\ Content' = [Content EXCEPT ![f] = s]
         /\ Position' = PositionOf(cache, ospos') /\ Content[f] = disk[f]
<1>1. disk' \in Disks
  BY Now DEF Disks
<1>2. Good(disk', open', cache')
  <2> SUFFICES ASSUME cache # None PROVE Good(disk', open', cache')
    BY DEF Good
  <2>1. disk'[open[cache.handle]] = disk[open[cache.handle]]
    BY Flushed, Now DEF Disks, CachedFile
  <2> QED BY <2>1, Now DEF Good
<1>3. /\ IInv' /\ Content' = View(disk', open', cache')
      /\ Position' = PositionOf(cache', ospos')
  BY <1>1, <1>2, Now, Then
<1>4. View(disk', open, cache) = [View(disk, open, cache) EXCEPT ![f] = s]
  BY Now DEF View, Disks, CachedFile
<1>5. Content[f] = disk[f]
  BY Now DEF View, CachedFile
<1> QED BY <1>3, <1>4, <1>5, Now

\* rmsdb_record_store_delete, for a store nobody has open.
LEMMA DeleteStep ==
  ASSUME IInv, NEW f \in Files, Delete(f)
  PROVE  IInv' /\ File!Delete(f)
<1>1. ~ File!IsOpen(f)
  BY LockedIffOpen DEF Delete
<1>2. cache # None => CachedFile # f
  BY <1>1, Flushed DEF File!IsOpen, CachedFile
<1>3. /\ disk' = [disk EXCEPT ![f] = << >>] /\ << >> \in Seq(Nat)
      /\ UNCHANGED <<open, cache, locks, ospos>> /\ out' = Done
  BY DEF Delete
<1>4. /\ IInv' /\ Content' = [Content EXCEPT ![f] = << >>]
      /\ Position' = PositionOf(cache, ospos')
  BY <1>2, <1>3, Now, OtherFile
<1>5. Position' = Position
  BY <1>3, <1>4, Now
<1> QED BY <1>1, <1>3, <1>4, <1>5 DEF File!Delete, Done, File!Done, Result, File!Result

\* midp_file_cache_open ends the cache of the file before.
LEMMA OpenStep ==
  ASSUME IInv, NEW f \in Files, NEW h \in Handles, Open(f, h)
  PROVE  IInv' /\ File!Open(f, h)
<1> DEFINE x == [file |-> f, handle |-> h]
<1>1. /\ ~ IsLocked(f) /\ open[h] = None /\ open' = [open EXCEPT ![h] = f]
      /\ locks' = <<x>> \o locks /\ out' = Done
  BY DEF Open
<1>2. ~ File!IsOpen(f)
  BY <1>1, LockedIffOpen
<1>3. open' \in [Handles -> Files \cup {None}] /\ open'[h] = f
      /\ \A g \in Handles : g # h => open'[g] = open[g]
  BY <1>1, Now
<1>4. locks' \in Seq(Lock) /\ LocksOK(open', locks')
  <2>1. x \in Lock /\ x.file = f /\ x.handle = h
    BY DEF Lock
  <2>2. Elems(locks) \subseteq Lock /\ locks \in Seq(Lock) /\ LocksOK(open, locks)
    BY Now, ElemsType
  <2>3. \A l \in Elems(locks) : l.file # f /\ l.handle # h /\ l.handle \in Handles
    <3> SUFFICES ASSUME NEW l \in Elems(locks)
                 PROVE  l.file # f /\ l.handle # h /\ l.handle \in Handles
      OBVIOUS
    <3>1. l.handle \in Handles /\ l.file \in Files /\ open[l.handle] = l.file
      BY <2>2 DEF LocksOK, Lock
    <3> QED BY <1>1, <1>2, <3>1, NoneIsNothing DEF File!IsOpen
  <2> HIDE DEF x
  <2>4. x \notin Elems(locks)
    BY <2>1, <2>3
  <2>5. <<x>> \in Seq(Lock) /\ Elems(<<x>>) = {x} /\ NoRepeat(<<x>>)
    BY <2>1, Single
  <2>6. /\ <<x>> \o locks \in Seq(Lock)
        /\ Elems(<<x>> \o locks) = Elems(<<x>>) \cup Elems(locks)
        /\ NoRepeat(<<x>> \o locks)
    <3>1. NoRepeat(locks) /\ Elems(<<x>>) \cap Elems(locks) = {}
      BY <2>2, <2>4, <2>5 DEF LocksOK
    <3> DEFINE y == <<x>>
               q == locks
    <3>2. y \in Seq(Lock) /\ q \in Seq(Lock)
      BY <2>2, <2>5
    <3>3. NoRepeat(y) /\ NoRepeat(q) /\ Elems(y) \cap Elems(q) = {}
      BY <2>5, <3>1
    <3> HIDE DEF y, q
    <3>4. y \o q \in Seq(Lock) /\ Elems(y \o q) = Elems(y) \cup Elems(q) /\ NoRepeat(y \o q)
      BY <3>2, <3>3, Joined
    <3> QED BY <3>4 DEF y, q
  <2>7. locks' \in Seq(Lock) /\ Elems(locks') = {x} \cup Elems(locks) /\ NoRepeat(locks')
    BY <1>1, <2>5, <2>6
  <2>8. \A g \in Handles : open'[g] # None => [file |-> open'[g], handle |-> g] \in Elems(locks')
    <3> SUFFICES ASSUME NEW g \in Handles, open'[g] # None
                 PROVE  [file |-> open'[g], handle |-> g] \in Elems(locks')
      OBVIOUS
    <3>1. CASE g = h
      BY <1>3, <2>7, <3>1 DEF x
    <3>2. CASE g # h
      BY <1>3, <2>2, <2>7, <3>2 DEF LocksOK
    <3> QED BY <3>1, <3>2
  <2>9. \A l \in Elems(locks') : open'[l.handle] = l.file
    BY <1>3, <2>1, <2>2, <2>3, <2>7 DEF LocksOK
  <2>10. \A k, l \in Elems(locks') : k.file = l.file => k = l
    BY <2>1, <2>2, <2>3, <2>7 DEF LocksOK
  <2> QED BY <2>7, <2>8, <2>9, <2>10 DEF LocksOK
<1>5. /\ IInv' /\ Content' = Content /\ Position' = [Position EXCEPT ![h] = 0]
  <2>1. CASE cache = None
    <3>1. /\ cache' = NewCache(h) /\ ospos' = [ospos EXCEPT ![h] = 0] /\ disk' = disk
      BY <2>1 DEF Open
    <3>2. /\ cache' \in Cache /\ cache'.handle = h /\ cache'.blocks = << >> /\ cache'.size = 0
          /\ cache'.position = 0
      <4>1. << >> \in Seq(Block)
        OBVIOUS
      <4> QED BY <3>1, <4>1 DEF NewCache, Cache
    <3>3. Good(disk', open', cache') /\ View(disk', open', cache') = disk
      BY <1>3, <3>1, <3>2, Now, NoBlocks
    <3>4. ospos' \in [Handles -> Nat]
      BY <3>1, Now
    <3>5. IInv' /\ Content' = View(disk', open', cache') /\ Position' = PositionOf(cache', ospos')
      BY <1>3, <1>4, <3>1, <3>2, <3>3, <3>4, Now, Then
    <3>6. Content' = Content
      BY <2>1, <3>3, <3>5, Now
    <3>7. Position' = [Position EXCEPT ![h] = 0]
      BY <2>1, <3>1, <3>2, <3>5, Now, NotNone DEF PositionOf
    <3> QED BY <3>5, <3>6, <3>7
  <2>2. CASE cache # None
    <3>1. /\ cache' = None /\ disk' = FlushedDisk
          /\ ospos' = [ospos EXCEPT ![h] = 0, ![cache.handle] = cache.position]
      BY <2>2 DEF Open
    <3>2. cache.handle \in Handles /\ cache.position \in Nat /\ cache.handle # h
      BY <1>1, <2>2, Flushed, NotNone, NoneIsNothing DEF CachedFile
    <3>3. /\ ospos' \in [Handles -> Nat]
          /\ ospos' = [g \in Handles |-> IF g = cache.handle THEN cache.position
                                         ELSE IF g = h THEN 0 ELSE ospos[g]]
      BY <3>1, <3>2, Now
    <3>4. Good(disk', open', cache') /\ View(disk', open', cache') = disk'
      BY <2>2, <3>1, Flushed, ViewNone DEF Good
    <3>5. IInv' /\ Content' = View(disk', open', cache') /\ Position' = PositionOf(cache', ospos')
      BY <1>3, <1>4, <2>2, <3>1, <3>3, <3>4, Flushed, Then
    <3>6. Content' = Content
      BY <2>2, <3>1, <3>4, <3>5, Flushed
    <3>7. Position' = [Position EXCEPT ![h] = 0]
      <4>1. ospos' = [g \in Handles |-> IF g = cache.handle THEN cache.position
                                        ELSE IF g = h THEN 0 ELSE ospos[g]]
        BY <3>3
      <4>2. Position' = [g \in Handles |-> ospos'[g]]
        BY <3>1, <3>5 DEF PositionOf
      <4>3. Position = [g \in Handles |-> IF cache.handle = g THEN cache.position ELSE ospos[g]]
        BY <2>2, Now DEF PositionOf
      <4> QED BY <3>2, <4>1, <4>2, <4>3
    <3> QED BY <3>5, <3>6, <3>7
  <2> QED BY <2>1, <2>2
<1> QED BY <1>1, <1>2, <1>5 DEF File!Open, Done, File!Done, Result, File!Result

\* midp_file_cache_close flushes; the lock goes.
LEMMA CloseStep ==
  ASSUME IInv, NEW h \in Handles, Close(h)
  PROVE  IInv' /\ File!Close(h)
<1> DEFINE x == [file |-> open[h], handle |-> h]
<1>1. /\ open[h] # None /\ open' = [open EXCEPT ![h] = None] /\ locks' = Unlocked(h)
      /\ out' = Done /\ ospos' = [ospos EXCEPT ![h] = 0]
  BY DEF Close
<1>2. /\ open' \in [Handles -> Files \cup {None}] /\ open'[h] = None
      /\ \A g \in Handles : g # h => open'[g] = open[g]
      /\ ospos' \in [Handles -> Nat]
  BY <1>1, Now
<1>3. locks' \in Seq(Lock) /\ NoRepeat(locks') /\ Elems(locks') = Elems(locks) \ {x}
  BY <1>1, UnlockedIs
<1>4. LocksOK(open', locks')
  <2>1. LocksOK(open, locks) /\ Elems(locks) \subseteq Lock
    BY Now, ElemsType
  <2>2. \A l \in Elems(locks) : l.handle \in Handles
    BY <2>1 DEF Lock
  <2>3. \A l \in Elems(locks') : l.handle # h
    <3> SUFFICES ASSUME NEW l \in Elems(locks'), l.handle = h PROVE FALSE
      OBVIOUS
    <3>1. l \in Lock /\ l.file = open[h] /\ l # x
      BY <1>3, <2>1 DEF LocksOK
    <3> QED BY <3>1 DEF Lock
  <2>4. \A g \in Handles : open'[g] # None => [file |-> open'[g], handle |-> g] \in Elems(locks')
    BY <1>2, <1>3, <2>1 DEF LocksOK
  <2>5. \A l \in Elems(locks') : open'[l.handle] = l.file
    BY <1>2, <1>3, <2>1, <2>2, <2>3 DEF LocksOK
  <2>6. \A k, l \in Elems(locks') : k.file = l.file => k = l
    BY <1>3, <2>1 DEF LocksOK
  <2> QED BY <1>3, <2>4, <2>5, <2>6 DEF LocksOK
<1>5. /\ IInv' /\ Content' = Content /\ Position' = [Position EXCEPT ![h] = 0]
  <2>1. CASE Cached(h)
    <3>1. cache' = None /\ disk' = FlushedDisk /\ cache # None /\ cache.handle = h
      BY <2>1 DEF Close, Cached
    <3>2. Good(disk', open', cache') /\ View(disk', open', cache') = disk'
      BY <3>1, Flushed, ViewNone DEF Good
    <3>3. IInv' /\ Content' = View(disk', open', cache') /\ Position' = PositionOf(cache', ospos')
      BY <1>2, <1>3, <1>4, <3>1, <3>2, Flushed, Then
    <3>4. Content' = Content
      BY <3>1, <3>2, <3>3, Flushed
    <3>5. Position' = [Position EXCEPT ![h] = 0]
      BY <1>1, <3>1, <3>3, Now DEF PositionOf
    <3> QED BY <3>3, <3>4, <3>5
  <2>2. CASE ~ Cached(h)
    <3>1. cache' = cache /\ disk' = disk
      BY <2>2 DEF Close
    <3>2. cache # None => open'[cache.handle] = open[cache.handle] /\ cache \in Cache /\ cache.handle # h
      BY <1>2, <2>2, Flushed DEF Cached
    <3>3. Good(disk', open', cache') /\ View(disk', open', cache') = Content
      <4>1. CASE cache = None
        BY <3>1, <4>1, Now, ViewNone DEF Good
      <4>2. CASE cache # None
        BY <3>1, <3>2, <4>2, Now, SameBlocks
      <4> QED BY <4>1, <4>2
    <3>4. IInv' /\ Content' = View(disk', open', cache') /\ Position' = PositionOf(cache', ospos')
      BY <1>2, <1>3, <1>4, <3>1, <3>3, Now, Then
    <3>5. Position' = [Position EXCEPT ![h] = 0]
      BY <1>1, <3>1, <3>2, <3>4, Now DEF PositionOf
    <3> QED BY <3>3, <3>4, <3>5
  <2> QED BY <2>1, <2>2
<1> QED BY <1>1, <1>5 DEF File!Close, Done, File!Done, Result, File!Result

(* The file of a handle that is not cached is not the cached file.         *)
LEMMA NotCached ==
  ASSUME IInv, NEW h \in Handles, open[h] # None
  PROVE  /\ open[h] \in Files
         /\ Cached(h) => cache # None /\ cache.handle = h /\ CachedFile = open[h]
         /\ ~ Cached(h) => (cache # None => CachedFile # open[h]) /\ Content[open[h]] = disk[open[h]]
                           /\ Position[h] = ospos[h]
<1>1. open[h] \in Files
  BY Now
<1>2. Cached(h) => cache # None /\ cache.handle = h /\ CachedFile = open[h]
  BY DEF Cached, CachedFile
<1>3. ~ Cached(h) => (cache # None => CachedFile # open[h])
  BY <1>1, Flushed, LockedIffOpen, NoneIsNothing DEF Cached, CachedFile
<1>4. ~ Cached(h) => Content[open[h]] = disk[open[h]]
  BY <1>1, <1>3 DEF Content
<1>5. ~ Cached(h) => Position[h] = ospos[h]
  BY DEF Position
<1> QED BY <1>1, <1>2, <1>3, <1>4, <1>5

\* A cache whose position is set.
LEMMA MovedIs ==
  ASSUME NEW c \in Cache, NEW p \in Nat
  PROVE  /\ [c EXCEPT !.position = p] \in Cache /\ [c EXCEPT !.position = p].handle = c.handle
         /\ [c EXCEPT !.position = p].blocks = c.blocks /\ [c EXCEPT !.position = p].size = c.size
         /\ [c EXCEPT !.position = p].position = p
BY DEF Cache

Moved(c, p) == [c EXCEPT !.position = p]

\* The position matters neither to its shape nor to what the file holds.
LEMMA MovedGood ==
  ASSUME NEW d, NEW o, NEW c \in Cache, NEW p \in Nat
  PROVE  (Good(d, o, c) => Good(d, o, Moved(c, p))) /\ View(d, o, c) = View(d, o, Moved(c, p))
<1> DEFINE u == [c EXCEPT !.position = p]
<1>1. u \in Cache /\ u.handle = c.handle /\ u.blocks = c.blocks /\ u.size = c.size
  BY MovedIs
<1> HIDE DEF u
<1>2. (Good(d, o, c) => Good(d, o, u)) /\ View(d, o, c) = View(d, o, u)
  BY <1>1, SameBlocks
<1> QED BY <1>2 DEF u, Moved

(* The cache is only positioned elsewhere.                                 *)
LEMMA MovedStep ==
  ASSUME IInv, cache # None, NEW p \in Nat, cache' = [cache EXCEPT !.position = p],
         UNCHANGED <<disk, open, ospos, locks>>
  PROVE  IInv' /\ Content' = Content /\ Position' = [Position EXCEPT ![cache.handle] = p]
<1>1. /\ cache \in Cache /\ cache.handle \in Handles
      /\ cache' \in Cache /\ cache'.handle = cache.handle /\ cache'.blocks = cache.blocks
      /\ cache'.size = cache.size /\ cache'.position = p /\ cache' # None
  BY Flushed, MovedIs, NotNone
<1>2. Good(disk', open', cache') /\ View(disk', open', cache') = Content
  <2>1. /\ Good(disk, open, cache) => Good(disk, open, Moved(cache, p))
        /\ View(disk, open, cache) = View(disk, open, Moved(cache, p))
    BY <1>1, MovedGood
  <2>2. cache' = Moved(cache, p)
    BY DEF Moved
  <2> QED BY <2>1, <2>2, Now
<1>3. IInv' /\ Content' = View(disk', open', cache') /\ Position' = PositionOf(cache', ospos')
  BY <1>1, <1>2, Now, Then
<1>4. Position' = [Position EXCEPT ![cache.handle] = p]
  BY <1>1, <1>3, Now DEF PositionOf
<1> QED BY <1>2, <1>3, <1>4

\* midp_file_cache_seek.
LEMMA SeekStep ==
  ASSUME IInv, NEW h \in Handles, NEW p \in Positions, Seek(h, p)
  PROVE  IInv' /\ File!Seek(h, p)
<1>1. /\ open[h] # None /\ p <= Len(Content[open[h]]) /\ out' = Done
      /\ UNCHANGED <<disk, open, locks>> /\ p \in Nat
  BY PositionsAre DEF Seek
<1>2. IInv' /\ Content' = Content /\ Position' = [Position EXCEPT ![h] = p]
  <2>1. CASE Cached(h)
    BY <1>1, <2>1, NotCached, MovedStep DEF Seek
  <2>2. CASE ~ Cached(h)
    <3>1. ospos' = [ospos EXCEPT ![h] = p] /\ cache' = cache
      BY <2>2 DEF Seek
    <3>2. ospos' \in [Handles -> Nat]
      BY <1>1, <3>1, Now
    <3>3. IInv' /\ Content' = View(disk', open', cache') /\ Position' = PositionOf(cache', ospos')
      BY <1>1, <3>1, <3>2, Now, Then
    <3>4. Content' = Content
      BY <1>1, <3>1, <3>3, Now
    <3>5. Position' = [Position EXCEPT ![h] = p]
      BY <2>2, <3>1, <3>3, Now DEF PositionOf, Cached
    <3> QED BY <3>3, <3>4, <3>5
  <2> QED BY <2>1, <2>2
<1> QED BY <1>1, <1>2 DEF File!Seek, Done, File!Done, Result, File!Result

\* midp_file_cache_truncate flushes first.
LEMMA TruncateStep ==
  ASSUME IInv, NEW h \in Handles, NEW n \in Positions, Truncate(h, n)
  PROVE  IInv' /\ File!Truncate(h, n)
<1> DEFINE f == open[h]
           s == SubSeq(Content[f], 1, n)
<1>1. /\ f # None /\ n <= Len(Content[f]) /\ out' = Done
      /\ UNCHANGED <<open, ospos, locks>> /\ n \in Nat
  BY PositionsAre DEF Truncate
<1>2. s \in Seq(Nat) /\ f \in Files
  <2>1. Content[f] \in Seq(Nat) /\ f \in Files
    BY <1>1, Now, NotCached DEF Disks
  <2> QED BY <1>1, <2>1
<1>3. IInv' /\ Content' = [Content EXCEPT ![f] = s] /\ Position' = Position
  <2>1. CASE Cached(h)
    <3>1. /\ disk' = [FlushedDisk EXCEPT ![f] = SubSeq(@, 1, n)] /\ cache' = Empty(cache)
          /\ cache # None /\ cache.handle = h
      BY <2>1 DEF Truncate, Cached
    <3>2. disk' = [Content EXCEPT ![f] = s] /\ disk' \in Disks
      BY <1>2, <3>1, Flushed, Now DEF Disks
    <3>3. /\ cache \in Cache /\ Empty(cache) \in Cache /\ Empty(cache).handle = cache.handle
          /\ Empty(cache).position = cache.position
          /\ Empty(cache).blocks = << >> /\ Empty(cache).size = 0 /\ cache' # None
      BY <3>1, Flushed, EmptyIs, NotNone
    <3>4. Good(disk', open', cache') /\ View(disk', open', cache') = disk'
      BY <1>1, <1>2, <3>1, <3>2, <3>3, NoBlocks
    <3>5. IInv' /\ Content' = View(disk', open', cache') /\ Position' = PositionOf(cache', ospos')
      BY <1>1, <3>1, <3>2, <3>3, <3>4, Now, Then
    <3>6. Position' = Position
      BY <1>1, <3>1, <3>3, <3>5, Now DEF PositionOf
    <3> QED BY <3>2, <3>4, <3>5, <3>6
  <2>2. CASE ~ Cached(h)
    <3>1. disk' = [disk EXCEPT ![f] = SubSeq(@, 1, n)] /\ cache' = cache
      BY <2>2 DEF Truncate
    <3>2. Content[f] = disk[f] /\ (cache # None => CachedFile # f)
      BY <1>1, <2>2, NotCached
    <3>3. disk' = [disk EXCEPT ![f] = s]
      BY <3>1, <3>2
    <3> HIDE DEF s
    <3>4. IInv' /\ Content' = [Content EXCEPT ![f] = s] /\ Position' = PositionOf(cache, ospos')
      BY <1>1, <1>2, <3>1, <3>2, <3>3, Now, OtherFile
    <3> QED BY <1>1, <3>4, Now
  <2> QED BY <2>1, <2>2
<1> QED BY <1>1, <1>3 DEF File!Truncate, Done, File!Done, Result, File!Result

-----------------------------------------------------------------------------
(* Writes.                                                                 *)

(* A cache c and a disk d that show the files as they are, with no block   *)
(* in the way of the data.                                                 *)
Region(d, c, p, data) ==
  /\ d \in Disks /\ c \in Cache /\ Good(d, open, c) /\ View(d, open, c) = Content
  /\ c.handle = cache.handle /\ c.position = cache.position
  /\ Apart(c.blocks, c.position, Len(data), p)

Effect(h, data) ==
  /\ Content' = [Content EXCEPT ![open[h]] = StorageWrite(@, Position[h], data)]
  /\ Position' = [Position EXCEPT ![h] = @ + Len(data)]

\* Any way of writing through a cache is a write to the plain file.
LEMMA CachedWrite ==
  ASSUME IInv, NEW h \in Handles, open[h] # None, Cached(h), NEW data \in Seq(Nat) \ {<< >>},
         NEW d, NEW c, c.handle = h, c.position = cache.position, View(d, open, c) = Content,
         WrittenThrough(d, open, c, disk', cache', data), UNCHANGED <<open, ospos, locks>>
  PROVE  IInv' /\ Effect(h, data)
<1>1. /\ disk' \in Disks /\ cache' \in Cache /\ cache'.handle = h
      /\ cache'.position = cache.position + Len(data)
      /\ Good(disk', open, cache')
      /\ View(disk', open, cache') = [Content EXCEPT ![open[h]] = StorageWrite(@, cache.position, data)]
  BY DEF WrittenThrough
<1>2. cache # None /\ cache.handle = h /\ cache' # None
  BY <1>1, NotCached, NotNone
<1>3. IInv' /\ Content' = View(disk', open', cache') /\ Position' = PositionOf(cache', ospos')
  BY <1>1, Now, Then
<1>4. Position[h] = cache.position
  BY <1>2, Now DEF PositionOf
<1>5. Position' = [Position EXCEPT ![h] = @ + Len(data)]
  BY <1>1, <1>2, <1>3, <1>4, Now DEF PositionOf
<1> QED BY <1>1, <1>3, <1>4, <1>5 DEF Effect

\* A new block in a free region, before or after a flush.
LEMMA RegionInserts ==
  ASSUME IInv, NEW h \in Handles, open[h] # None, Cached(h), NEW data \in Seq(Nat) \ {<< >>},
         cache.position <= Len(Content[open[h]]),
         NEW d, NEW c, NEW p, Region(d, c, p, data), c.size + Cost(data) <= RMS_CACHE_LIMIT,
         InsertBlock(h, data, c, d, p), UNCHANGED <<open, locks>>
  PROVE  IInv' /\ Effect(h, data)
<1>1. /\ d \in Disks /\ c \in Cache /\ Good(d, open, c) /\ View(d, open, c) = Content
      /\ c.handle = h /\ c.position = cache.position
      /\ Apart(c.blocks, c.position, Len(data), p)
  BY NotCached DEF Region
<1>2. c.position <= Len(View(d, open, c)[open[c.handle]])
  BY <1>1
<1> DEFINE u == Advanced([c EXCEPT !.blocks =
                             InsertAt(@, p + 1, [position |-> c.position, data |-> data]),
                           !.size = @ + Cost(data)], Len(data))
<1>3. WrittenThrough(d, open, c, d, u, data)
  BY <1>1, <1>2, InsertWrites
<1>4. disk' = d /\ cache' = u /\ UNCHANGED ospos
  BY Zenon DEF InsertBlock
<1> HIDE DEF u
<1>5. WrittenThrough(d, open, c, disk', cache', data)
  BY <1>3, <1>4
<1> QED BY <1>1, <1>4, <1>5, CachedWrite

\* Bytes that do not fit, written around the cache.
LEMMA RegionBypasses ==
  ASSUME IInv, NEW h \in Handles, open[h] # None, Cached(h), NEW data \in Seq(Nat) \ {<< >>},
         cache.position <= Len(Content[open[h]]),
         NEW d, NEW c, NEW p, Region(d, c, p, data),
         UncachedWrite(h, data, c, d), UNCHANGED <<open, locks>>
  PROVE  IInv' /\ Effect(h, data)
<1>1. /\ d \in Disks /\ c \in Cache /\ Good(d, open, c) /\ View(d, open, c) = Content
      /\ c.handle = h /\ c.position = cache.position
      /\ Apart(c.blocks, c.position, Len(data), p)
  BY NotCached DEF Region
<1>2. c.position <= Len(View(d, open, c)[open[c.handle]])
  BY <1>1
<1> DEFINE e == [d EXCEPT ![open[c.handle]] = StorageWrite(@, c.position, data)]
           u == Advanced(c, Len(data))
<1>3. WrittenThrough(d, open, c, e, u, data)
  BY <1>1, <1>2, BypassWrites
<1>4. disk' = e /\ cache' = u /\ UNCHANGED ospos
  BY <1>1 DEF UncachedWrite
<1> HIDE DEF e, u
<1>5. WrittenThrough(d, open, c, disk', cache', data)
  BY <1>3, <1>4
<1> QED BY <1>1, <1>4, <1>5, CachedWrite

\* Where the search found nothing, and everywhere after a flush, there is a
\* free region.
LEMMA Regions ==
  ASSUME IInv, NEW h \in Handles, open[h] # None, Cached(h), NEW data \in Seq(Nat) \ {<< >>}
  PROVE  /\ ~ Hits(cache, Len(data)) =>
              Region(disk, cache, Scan(cache.blocks, cache.position, Len(data)) - 1, data)
         /\ Region(FlushedDisk, Empty(cache), 0, data)
<1>1. cache # None /\ cache \in Cache /\ cache.handle = h /\ Len(data) \in Nat \ {0}
      /\ cache.position \in Nat
  BY NotCached, Flushed, NotNone
<1>2. BlockList(cache.blocks)
  BY <1>1, Now DEF Good
<1>3. ~ Hits(cache, Len(data)) =>
        Apart(cache.blocks, cache.position, Len(data),
              Scan(cache.blocks, cache.position, Len(data)) - 1)
  BY <1>1, <1>2, HitIs
<1>4. Apart(<< >>, cache.position, Len(data), 0)
  BY DEF Apart
<1>5. Region(FlushedDisk, Empty(cache), 0, data)
  BY <1>1, <1>4, Flushed, EmptyIs DEF Region
<1> QED BY <1>1, <1>3, <1>5, Now DEF Region

\* The part of midp_file_cache_write that found no block, in each of its
\* branches.
LEMMA NewBlockStep ==
  ASSUME IInv, NEW h \in Handles, open[h] # None, NEW data \in Seq(Nat) \ {<< >>},
         Position[h] <= Len(Content[open[h]]),
         WriteNewBlock(h, data), UNCHANGED <<open, locks>>
  PROVE  IInv' /\ Effect(h, data)
<1> DEFINE i == Scan(cache.blocks, cache.position, Len(data)) - 1
           cost == Cost(data)
<1>1. Cached(h) /\ cache # None /\ cache.handle = h
  BY NotCached DEF WriteNewBlock
<1>2. cache.position <= Len(Content[open[h]])
  BY <1>1, Now DEF PositionOf
<1>3. /\ ~ Hits(cache, Len(data)) => Region(disk, cache, i, data)
      /\ Region(FlushedDisk, Empty(cache), 0, data)
  BY <1>1, Regions
<1>4. Empty(cache).size = 0 /\ cost \in Nat
  <2>1. [position |-> 0, data |-> data] \in Block
    BY DEF Block
  <2>2. Cost([position |-> 0, data |-> data].data) \in Nat
    BY <2>1, CostType
  <2> QED BY <1>1, <2>2, Flushed, EmptyIs
<1>5. \/ /\ ~ Hits(cache, Len(data))
         /\ \/ UncachedWrite(h, data, cache, disk)
            \/ InsertBlock(h, data, cache, disk, i) /\ cache.size + cost <= RMS_CACHE_LIMIT
      \/ UncachedWrite(h, data, Empty(cache), FlushedDisk)
      \/ /\ InsertBlock(h, data, Empty(cache), FlushedDisk, 0)
         /\ Empty(cache).size + cost <= RMS_CACHE_LIMIT
  <2> HIDE DEF cost, i
  <2>1. cache.size \in Nat /\ RMS_CACHE_LIMIT \in Nat
    BY <1>1, Flushed, NotNone, Sizes
  <2>2. CASE Hits(cache, Len(data))
    <3>1. CASE cost > RMS_CACHE_LIMIT
      BY <2>2, <3>1 DEF WriteNewBlock, cost, i
    <3>2. CASE ~(cost > RMS_CACHE_LIMIT)
      <4>1. ~(Empty(cache).size + cost > RMS_CACHE_LIMIT) /\ Empty(cache).size + cost <= RMS_CACHE_LIMIT
        BY <1>4, <2>1, <3>2
      <4>2. \/ InsertBlock(h, data, Empty(cache), FlushedDisk, 0)
            \/ UncachedWrite(h, data, Empty(cache), FlushedDisk)
        BY <2>2, <3>2, <4>1 DEF WriteNewBlock, cost, i
      <4> QED BY <4>1, <4>2
    <3> QED BY <3>1, <3>2
  <2>3. CASE ~ Hits(cache, Len(data))
    <3>1. CASE cost > RMS_CACHE_LIMIT
      BY <2>3, <3>1 DEF WriteNewBlock, cost, i
    <3>2. CASE ~(cost > RMS_CACHE_LIMIT) /\ cache.size + cost > RMS_CACHE_LIMIT
      <4>1. Empty(cache).size + cost <= RMS_CACHE_LIMIT
        BY <1>4, <2>1, <3>2
      <4>2. \/ InsertBlock(h, data, Empty(cache), FlushedDisk, 0)
            \/ UncachedWrite(h, data, Empty(cache), FlushedDisk)
        BY <2>3, <3>2 DEF WriteNewBlock, cost, i
      <4> QED BY <4>1, <4>2
    <3>3. CASE ~(cost > RMS_CACHE_LIMIT) /\ ~(cache.size + cost > RMS_CACHE_LIMIT)
      <4>1. cache.size + cost <= RMS_CACHE_LIMIT
        BY <1>4, <2>1, <3>3
      <4>2. \/ InsertBlock(h, data, cache, disk, i)
            \/ UncachedWrite(h, data, cache, disk)
        BY <2>3, <3>3 DEF WriteNewBlock, cost, i
      <4> QED BY <2>3, <4>1, <4>2
    <3> QED BY <3>1, <3>2, <3>3
  <2> QED BY <2>2, <2>3
<1> HIDE DEF i
<1>6. ASSUME NEW d, NEW c, NEW p, Region(d, c, p, data),
             \/ UncachedWrite(h, data, c, d)
             \/ InsertBlock(h, data, c, d, p) /\ c.size + cost <= RMS_CACHE_LIMIT
      PROVE  IInv' /\ Effect(h, data)
  BY <1>1, <1>2, <1>6, RegionInserts, RegionBypasses
<1> HIDE DEF cost
<1>7. \/ ~ Hits(cache, Len(data)) /\ (IInv' /\ Effect(h, data))
      \/ IInv' /\ Effect(h, data)
  BY <1>3, <1>5, <1>6, Zenon
<1> QED BY <1>7

\* midp_file_cache_write.
LEMMA WriteStep ==
  ASSUME IInv, NEW h \in Handles, NEW data \in Data, Write(h, data)
  PROVE  IInv' /\ File!Write(h, data)
<1> DEFINE f == open[h]
<1>1. /\ f # None /\ Position[h] <= Len(Content[f]) /\ out' = Done /\ UNCHANGED <<open, locks>>
  BY DEF Write
<1>2. data \in Seq(Nat) \ {<< >>} /\ Len(data) \in Nat
  BY Sizes
<1>3. f \in Files /\ Content[f] \in Seq(Nat) /\ Position[h] \in Nat /\ disk[f] \in Seq(Nat)
  BY <1>1, Now, NotCached DEF Disks
<1>4. IInv' /\ Effect(h, data)
  <2>1. CASE WriteDirect(h, data)
    <3>1. /\ ~ Cached(h) /\ cache' = cache
          /\ disk' = [disk EXCEPT ![f] = StorageWrite(@, ospos[h], data)]
          /\ ospos' = [ospos EXCEPT ![h] = @ + Len(data)]
      BY <2>1 DEF WriteDirect
    <3>2. /\ cache # None => CachedFile # f
          /\ Content[f] = disk[f] /\ Position[h] = ospos[h]
      BY <1>1, <3>1, NotCached
    <3> DEFINE s == StorageWrite(Content[f], Position[h], data)
    <3>3. disk' = [disk EXCEPT ![f] = s]
      BY <3>1, <3>2
    <3>4. s \in Seq(Nat)
      BY <1>2, <1>3, StorageWriteIs DEF IsPatched
    <3>5. ospos' \in [Handles -> Nat]
      BY <1>2, <3>1, Now
    <3> HIDE DEF s
    <3>6. /\ IInv' /\ Content' = [Content EXCEPT ![f] = s]
          /\ Position' = PositionOf(cache, ospos')
      BY <1>1, <1>3, <3>1, <3>2, <3>3, <3>4, <3>5, OtherFile
    <3>7. Position' = [Position EXCEPT ![h] = @ + Len(data)]
      BY <3>1, <3>6, Now DEF PositionOf, Cached
    <3> QED BY <3>6, <3>7 DEF Effect, s
  <2>2. CASE WriteInBlock(h, data)
    <3> DEFINE k == Scan(cache.blocks, cache.position, Len(data))
    <3>1. Cached(h) /\ HitIncludes(cache, Len(data)) /\ disk' = disk /\ ospos' = ospos
      BY <2>2 DEF WriteInBlock
    <3>2. cache # None /\ cache \in Cache /\ cache.handle = h /\ Len(data) \in Nat \ {0}
      BY <1>1, <1>2, <3>1, NotCached, Flushed
    <3>3. BlockList(cache.blocks)
      BY <3>2, Now DEF Good
    <3>4. /\ k \in DOMAIN cache.blocks
          /\ cache.blocks[k].position <= cache.position
          /\ cache.position + Len(data) <= End(cache.blocks[k])
      BY <3>1, <3>2, <3>3, HitIs
    <3> DEFINE u == Advanced([cache EXCEPT !.blocks[k].data =
                        StorageWrite(cache.blocks[k].data,
                                     cache.position - cache.blocks[k].position, data)],
                             Len(data))
    <3>5. cache' = u
      BY <2>2, Zenon DEF WriteInBlock
    <3> HIDE DEF k
    <3>6. WrittenThrough(disk, open, cache, disk, u, data)
      BY <1>2, <3>2, <3>4, Now, ChangeWrites
    <3> HIDE DEF u
    <3>7. WrittenThrough(disk, open, cache, disk', cache', data)
      BY <3>1, <3>5, <3>6
    <3> QED BY <1>1, <1>2, <3>1, <3>2, <3>7, Now, CachedWrite
  <2>3. CASE WriteNewBlock(h, data)
    BY <1>1, <1>2, <2>3, NewBlockStep
  <2> QED BY <2>1, <2>2, <2>3 DEF Write
<1>5. Position[h] \in 0 .. Len(Content[f])
  <2>1. Len(Content[f]) \in Nat
    BY <1>3
  <2> QED BY <1>1, <1>3, <2>1
<1>6. File!Overwritten(Content[f], Position[h], data) = StorageWrite(Content[f], Position[h], data)
  BY <1>2, <1>3, <1>5, OverwrittenIs
<1>7. Content' = [Content EXCEPT ![f] = File!Overwritten(@, Position[h], data)]
  BY <1>4, <1>6 DEF Effect
<1> QED BY <1>1, <1>4, <1>7 DEF Effect, File!Write, Done, File!Done, Result, File!Result

-----------------------------------------------------------------------------
(* Reads.                                                                  *)

Answer(h, n, skipped) ==
  /\ Content' = Content
  /\ out' = Result("read", StorageRead(Content[open[h]], Position[h], n))
  /\ Position' = [Position EXCEPT ![h] = @ + skipped]

\* A read from a file without cache.
LEMMA DirectRead ==
  ASSUME IInv, NEW h \in Handles, open[h] # None, NEW n \in Nat \ {0},
         ReadDirect(h, n), UNCHANGED <<open, locks>>
  PROVE  IInv' /\ Answer(h, n, Len(StorageRead(Content[open[h]], Position[h], n)))
<1> DEFINE got == StorageRead(Content[open[h]], Position[h], n)
<1>1. ~ Cached(h)
  BY DEF ReadDirect
<1>2. /\ open[h] \in Files /\ Content[open[h]] = disk[open[h]] /\ Position[h] = ospos[h]
      /\ Content[open[h]] \in Seq(Nat) /\ Position[h] \in Nat
  BY <1>1, Now, NotCached DEF Disks
<1>3. /\ disk' = disk /\ cache' = cache /\ out' = Result("read", got)
      /\ ospos' = [ospos EXCEPT ![h] = @ + Len(got)]
  BY <1>2 DEF ReadDirect
<1>4. Len(got) \in Nat
  BY <1>2, ReadIs
<1> HIDE DEF got
<1>5. ospos' \in [Handles -> Nat]
  BY <1>3, <1>4, Now
<1>6. IInv' /\ Content' = View(disk', open', cache') /\ Position' = PositionOf(cache', ospos')
  BY <1>3, <1>5, Now, Then
<1>7. Content' = Content
  BY <1>3, <1>6, Now
<1>8. Position' = [Position EXCEPT ![h] = @ + Len(got)]
  BY <1>1, <1>2, <1>3, <1>6, Now DEF PositionOf, Cached
<1> QED BY <1>3, <1>6, <1>7, <1>8 DEF Answer, got

\* The cache of an open file.
LEMMA CachedIs ==
  ASSUME IInv, NEW h \in Handles, open[h] # None, Cached(h)
  PROVE  /\ cache # None /\ cache \in Cache /\ cache.handle = h
         /\ Position[h] = cache.position /\ cache.position \in Nat
         /\ open[h] \in Files /\ disk[open[h]] \in Seq(Nat)
         /\ BlockList(cache.blocks) /\ NoHoles(disk[open[h]], cache.blocks)
         /\ Content[open[h]] = Written(disk[open[h]], cache.blocks)
<1>1. cache # None /\ cache \in Cache /\ cache.handle = h /\ cache.position \in Nat /\ open[h] \in Files
  BY NotCached, Flushed, NotNone
<1>2. Position[h] = cache.position
  BY <1>1, Now DEF PositionOf
<1>3. disk[open[h]] \in Seq(Nat)
  BY <1>1, Now DEF Disks
<1>4. BlockList(cache.blocks) /\ NoHoles(disk[open[h]], cache.blocks)
  BY <1>1, Now DEF Good
<1>5. Content[open[h]] = Written(disk[open[h]], cache.blocks)
  BY <1>1, Now DEF View
<1> QED BY <1>1, <1>2, <1>3, <1>4, <1>5

\* A read that one block answers.
LEMMA BlockRead ==
  ASSUME IInv, NEW h \in Handles, open[h] # None, NEW n \in Nat \ {0},
         ReadInBlock(h, n), UNCHANGED <<open, locks>>
  PROVE  IInv' /\ Answer(h, n, n)
<1> DEFINE k == Scan(cache.blocks, cache.position, n)
<1>1. /\ Cached(h) /\ HitIncludes(cache, n)
      /\ out' = Result("read", StorageRead(cache.blocks[k].data,
                                           cache.position - cache.blocks[k].position, n))
      /\ cache' = [cache EXCEPT !.position = @ + n]
      /\ disk' = disk /\ ospos' = ospos
  BY DEF ReadInBlock
<1>2. /\ cache # None /\ cache \in Cache /\ cache.handle = h
      /\ Position[h] = cache.position /\ cache.position \in Nat
      /\ disk[open[h]] \in Seq(Nat)
      /\ BlockList(cache.blocks) /\ NoHoles(disk[open[h]], cache.blocks)
      /\ Content[open[h]] = Written(disk[open[h]], cache.blocks)
  BY <1>1, CachedIs
<1>3. /\ k \in DOMAIN cache.blocks
      /\ cache.blocks[k].position <= cache.position
      /\ cache.position + n <= End(cache.blocks[k])
  BY <1>1, <1>2, HitIs
<1> HIDE DEF k
<1>4. StorageRead(cache.blocks[k].data, cache.position - cache.blocks[k].position, n) =
        StorageRead(Content[open[h]], Position[h], n)
  <2>1. StorageRead(cache.blocks[k].data, cache.position - cache.blocks[k].position, n) =
          StorageRead(Written(disk[open[h]], cache.blocks), cache.position, n)
    BY <1>2, <1>3, ReadInside
  <2> QED BY <1>2, <2>1
<1>5. cache.position + n \in Nat /\ cache' = [cache EXCEPT !.position = cache.position + n]
  BY <1>1, <1>2
<1>6. IInv' /\ Content' = Content /\ Position' = [Position EXCEPT ![h] = cache.position + n]
  BY <1>1, <1>2, <1>5, MovedStep
<1>7. Position' = [Position EXCEPT ![h] = @ + n]
  BY <1>2, <1>6
<1> QED BY <1>1, <1>4, <1>6, <1>7 DEF Answer

\* A read from storage, after a flush where blocks are in the way.
LEMMA FileRead ==
  ASSUME IInv, NEW h \in Handles, open[h] # None, NEW n \in Nat \ {0},
         ReadFromFile(h, n), UNCHANGED <<open, locks>>
  PROVE  IInv' /\ Answer(h, n, n)
<1>1. Cached(h) /\ ospos' = ospos
  BY DEF ReadFromFile
<1>2. /\ cache # None /\ cache \in Cache /\ cache.handle = h
      /\ Position[h] = cache.position /\ cache.position \in Nat
      /\ open[h] \in Files /\ disk[open[h]] \in Seq(Nat)
      /\ BlockList(cache.blocks) /\ NoHoles(disk[open[h]], cache.blocks)
      /\ Content[open[h]] = Written(disk[open[h]], cache.blocks)
  BY <1>1, CachedIs
<1>3. CASE Hits(cache, n)
  <2> DEFINE e == Empty(cache)
             p == cache.position + n
  <2>1. /\ disk' = FlushedDisk
        /\ out' = Result("read", StorageRead(FlushedDisk[open[h]], cache.position, n))
        /\ cache' = [e EXCEPT !.position = e.position + n]
    BY <1>3 DEF ReadFromFile
  <2>2. /\ e \in Cache /\ e.handle = h /\ e.position = cache.position
        /\ Good(FlushedDisk, open, e) /\ View(FlushedDisk, open, e) = Content
        /\ FlushedDisk = Content /\ FlushedDisk \in Disks
    BY <1>2, Flushed, EmptyIs
  <2>3. p \in Nat
    BY <1>2
  <2> HIDE DEF e
  <2>4. cache' = Moved(e, p)
    BY <2>1, <2>2 DEF Moved
  <2> HIDE DEF p
  <2>5. /\ Moved(e, p) \in Cache /\ Moved(e, p).handle = h /\ Moved(e, p).position = p
        /\ Moved(e, p) # None
    BY <2>2, <2>3, MovedIs, NotNone DEF Moved
  <2>6. Good(FlushedDisk, open, Moved(e, p)) /\ View(FlushedDisk, open, Moved(e, p)) = Content
    BY <2>2, <2>3, MovedGood
  <2>7. IInv' /\ Content' = View(disk', open', cache') /\ Position' = PositionOf(cache', ospos')
    <3>1. disk' \in Disks /\ cache' \in Cache /\ Good(disk', open', cache')
      BY <2>1, <2>2, <2>4, <2>5, <2>6
    <3> QED BY <1>1, <3>1, Now, Then
  <2>8. Content' = Content
    BY <2>1, <2>4, <2>6, <2>7
  <2>9. Position' = [Position EXCEPT ![h] = p]
    BY <1>1, <1>2, <2>4, <2>5, <2>7, Now DEF PositionOf
  <2>10. Position' = [Position EXCEPT ![h] = @ + n]
    BY <1>2, <2>9 DEF p
  <2>11. out' = Result("read", StorageRead(Content[open[h]], Position[h], n))
    BY <1>2, <2>1, <2>2
  <2> QED BY <2>7, <2>8, <2>10, <2>11 DEF Answer
<1>4. CASE ~ Hits(cache, n)
  <2>1. /\ disk' = disk
        /\ out' = Result("read", StorageRead(disk[open[h]], cache.position, n))
        /\ cache' = [cache EXCEPT !.position = cache.position + n]
    BY <1>4 DEF ReadFromFile
  <2>2. Apart(cache.blocks, cache.position, n, Scan(cache.blocks, cache.position, n) - 1)
    BY <1>2, <1>4, HitIs
  <2>3. StorageRead(disk[open[h]], cache.position, n) =
          StorageRead(Written(disk[open[h]], cache.blocks), cache.position, n)
    BY <1>2, <2>2, ReadOutside
  <2>4. cache.position + n \in Nat
    BY <1>2
  <2>5. IInv' /\ Content' = Content /\ Position' = [Position EXCEPT ![h] = cache.position + n]
    BY <1>1, <1>2, <2>1, <2>4, MovedStep
  <2>6. Position' = [Position EXCEPT ![h] = @ + n]
    BY <1>2, <2>5
  <2>7. out' = Result("read", StorageRead(Content[open[h]], Position[h], n))
    BY <1>2, <2>1, <2>3
  <2> QED BY <2>5, <2>6, <2>7 DEF Answer
<1> QED BY <1>3, <1>4

\* midp_file_cache_read.
LEMMA ReadStep ==
  ASSUME IInv, NEW h \in Handles, NEW n \in ReadSizes, Read(h, n)
  PROVE  IInv' /\ File!Read(h, n)
<1> DEFINE got == StorageRead(Content[open[h]], Position[h], n)
<1>1. open[h] # None /\ UNCHANGED <<open, locks>> /\ n \in Nat \ {0}
  BY Sizes DEF Read
<1>2. IInv' /\ \E skipped \in {n, Len(got)} : Answer(h, n, skipped)
  <2>1. CASE ReadDirect(h, n)
    BY <1>1, <2>1, DirectRead
  <2>2. CASE ReadInBlock(h, n)
    BY <1>1, <2>2, BlockRead
  <2>3. CASE ReadFromFile(h, n)
    BY <1>1, <2>3, FileRead
  <2> QED BY <2>1, <2>2, <2>3 DEF Read
<1>3. PICK skipped \in {n, Len(got)} : Answer(h, n, skipped)
  BY <1>2
<1>4. got = SubSeq(Content[open[h]], Position[h] + 1,
                   File!Min({Position[h] + n, Len(Content[open[h]])}))
  BY DEF StorageRead, Min, File!Min
<1> HIDE DEF got
<1>5. Content' = Content /\ out' = Result("read", got) /\ Position' = [Position EXCEPT ![h] = @ + skipped]
  BY <1>3 DEF Answer, got
<1> QED BY <1>1, <1>2, <1>4, <1>5 DEF File!Read, Result, File!Result

-----------------------------------------------------------------------------
(* The theorems.                                                           *)

\* Nothing is open or cached at first.
LEMMA InitOK == Init => IInv /\ File!Init
<1> SUFFICES ASSUME Init PROVE IInv /\ File!Init
  OBVIOUS
<1>1. << >> \in Seq(Nat) /\ << >> \in Seq(Lock)
  OBVIOUS
<1>2. TypeOK /\ CacheOK
  BY <1>1 DEF Init, TypeOK, CacheOK, Good, Disks
<1>3. LockedWhileOpen
  BY DEF Init, LockedWhileOpen
<1>4. Content = [f \in Files |-> << >>] /\ Position = [h \in Handles |-> 0]
  BY DEF Init, Content, Position, Cached
<1> QED BY <1>2, <1>3, <1>4 DEF IInv, Init, File!Init, Done, File!Done, Result, File!Result

\* Each operation keeps the invariant and is one of the plain file.
LEMMA NextOK ==
  ASSUME IInv, [Next]_vars
  PROVE  IInv' /\ [File!Next]_(File!vars)
<1>1. CASE UNCHANGED vars
  <2>1. IInv' /\ Content' = Content /\ Position' = Position
    BY <1>1, QuietStep DEF vars
  <2> QED BY <1>1, <2>1 DEF vars, File!vars
<1>2. ASSUME NEW f \in Files, Locked(f) \/ StorageSize(f) \/ Delete(f)
      PROVE  IInv' /\ File!Next
  BY <1>2, LockedStep, SizeStep, DeleteStep DEF File!Next
<1>3. ASSUME NEW f \in Files, NEW h \in Handles, Open(f, h)
      PROVE  IInv' /\ File!Next
  BY <1>3, OpenStep DEF File!Next
<1>4. ASSUME NEW h \in Handles \cup {None}, AvailableSpace(h)
      PROVE  IInv' /\ File!Next
  BY <1>4, SpaceStep DEF File!Next
<1>5. ASSUME NEW h \in Handles, Close(h) \/ CommitWrite(h)
      PROVE  IInv' /\ File!Next
  BY <1>5, CloseStep, CommitStep DEF File!Next
<1>6. ASSUME NEW h \in Handles, NEW p \in Positions, Seek(h, p) \/ Truncate(h, p)
      PROVE  IInv' /\ File!Next
  BY <1>6, SeekStep, TruncateStep DEF File!Next
<1>7. ASSUME NEW h \in Handles, NEW data \in Data, Write(h, data)
      PROVE  IInv' /\ File!Next
  BY <1>7, WriteStep DEF File!Next
<1>8. ASSUME NEW h \in Handles, NEW n \in ReadSizes, Read(h, n)
      PROVE  IInv' /\ File!Next
  BY <1>8, ReadStep DEF File!Next
<1> QED BY <1>1, <1>2, <1>3, <1>4, <1>5, <1>6, <1>7, <1>8 DEF Next

(* IInv is inductive: types, the shape of the cache, and the locks.        *)
THEOREM InductiveInvariant == Spec => []IInv
<1>1. Init => IInv
  BY InitOK
<1>2. IInv /\ [Next]_vars => IInv'
  BY NextOK
<1> QED BY <1>1, <1>2, PTL DEF Spec

(* Stores are locked exactly while they are open, by one handle: whatever  *)
(* order recordStoreOpen and recordStoreClose are called in.               *)
THEOREM StoresLocked == Spec => []LockedWhileOpen
<1>1. IInv => LockedWhileOpen
  BY DEF IInv
<1> QED BY <1>1, InductiveInvariant, PTL

(* The blocks of the cache stay sorted, apart and within the limit, and    *)
(* their size is what midp_file_cache.c has added up.                      *)
THEOREM BlocksInOrder == Spec => []BlocksSortedApart
<1>1. IInv => BlocksSortedApart
  <2> SUFFICES ASSUME IInv, cache # None
               PROVE  /\ cache.size <= RMS_CACHE_LIMIT
                      /\ cache.size = CostOf(cache.blocks)
                      /\ \A i, j \in DOMAIN cache.blocks :
                           i < j => cache.blocks[i].position + Len(cache.blocks[i].data)
                                      <= cache.blocks[j].position
    BY DEF BlocksSortedApart
  <2> QED BY DEF IInv, CacheOK, Good, BlockList, End
<1> QED BY <1>1, InductiveInvariant, PTL

(* Nobody sees the cache: every run of midp_file_cache.c and rms.c is one  *)
(* of plain files, whatever is flushed, bypassed or dropped on the way.    *)
THEOREM CacheIsInvisible == Spec => ImplementsFile
<1>1. Init => File!Init
  BY InitOK
<1>2. IInv /\ [Next]_vars => [File!Next]_(File!vars)
  BY NextOK
<1>3. Spec => File!Spec
  BY <1>1, <1>2, InductiveInvariant, PTL DEF Spec, File!Spec
<1> QED BY <1>3 DEF ImplementsFile
=============================================================================
