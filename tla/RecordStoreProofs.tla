-------------------------- MODULE RecordStoreProofs --------------------------
(***************************************************************************)
(* What RecordStore's runs check on a small store, proved for every one    *)
(* with PlainData, which looks like no record's header: the blocks tile the*)
(* file, what the header of the file says, what the index remembers, and   *)
(* that the store is a map from ids to data.                               *)
(*                                                                         *)
(* The proofs look at the file as words at offsets, and at the blocks as   *)
(* the set S of the offsets they start at: the list the code's walk makes  *)
(* of them is the subject of one lemma, Walked.                            *)
(***************************************************************************)
EXTENDS RecordStore, ListFacts

Headers == [nextId : Nat, numLive : Int, dataSize : Nat, freeSize : Int]

Stores == [file : Seq(Int), hdr : Headers, saved : Headers,
           offsets : {Null} \cup [Ids -> Int], lastSeen : Int]

(* The end of the file, and the offsets that a whole number of headers fits before. *)
End(s) == DB_HEADER_SIZE + Len(s.file)
Aligned(o) == (o - DB_HEADER_SIZE) % 2 = 0

(* The blocks that start at S are the whole file. *)
Tiled(s, S) ==
  /\ Len(s.file) = s.hdr.dataSize
  /\ Aligned(End(s))
  /\ \A o \in S : /\ o \in Int /\ DB_HEADER_SIZE <= o /\ o < End(s) /\ Aligned(o)
                  /\ DataLen(s, o) \in Nat
                  /\ o + BlockSize(s, o) \in S \cup {End(s)}
  /\ \A o \in S, p \in S : o < p => o + BlockSize(s, o) <= p
  /\ DB_HEADER_SIZE \in S \cup {End(s)}

(* Ids are where blocks start and nowhere else, each once. *)
Named(s, S) ==
  /\ \A o \in S : BlockId(s, o) \in {FREE} \cup Ids
  /\ \A o \in S, p \in S : BlockId(s, o) = BlockId(s, p) /\ BlockId(s, o) # FREE => o = p
  /\ \A o \in DB_HEADER_SIZE .. End(s) - 1 : Aligned(o) /\ BlockId(s, o) \in Ids => o \in S

(* What the index remembers of a record is its block or nothing; of an id that no record has *)
(* it may remember anything, but where a header could be.                                    *)
Indexed(s, S) ==
  /\ s.offsets # Null =>
       /\ \A id \in Ids : \/ s.offsets[id] = INVALID_OFFSET
                          \/ DB_HEADER_SIZE <= s.offsets[id] /\ Aligned(s.offsets[id])
       /\ \A o \in S : BlockId(s, o) # FREE => s.offsets[BlockId(s, o)] \in {o, INVALID_OFFSET}
  /\ s.lastSeen \in {NO_OFFSET} \cup S

Starts(s) == ToSet(AllBlocks(s))

Good(s, S) == s \in Stores /\ s.saved = s.hdr /\ Tiled(s, S) /\ Named(s, S) /\ Indexed(s, S)

(* A store between two methods, or within one: all but the numbers in its header. *)
Whole(s) == Good(s, Starts(s)) /\ s.hdr.freeSize >= Cardinality(Free(s))

(* A store between two methods: ids that are there were given out, and every record counts. *)
Sound(s) ==
  /\ Whole(s)
  /\ DOMAIN RecordsIn(s) \subseteq 1 .. s.hdr.nextId - 1
  /\ s.hdr.numLive >= Cardinality(DOMAIN RecordsIn(s))

(* The inductive invariant. *)
StoreInv == Sound(rs)

-----------------------------------------------------------------------------
(* Sizes and offsets.                                                      *)

(* The size of a block: room for its header and its data, and a whole      *)
(* number of headers.                                                      *)
LEMMA SizeIs ==
  ASSUME NEW n \in Nat
  PROVE  /\ CalculateBlockSize(n) \in Nat
         /\ CalculateBlockSize(n) >= n + 2 /\ CalculateBlockSize(n) <= n + 3
         /\ CalculateBlockSize(n) % 2 = 0
         /\ n % 2 = 0 => CalculateBlockSize(n) = n + 2
BY DEF CalculateBlockSize, BLOCK_HEADER_SIZE

(* Offsets that are whole numbers of headers apart.                        *)
LEMMA StaysAligned ==
  ASSUME NEW o \in Int, NEW n \in Int, n % 2 = 0
  PROVE  Aligned(o) <=> Aligned(o + n)
BY Layout DEF Aligned

(* Between two of them there is room for a header.                         *)
LEMMA RoomBetween ==
  ASSUME NEW o \in Int, NEW p \in Int, Aligned(o), Aligned(p)
  PROVE  /\ (p - o) % 2 = 0
         /\ o < p => o + 2 <= p
BY Layout DEF Aligned

(* No id is that of a free block.                                          *)
LEMMA IdsAre ==
  /\ Ids \subseteq Int /\ FREE \in Int /\ ~ (FREE > 0) /\ FREE < 0
  /\ \A id \in Ids : id \in Nat /\ id > 0 /\ ~ (id < 0) /\ id # FREE
BY Layout DEF FREE

(* Half of an even number.                                                 *)
LEMMA HalfOf ==
  ASSUME NEW n \in Nat, n % 2 = 0
  PROVE  n \div 2 \in Nat /\ 2 * (n \div 2) = n
OBVIOUS

(* The header's own length, and where it ends.                             *)
LEMMA FirstAligned == Aligned(DB_HEADER_SIZE) /\ DB_HEADER_SIZE \in Nat /\ DB_HEADER_SIZE >= 1
BY Layout DEF Aligned

-----------------------------------------------------------------------------
(* Words.                                                                  *)

(* r is p with q behind it.                                                *)
Joins(r, p, q) ==
  /\ r \in Seq(Int) /\ Len(r) = Len(p) + Len(q)
  /\ \A i \in 1 .. Len(p) : r[i] = p[i]
  /\ \A i \in 1 .. Len(q) : r[Len(p) + i] = q[i]

(* What \o makes.                                                          *)
LEMMA JoinIs ==
  ASSUME NEW p \in Seq(Int), NEW q \in Seq(Int)
  PROVE  Joins(p \o q, p, q)
BY DEF Joins

(* What writing words over a file, or over its end, leaves in it.          *)
LEMMA OverwrittenIs ==
  ASSUME NEW f \in Seq(Int), NEW w \in Seq(Int), NEW at \in 0 .. Len(f)
  PROVE  /\ Overwritten(f, at, w) \in Seq(Int)
         /\ Len(Overwritten(f, at, w)) = IF at + Len(w) > Len(f) THEN at + Len(w) ELSE Len(f)
         /\ \A k \in 1 .. Len(Overwritten(f, at, w)) :
              Overwritten(f, at, w)[k] = IF at < k /\ k <= at + Len(w) THEN w[k - at] ELSE f[k]
<1> DEFINE a == SubSeq(f, 1, at)
           b == a \o w
           c == SubSeq(f, at + Len(w) + 1, Len(f))
           r == b \o c
<1>0. Len(f) \in Nat /\ Len(w) \in Nat /\ at \in Nat /\ at <= Len(f)
  OBVIOUS
<1>1. a \in Seq(Int) /\ Len(a) = at /\ \A i \in 1 .. at : a[i] = f[i]
  OBVIOUS
<1>2. /\ c \in Seq(Int)
      /\ Len(c) = IF at + Len(w) + 1 <= Len(f) THEN Len(f) - (at + Len(w)) ELSE 0
      /\ \A i \in 1 .. Len(f) - (at + Len(w)) : c[i] = f[at + Len(w) + i]
  <2>1. at + Len(w) \in Nat /\ Len(f) \in Nat
    OBVIOUS
  <2> QED BY <2>1, PartIs
<1>20. /\ at + Len(w) <= Len(f) => Len(c) = Len(f) - (at + Len(w))
       /\ at + Len(w) > Len(f) => Len(c) = 0
  <2> HIDE DEF c
  <2>1. at + Len(w) = Len(f) => Len(c) = Len(f) - (at + Len(w))
    BY <1>0, <1>2
  <2>2. at + Len(w) < Len(f) => Len(c) = Len(f) - (at + Len(w))
    BY <1>0, <1>2
  <2> QED BY <1>0, <1>2, <2>1, <2>2
<1>3. Overwritten(f, at, w) = r
  BY DEF Overwritten
<1> HIDE DEF a, c
<1>4. Joins(b, a, w)
  BY <1>1, JoinIs
<1>5. b \in Seq(Int)
  BY <1>4 DEF Joins
<1> HIDE DEF b
<1>6. Joins(r, b, c)
  BY <1>2, <1>5, JoinIs
<1> HIDE DEF r
<1>7. Len(b) = at + Len(w) /\ Len(r) = at + Len(w) + Len(c) /\ r \in Seq(Int)
  BY <1>1, <1>4, <1>6 DEF Joins
<1>8. Len(r) = IF at + Len(w) > Len(f) THEN at + Len(w) ELSE Len(f)
  <2>1. CASE at + Len(w) <= Len(f)
    <3>1. at + Len(w) + (Len(f) - (at + Len(w))) = Len(f)
      BY <1>0
    <3>2. Len(r) = at + Len(w) + (Len(f) - (at + Len(w)))
      BY <1>7, <1>20, <2>1
    <3> QED BY <1>0, <2>1, <3>1, <3>2
  <2>2. CASE at + Len(w) > Len(f)
    BY <1>0, <1>7, <1>20, <2>2
  <2> QED BY <1>0, <2>1, <2>2
<1>9. ASSUME NEW k \in 1 .. Len(r)
      PROVE  r[k] = IF at < k /\ k <= at + Len(w) THEN w[k - at] ELSE f[k]
  <2>1. CASE k <= at
    <3>1. k \in 1 .. Len(a) /\ k \in 1 .. Len(b) /\ k \in 1 .. at
      BY <1>0, <1>1, <1>7, <2>1
    <3>2. r[k] = b[k] /\ b[k] = a[k] /\ a[k] = f[k]
      BY <1>1, <1>4, <1>6, <3>1 DEF Joins
    <3> QED BY <1>0, <2>1, <3>2
  <2>2. CASE at < k /\ k <= at + Len(w)
    <3>1. k - at \in 1 .. Len(w) /\ k \in 1 .. Len(b) /\ k = Len(a) + (k - at)
      BY <1>0, <1>1, <1>7, <2>2
    <3>2. r[k] = b[k]
      BY <1>6, <3>1 DEF Joins
    <3>3. b[Len(a) + (k - at)] = w[k - at]
      BY <1>4, <3>1 DEF Joins
    <3>4. b[k] = w[k - at]
      BY <3>1, <3>3
    <3> QED BY <2>2, <3>2, <3>4
  <2>3. CASE at + Len(w) < k
    <3> DEFINE i == k - (at + Len(w))
    <3>1. /\ i \in 1 .. Len(c) /\ k = Len(b) + i /\ k = at + Len(w) + i
          /\ i \in 1 .. Len(f) - (at + Len(w))
      <4>1. k \in Nat /\ k <= Len(r) /\ i \in Nat /\ i >= 1
        BY <1>0, <1>7, <2>3
      <4>2. Len(c) = Len(f) - (at + Len(w)) /\ Len(c) \in Nat
        BY <1>0, <1>7, <1>20, <2>3, <4>1
      <4> QED BY <1>0, <1>7, <4>1, <4>2
    <3> HIDE DEF i
    <3>2. r[k] = c[i]
      BY <1>6, <3>1 DEF Joins
    <3>3. c[i] = f[k]
      BY <1>2, <3>1
    <3> QED BY <1>0, <2>3, <3>2, <3>3
  <2> QED BY <1>0, <1>7, <2>1, <2>2, <2>3
<1> QED BY <1>3, <1>7, <1>8, <1>9

(* The words w are the header and the data of a block, of its size.        *)
AreOfBlock(w, id, len, data) ==
  /\ w \in Seq(Int) /\ Len(w) = CalculateBlockSize(Len(data))
  /\ w[1] = id /\ w[2] = len
  /\ \A i \in 1 .. Len(data) : w[2 + i] = data[i]

(* What the code writes for a block: the header, the data, and padding.    *)
LEMMA BlockWords ==
  ASSUME NEW id \in Int, NEW len \in Int, NEW data \in Seq(Int)
  PROVE  AreOfBlock(<<id, len>> \o data \o Padding(Len(data)), id, len, data)
<1> DEFINE h == <<id, len>>
           n == CalculateBlockSize(Len(data)) - 2 - Len(data)
           p == Padding(Len(data))
           hd == h \o data
           all == hd \o p
<1>1. Len(data) \in Nat
  OBVIOUS
<1>2. n \in Nat
  <2>1. CalculateBlockSize(Len(data)) \in Nat /\ CalculateBlockSize(Len(data)) >= Len(data) + 2
    BY <1>1, SizeIs
  <2> QED BY <1>1, <2>1
<1>3. p \in Seq(Int) /\ Len(p) = n
  <2>1. Pad \in Int
    BY Layout
  <2>2. p = [i \in 1 .. n |-> Pad]
    BY DEF Padding, BLOCK_HEADER_SIZE
  <2> HIDE DEF n, p
  <2>3. p \in [1 .. n -> Int]
    BY <2>1, <2>2
  <2> QED BY <1>2, <2>3, MadeList
<1>4. h \in Seq(Int) /\ Len(h) = 2 /\ h[1] = id /\ h[2] = len
  OBVIOUS
<1> HIDE DEF h, p
<1>6. Joins(hd, h, data)
  BY <1>4, JoinIs
<1>7. hd \in Seq(Int)
  BY <1>6 DEF Joins
<1> HIDE DEF hd
<1>8. Joins(all, hd, p)
  BY <1>3, <1>7, JoinIs
<1> HIDE DEF all
<1>9. Len(hd) = 2 + Len(data) /\ Len(all) = 2 + Len(data) + n /\ all \in Seq(Int)
  BY <1>3, <1>4, <1>6, <1>8 DEF Joins
<1>10. Len(all) = CalculateBlockSize(Len(data))
  <2>1. CalculateBlockSize(Len(data)) \in Nat
    BY <1>1, SizeIs
  <2> QED BY <1>1, <1>9, <2>1
<1>11. all[1] = id /\ all[2] = len
  <2>1. 1 \in 1 .. Len(h) /\ 2 \in 1 .. Len(h) /\ 1 \in 1 .. Len(hd) /\ 2 \in 1 .. Len(hd)
    BY <1>1, <1>4, <1>9
  <2>2. hd[1] = id /\ hd[2] = len
    BY <1>4, <1>6, <2>1 DEF Joins
  <2> QED BY <1>8, <2>1, <2>2 DEF Joins
<1>12. ASSUME NEW i \in 1 .. Len(data)
       PROVE  all[2 + i] = data[i]
  <2>1. 2 + i \in 1 .. Len(hd)
    BY <1>1, <1>9
  <2>2. hd[Len(h) + i] = data[i]
    BY <1>6 DEF Joins
  <2>3. hd[2 + i] = data[i]
    BY <1>4, <2>2
  <2> QED BY <1>8, <2>1, <2>3 DEF Joins
<1> QED BY <1>9, <1>10, <1>11, <1>12 DEF AreOfBlock, all, hd, h, p

(* t is s after a block with the given header and data was written at o.   *)
Wrote(t, s, o, id, len, data) ==
  /\ t \in Stores
  /\ t.hdr = s.hdr /\ t.saved = s.saved /\ t.lastSeen = s.lastSeen
  /\ t.offsets = IF s.offsets = Null \/ id = FREE THEN s.offsets ELSE [s.offsets EXCEPT ![id] = o]
  /\ End(t) = IF o + CalculateBlockSize(Len(data)) > End(s)
              THEN o + CalculateBlockSize(Len(data)) ELSE End(s)
  /\ Word(t, o) = id /\ Word(t, o + 1) = len
  /\ \A i \in 1 .. Len(data) : Word(t, o + 1 + i) = data[i]
  /\ \A p \in DB_HEADER_SIZE .. End(t) - 1 :
       p < o \/ p >= o + CalculateBlockSize(Len(data)) => Word(t, p) = Word(s, p)

(* WriteBlock does that, inside the file or at its end.                    *)
LEMMA WriteBlockWrites ==
  ASSUME NEW s \in Stores, NEW o \in DB_HEADER_SIZE .. End(s), NEW id \in {FREE} \cup Ids,
         NEW len \in Int, NEW data \in Seq(Int)
  PROVE  Wrote(WriteBlock(s, o, id, len, data), s, o, id, len, data)
<1> DEFINE w == <<id, len>> \o data \o Padding(Len(data))
           n == CalculateBlockSize(Len(data))
           at == o - DB_HEADER_SIZE
           f == Overwritten(s.file, at, w)
           u == [s EXCEPT !.file = f]
           t == UpdateBlock(u, o, id)
<1>1. id \in Int /\ Ids \subseteq Int /\ DB_HEADER_SIZE \in Nat
  BY Layout DEF FREE
<1>2. /\ w \in Seq(Int) /\ Len(w) = n /\ w[1] = id /\ w[2] = len
      /\ \A i \in 1 .. Len(data) : w[2 + i] = data[i]
  <2>1. AreOfBlock(w, id, len, data)
    BY <1>1, BlockWords, Zenon
  <2> QED BY <2>1 DEF AreOfBlock
<1>3. s.file \in Seq(Int) /\ Len(s.file) \in Nat /\ at \in 0 .. Len(s.file) /\ o \in Int
  BY <1>1 DEF Stores, End
<1>4. n \in Nat /\ n >= Len(data) + 2 /\ Len(data) \in Nat
  BY SizeIs
<1>5. WriteBlock(s, o, id, len, data) = t
  BY DEF WriteBlock
<1> HIDE DEF w, n
<1>6. /\ f \in Seq(Int)
      /\ Len(f) = IF at + n > Len(s.file) THEN at + n ELSE Len(s.file)
      /\ \A k \in 1 .. Len(f) : f[k] = IF at < k /\ k <= at + n THEN w[k - at] ELSE s.file[k]
  BY <1>2, <1>3, OverwrittenIs
<1> HIDE DEF f
<1>7. u \in Stores /\ u.file = f /\ u.hdr = s.hdr /\ u.saved = s.saved /\ u.lastSeen = s.lastSeen
      /\ u.offsets = s.offsets
  BY <1>6 DEF Stores
<1> HIDE DEF u
<1>8. /\ t \in Stores /\ t.file = f /\ t.hdr = s.hdr /\ t.saved = s.saved /\ t.lastSeen = s.lastSeen
      /\ t.offsets = IF s.offsets = Null \/ id = FREE THEN s.offsets ELSE [s.offsets EXCEPT ![id] = o]
  <2>1. CASE s.offsets = Null \/ id = FREE
    BY <1>7, <2>1 DEF UpdateBlock
  <2>2. CASE ~ (s.offsets = Null \/ id = FREE)
    <3>1. t = [u EXCEPT !.offsets[id] = o] /\ id \in Ids /\ u.offsets \in [Ids -> Int]
      BY <1>7, <2>2 DEF UpdateBlock, Stores
    <3>2. /\ t = [u EXCEPT !.offsets = [u.offsets EXCEPT ![id] = o]]
          /\ [u.offsets EXCEPT ![id] = o] \in [Ids -> Int]
      BY <1>3, <3>1
    <3> QED BY <1>7, <2>2, <3>2 DEF Stores
  <2> QED BY <2>1, <2>2
<1> HIDE DEF t
<1>9. End(t) = IF o + n > End(s) THEN o + n ELSE End(s)
  <2> DEFINE l == Len(s.file)
             d == DB_HEADER_SIZE
  <2>1. End(t) = d + (IF at + n > l THEN at + n ELSE l) /\ End(s) = d + l
    BY <1>6, <1>8 DEF End
  <2>2. l \in Int /\ d \in Int /\ o \in Int /\ n \in Int /\ at = o - d
    BY <1>1, <1>3, <1>4
  <2> HIDE DEF l, d, at
  <2>3. at + n > l <=> o + n > d + l
    BY <2>2
  <2>4. d + (at + n) = o + n
    BY <2>2
  <2> QED BY <2>1, <2>3, <2>4
<1>10. \A p \in DB_HEADER_SIZE .. End(t) - 1 :
         /\ p - DB_HEADER_SIZE + 1 \in 1 .. Len(f)
         /\ Word(t, p) = f[p - DB_HEADER_SIZE + 1]
         /\ Word(s, p) = s.file[p - DB_HEADER_SIZE + 1]
  BY <1>1, <1>6, <1>8 DEF End, Word
<1>11. ASSUME NEW i \in 1 .. n
       PROVE  o + (i - 1) \in DB_HEADER_SIZE .. End(t) - 1 /\ Word(t, o + (i - 1)) = w[i]
  <2> DEFINE p == o + (i - 1)
             k == p - DB_HEADER_SIZE + 1
  <2>1. p \in DB_HEADER_SIZE .. End(t) - 1
    BY <1>1, <1>3, <1>4, <1>9 DEF End
  <2>2. k - at = i /\ at < k /\ k <= at + n
    BY <1>1, <1>3, <1>4
  <2> HIDE DEF p
  <2>3. Word(t, p) = f[k] /\ k \in 1 .. Len(f)
    BY <1>10, <2>1
  <2> HIDE DEF k
  <2>4. f[k] = w[k - at]
    BY <1>6, <2>2, <2>3
  <2> QED BY <2>1, <2>2, <2>3, <2>4 DEF p
<1>12. Word(t, o) = id /\ Word(t, o + 1) = len
  <2>1. 1 \in 1 .. n /\ 2 \in 1 .. n /\ o + (1 - 1) = o /\ o + (2 - 1) = o + 1
    BY <1>3, <1>4
  <2>2. Word(t, o + (1 - 1)) = w[1] /\ Word(t, o + (2 - 1)) = w[2]
    BY <1>11, <2>1
  <2> QED BY <1>2, <2>1, <2>2
<1>13. ASSUME NEW i \in 1 .. Len(data)
       PROVE  Word(t, o + 1 + i) = data[i]
  <2>1. 2 + i \in 1 .. n /\ o + ((2 + i) - 1) = o + 1 + i
    BY <1>3, <1>4
  <2> QED BY <1>2, <1>11, <2>1
<1>14. ASSUME NEW p \in DB_HEADER_SIZE .. End(t) - 1, p < o \/ p >= o + n
       PROVE  Word(t, p) = Word(s, p)
  <2>1. ~ (at < p - DB_HEADER_SIZE + 1 /\ p - DB_HEADER_SIZE + 1 <= at + n)
    BY <1>1, <1>3, <1>4, <1>14
  <2> QED BY <1>6, <1>10, <2>1
<1> QED BY <1>5, <1>8, <1>9, <1>12, <1>13, <1>14 DEF Wrote, n

-----------------------------------------------------------------------------
(* The walk over the blocks.                                               *)

(* What can be said of one block of a store that blocks tile.              *)
LEMMA BlockFacts ==
  ASSUME NEW s \in Stores, NEW S, Tiled(s, S), NEW o \in S
  PROVE  /\ o \in Int /\ DB_HEADER_SIZE <= o /\ Aligned(o)
         /\ DataLen(s, o) \in Nat
         /\ BlockSize(s, o) \in Nat /\ BlockSize(s, o) >= 2 /\ BlockSize(s, o) % 2 = 0
         /\ BlockSize(s, o) >= DataLen(s, o) + 2 /\ BlockSize(s, o) <= DataLen(s, o) + 3
         /\ o + BlockSize(s, o) \in S \cup {End(s)} /\ o + BlockSize(s, o) <= End(s)
         /\ o < End(s) /\ End(s) \in Int
<1>1. /\ o \in Int /\ DB_HEADER_SIZE <= o /\ o < End(s) /\ Aligned(o) /\ DataLen(s, o) \in Nat
      /\ o + BlockSize(s, o) \in S \cup {End(s)}
  BY DEF Tiled
<1>2. End(s) \in Int
  BY FirstAligned DEF Stores, End
<1>3. BlockSize(s, o) = CalculateBlockSize(DataLen(s, o))
  BY DEF BlockSize
<1>4. /\ BlockSize(s, o) \in Nat /\ BlockSize(s, o) >= 2 /\ BlockSize(s, o) % 2 = 0
      /\ BlockSize(s, o) >= DataLen(s, o) + 2 /\ BlockSize(s, o) <= DataLen(s, o) + 3
  <2> DEFINE n == DataLen(s, o)
  <2>1. n \in Nat
    BY <1>1
  <2> HIDE DEF n
  <2>2. /\ CalculateBlockSize(n) \in Nat /\ CalculateBlockSize(n) >= n + 2
        /\ CalculateBlockSize(n) <= n + 3 /\ CalculateBlockSize(n) % 2 = 0
    BY <2>1, SizeIs
  <2>3. CalculateBlockSize(n) >= 2
    BY <2>1, <2>2
  <2> QED BY <1>3, <2>2, <2>3 DEF n
<1>5. o + BlockSize(s, o) <= End(s)
  <2>1. \A p \in S : p < End(s)
    BY DEF Tiled
  <2> QED BY <1>1, <1>2, <1>4, <2>1
<1> QED BY <1>1, <1>2, <1>4, <1>5

(* A store's file ends where its header says.                              *)
LEMMA SizeOfFile ==
  ASSUME NEW s \in Stores, NEW S, Tiled(s, S)
  PROVE  /\ GetSize(s) = End(s) /\ End(s) \in Int /\ Len(s.file) \in Nat
         /\ End(s) = DB_HEADER_SIZE + Len(s.file) /\ Len(s.file) % 2 = 0
         /\ \A o \in S : Readable(s, o) /\ o < GetSize(s)
<1>1. GetSize(s) = End(s) /\ End(s) \in Int /\ Len(s.file) \in Nat /\ End(s) = DB_HEADER_SIZE + Len(s.file)
  BY FirstAligned DEF Tiled, Stores, End, GetSize
<1>2. Len(s.file) % 2 = 0
  BY <1>1, FirstAligned DEF Tiled, Aligned
<1>3. ASSUME NEW o \in S
      PROVE  Readable(s, o) /\ o < GetSize(s)
  <2>1. o \in Int /\ BlockSize(s, o) \in Nat /\ BlockSize(s, o) >= 2 /\ o + BlockSize(s, o) <= End(s)
    BY BlockFacts
  <2> QED BY <1>1, <2>1, FirstAligned DEF Readable, BLOCK_HEADER_SIZE
<1> QED BY <1>1, <1>2, <1>3

(* v is where a walk from a block went: from block to block, to a block or *)
(* the end of the file.                                                    *)
Chain(v, s, S, from) ==
  /\ v \in Seq(Int) /\ Len(v) >= 1 /\ v[1] = from
  /\ \A i \in 1 .. Len(v) - 1 : v[i] \in S /\ v[i + 1] = v[i] + BlockSize(s, v[i])
  /\ \A i \in 1 .. Len(v) : v[i] >= from + 2 * (i - 1)
  /\ v[Len(v)] \in S \cup {End(s)}

Stepped(s, v) == IF Last(v) < GetSize(s) /\ Readable(s, Last(v))
                 THEN Append(v, Last(v) + BlockSize(s, Last(v))) ELSE v

(* A step goes on from block to block until the end.                       *)
LEMMA ChainGoesOn ==
  ASSUME NEW s \in Stores, NEW S, Tiled(s, S), NEW from \in Int, NEW v, Chain(v, s, S, from)
  PROVE  /\ Chain(Stepped(s, v), s, S, from)
         /\ \/ Len(Stepped(s, v)) = Len(v) + 1
            \/ v[Len(v)] = End(s) /\ Stepped(s, v) = v
<1> DEFINE o == v[Len(v)]
           z == BlockSize(s, o)
           w == Append(v, o + z)
           n == Len(v)
<1>1. Last(v) = o
  BY DEF Last
<1>2. v \in Seq(Int) /\ n \in Nat /\ n >= 1 /\ o \in S \cup {End(s)}
  BY DEF Chain
<1>3. CASE o \in S
  <2>1. Stepped(s, v) = w
    BY <1>1, <1>3, SizeOfFile DEF Stepped
  <2>2. z \in Nat /\ z >= 2 /\ o \in Int /\ o + z \in S \cup {End(s)}
    BY <1>3, BlockFacts
  <2> HIDE DEF o, z
  <2>3. /\ w \in Seq(Int) /\ Len(w) = n + 1 /\ w[n + 1] = o + z
        /\ \A i \in 1 .. n : w[i] = v[i]
    BY <1>2, <2>2
  <2> HIDE DEF w, n
  <2>4. w[1] = from /\ Len(w) >= 1 /\ w[Len(w)] \in S \cup {End(s)}
    BY <1>2, <2>2, <2>3 DEF Chain
  <2>5. ASSUME NEW i \in 1 .. Len(w) - 1
        PROVE  w[i] \in S /\ w[i + 1] = w[i] + BlockSize(s, w[i])
    <3>1. CASE i = n
      BY <1>2, <1>3, <2>3, <3>1 DEF o, z, n
    <3>2. CASE i # n
      <4>1. i \in 1 .. n - 1 /\ i + 1 \in 1 .. n /\ i \in 1 .. n
        BY <1>2, <2>3, <3>2
      <4>2. v[i] \in S /\ v[i + 1] = v[i] + BlockSize(s, v[i])
        BY <4>1 DEF Chain, n
      <4> QED BY <2>3, <4>1, <4>2
    <3> QED BY <3>1, <3>2
  <2>6. ASSUME NEW i \in 1 .. Len(w)
        PROVE  w[i] >= from + 2 * (i - 1)
    <3>1. o >= from + 2 * (n - 1)
      BY <1>2 DEF Chain, o, n
    <3>2. CASE i = n + 1
      BY <1>2, <2>2, <2>3, <3>1, <3>2
    <3>3. CASE i # n + 1
      <4>1. i \in 1 .. n
        BY <1>2, <2>3, <3>3
      <4> QED BY <2>3, <4>1 DEF Chain, n
    <3> QED BY <3>2, <3>3
  <2>7. Chain(w, s, S, from)
    BY <2>3, <2>4, <2>5, <2>6 DEF Chain
  <2> QED BY <2>1, <2>3, <2>7 DEF n
<1>4. CASE o = End(s)
  <2>1. GetSize(s) = End(s) /\ End(s) \in Int
    BY SizeOfFile
  <2>2. ~ (Last(v) < GetSize(s))
    BY <1>1, <1>4, <2>1
  <2>3. Stepped(s, v) = v
    BY <2>2, Zenon DEF Stepped
  <2> QED BY <1>4, <2>3
<1> QED BY <1>2, <1>3, <1>4

(* The walk of Blocks is such a walk, and gets to the end of the file.     *)
LEMMA WalkEnds ==
  ASSUME NEW s \in Stores, NEW S, Tiled(s, S), NEW from \in S \cup {End(s)}
  PROVE  \E v : Chain(v, s, S, from) /\ v[Len(v)] = End(s) /\ Blocks(s, from) = Front(v)
<1> DEFINE step == [seen \in Seq(Int) |->
                      LET o == Last(seen)
                      IN  IF o < GetSize(s) /\ Readable(s, o) THEN Append(seen, o + BlockSize(s, o))
                          ELSE seen]
           N == Len(s.file) \div BLOCK_HEADER_SIZE
           F(h) == [n \in 0 .. N |-> IF n = 0 THEN <<from>> ELSE step[h[n - 1]]]
           walk == CHOOSE h : h = F(h)
           V == {v \in Seq(Int) : Chain(v, s, S, from)}
<1>1. Blocks(s, from) = Front(walk[N])
  BY DEF Blocks
<1>2. /\ N \in Nat /\ from \in Int /\ from >= DB_HEADER_SIZE /\ Len(s.file) \in Nat
      /\ 2 * N = Len(s.file) /\ End(s) = DB_HEADER_SIZE + 2 * N
  <2>1. Len(s.file) \in Nat /\ End(s) \in Int /\ Len(s.file) % 2 = 0 /\ End(s) = DB_HEADER_SIZE + Len(s.file)
    BY SizeOfFile
  <2>2. from \in Int /\ from >= DB_HEADER_SIZE
    BY <2>1, FirstAligned DEF Tiled
  <2>3. N \in Nat /\ 2 * N = Len(s.file)
    <3>1. Len(s.file) \div 2 \in Nat /\ 2 * (Len(s.file) \div 2) = Len(s.file)
      BY <2>1, HalfOf
    <3> QED BY <3>1 DEF BLOCK_HEADER_SIZE
  <2> QED BY <2>1, <2>2, <2>3
<1> HIDE DEF N
<1>3. \A v \in V : step[v] \in V /\ step[v] = Stepped(s, v)
  <2> SUFFICES ASSUME NEW v \in V PROVE step[v] \in V /\ step[v] = Stepped(s, v)
    OBVIOUS
  <2>1. v \in Seq(Int) /\ Chain(v, s, S, from)
    OBVIOUS
  <2>2. step[v] = Stepped(s, v)
    BY <2>1 DEF Stepped
  <2>3. Chain(Stepped(s, v), s, S, from)
    BY <1>2, <2>1, ChainGoesOn
  <2>4. Stepped(s, v) \in Seq(Int)
    BY <2>3 DEF Chain
  <2> HIDE DEF step
  <2> QED BY <2>2, <2>3, <2>4
<1>4. <<from>> \in V /\ Len(<<from>>) = 1
  <2> DEFINE v == <<from>>
  <2>1. v \in Seq(Int) /\ Len(v) = 1 /\ v[1] = from
    BY <1>2
  <2> HIDE DEF v
  <2>2. Chain(v, s, S, from)
    BY <1>2, <2>1 DEF Chain
  <2> QED BY <2>1, <2>2 DEF v
<1> HIDE DEF step, V
<1>5. walk = F(walk)
  <2> DEFINE t == [p \in (1 .. N) \X V |-> step[p[2]]]
  <2>1. t \in [(1 .. N) \X V -> V]
    BY <1>3
  <2>2. \A n \in 1 .. N, v \in V : t[<<n, v>>] = step[v]
    OBVIOUS
  <2> HIDE DEF t
  <2>3. PICK g : IsIteration(g, V, <<from>>, N, t)
    BY <1>2, <1>4, <2>1, Iterated, Zenon
  <2>4. g \in [0 .. N -> V] /\ g[0] = <<from>> /\ \A n \in 1 .. N : g[n] = t[<<n, g[n - 1]>>]
    BY <2>3 DEF IsIteration
  <2>5. ASSUME NEW n \in 1 .. N
        PROVE  g[n] = step[g[n - 1]]
    <3>1. n - 1 \in 0 .. N
      BY <1>2
    <3>2. g[n - 1] \in V
      BY <2>4, <3>1
    <3> QED BY <2>2, <2>4, <3>2
  <2>6. ASSUME NEW n \in 0 .. N
        PROVE  g[n] = IF n = 0 THEN <<from>> ELSE step[g[n - 1]]
    <3>1. n # 0 => n \in 1 .. N
      BY <1>2
    <3> QED BY <2>4, <2>5, <3>1
  <2>7. g = F(g)
    BY <2>4, <2>6
  <2> HIDE DEF F
  <2> QED BY <2>7
<1> HIDE DEF walk
<1>6. walk[0] = <<from>> /\ \A n \in 1 .. N : walk[n] = step[walk[n - 1]]
  <2>1. \A n \in 0 .. N : walk[n] = IF n = 0 THEN <<from>> ELSE step[walk[n - 1]]
    BY <1>5
  <2> HIDE DEF F
  <2>2. 0 \in 0 .. N /\ \A n \in 1 .. N : n \in 0 .. N /\ n # 0
    BY <1>2
  <2> QED BY <2>1, <2>2
<1> HIDE DEF F
<1>7. \A n \in 0 .. N : /\ walk[n] \in V
                        /\ Len(walk[n]) = n + 1 \/ Last(walk[n]) = End(s)
  <2> DEFINE Ok(n) == walk[n] \in V /\ (Len(walk[n]) = n + 1 \/ Last(walk[n]) = End(s))
             D == {n \in 0 .. N : ~ Ok(n)}
  <2> SUFFICES ASSUME D # {} PROVE FALSE
    OBVIOUS
  <2>1. D \in SUBSET Nat
    BY <1>2
  <2> HIDE DEF D
  <2>2. PICK n \in D : \A m \in D : n <= m
    BY <2>1, LeastExists
  <2> USE DEF D
  <2>3. n # 0
    <3>1. walk[0] \in V /\ Len(walk[0]) = 1
      BY <1>4, <1>6
    <3>2. Ok(0)
      BY <3>1
    <3> HIDE DEF Ok
    <3> QED BY <3>2
  <2>4. n - 1 \in 0 .. N /\ n - 1 \notin D /\ n \in 1 .. N /\ n \in Nat
    BY <1>2, <2>2, <2>3
  <2>5. Ok(n - 1)
    BY <2>4
  <2> DEFINE v == walk[n - 1]
  <2>6. v \in V /\ (Len(v) = n \/ Last(v) = End(s))
    BY <2>4, <2>5
  <2>7. walk[n] = Stepped(s, v) /\ walk[n] \in V
    BY <1>3, <1>6, <2>4, <2>6
  <2>8. Chain(v, s, S, from)
    BY <2>6 DEF V
  <2> HIDE DEF v, Ok
  <2>9. \/ Len(Stepped(s, v)) = Len(v) + 1
        \/ v[Len(v)] = End(s) /\ Stepped(s, v) = v
    <3>1. from \in Int
      BY <1>2
    <3> QED BY <2>8, <3>1, ChainGoesOn, Zenon
  <2>10. CASE Last(v) = End(s)
    <3>1. GetSize(s) = End(s) /\ End(s) \in Int
      BY SizeOfFile
    <3>2. ~ (Last(v) < GetSize(s))
      BY <2>10, <3>1
    <3>3. Stepped(s, v) = v
      BY <3>2, Zenon DEF Stepped
    <3> QED BY <2>7, <2>10, <3>3 DEF Ok
  <2>11. CASE Len(v) = n /\ Last(v) # End(s)
    <3>1. v[Len(v)] # End(s)
      BY <2>11 DEF Last
    <3>2. Len(walk[n]) = n + 1
      BY <2>7, <2>9, <2>11, <3>1
    <3> QED BY <2>7, <3>2 DEF Ok
  <2> QED BY <2>6, <2>10, <2>11
<1> DEFINE v == walk[N]
<1>8. Chain(v, s, S, from) /\ (Len(v) = N + 1 \/ Last(v) = End(s))
  BY <1>2, <1>7 DEF V
<1>9. v[Len(v)] = End(s)
  <2>1. CASE Last(v) = End(s)
    BY <2>1 DEF Last
  <2>2. CASE Len(v) = N + 1
    <3>1. Len(v) \in 1 .. Len(v)
      BY <1>2, <2>2
    <3>2. v[Len(v)] >= from + 2 * (Len(v) - 1)
      BY <1>8, <3>1 DEF Chain
    <3>3. v[Len(v)] \in S \cup {End(s)} /\ v[Len(v)] \in Int
      BY <1>8, <3>1 DEF Chain
    <3>4. v[Len(v)] >= End(s)
      BY <1>2, <2>2, <3>2, <3>3, FirstAligned
    <3>5. \A o \in S : o < End(s) /\ o \in Int
      BY DEF Tiled
    <3> QED BY <1>2, <3>3, <3>4, <3>5, FirstAligned
  <2> QED BY <1>8, <2>1, <2>2
<1> QED BY <1>1, <1>8, <1>9

(* q lists the blocks from one of them on, in the order of the file.       *)
Lists(q, s, S, from) ==
  /\ q \in Seq(Int)
  /\ \A i \in DOMAIN q : q[i] \in S /\ q[i] >= from
  /\ \A o \in S : o >= from => \E i \in DOMAIN q : q[i] = o
  /\ \A i \in DOMAIN q, j \in DOMAIN q : i < j => q[i] < q[j]
  /\ \A i \in DOMAIN q : q[i] + BlockSize(s, q[i]) = IF i < Len(q) THEN q[i + 1] ELSE End(s)

(* So does the walk, of which every search and every method makes use.     *)
LEMMA Walked ==
  ASSUME NEW s \in Stores, NEW S, Tiled(s, S), NEW from \in S \cup {End(s)}
  PROVE  Lists(Blocks(s, from), s, S, from)
<1>1. PICK v : Chain(v, s, S, from) /\ v[Len(v)] = End(s) /\ Blocks(s, from) = Front(v)
  BY WalkEnds
<1> DEFINE n == Len(v)
           q == Front(v)
<1>2. v \in Seq(Int) /\ n \in Nat /\ n >= 1 /\ v[1] = from /\ v[n] = End(s)
  BY <1>1 DEF Chain
<1>3. q \in Seq(Int) /\ Len(q) = n - 1 /\ DOMAIN q = 1 .. n - 1 /\ \A i \in 1 .. n - 1 : q[i] = v[i]
  <2> DEFINE m == n - 1
  <2>1. q = SubSeq(v, 0 + 1, m)
    BY DEF Front
  <2> HIDE DEF q
  <2>2. m \in Nat /\ m <= Len(v) /\ 0 \in Nat
    BY <1>2
  <2> HIDE DEF m
  <2>3. /\ q \in Seq(Int)
        /\ Len(q) = IF 1 <= m THEN m - 0 ELSE 0
        /\ \A i \in 1 .. m - 0 : q[i] = v[0 + i]
    BY <1>2, <2>1, <2>2, PartIs
  <2>4. Len(q) = m
    BY <2>2, <2>3
  <2>5. \A i \in 1 .. m : q[i] = v[i]
    BY <2>2, <2>3
  <2> QED BY <2>3, <2>4, <2>5 DEF m
<1>4. \A i \in 1 .. n - 1 : v[i] \in S /\ v[i + 1] = v[i] + BlockSize(s, v[i]) /\ v[i] >= from
  <2> SUFFICES ASSUME NEW i \in 1 .. n - 1
               PROVE  v[i] \in S /\ v[i + 1] = v[i] + BlockSize(s, v[i]) /\ v[i] >= from
    OBVIOUS
  <2>1. i \in 1 .. n /\ i \in 1 .. Len(v) - 1
    BY <1>2
  <2>2. v[i] >= from + 2 * (i - 1) /\ v[i] \in Int
    BY <1>1, <2>1 DEF Chain
  <2>3. v[i] \in S /\ v[i + 1] = v[i] + BlockSize(s, v[i])
    BY <1>1, <2>1 DEF Chain
  <2>4. v[i] >= from
    <3>1. from \in Int /\ i \in Int /\ i >= 1
      BY <1>2, <2>1
    <3> QED BY <2>2, <3>1
  <2> QED BY <2>3, <2>4
<1> HIDE DEF q
<1>5. \A o \in S : BlockSize(s, o) \in Nat /\ BlockSize(s, o) >= 2 /\ o \in Int /\ o < End(s)
  BY BlockFacts
<1>6. \A i \in 1 .. n - 1, j \in 1 .. n : i < j => v[i] + BlockSize(s, v[i]) <= v[j]
  <2> DEFINE D == {j \in 1 .. n : \E i \in 1 .. n - 1 : i < j /\ ~ (v[i] + BlockSize(s, v[i]) <= v[j])}
  <2> SUFFICES ASSUME D # {} PROVE FALSE
    OBVIOUS
  <2>1. D \in SUBSET Nat
    OBVIOUS
  <2> HIDE DEF D
  <2>2. PICK j \in D : \A m \in D : j <= m
    BY <2>1, LeastExists
  <2> USE DEF D
  <2>3. PICK i \in 1 .. n - 1 : i < j /\ ~ (v[i] + BlockSize(s, v[i]) <= v[j])
    BY <2>2
  <2>4. j \in 1 .. n /\ j - 1 \in 1 .. n - 1 /\ j - 1 \in 1 .. n /\ j - 1 < j /\ j \in Nat
    BY <1>2, <2>2, <2>3
  <2>5. v[j] = v[j - 1] + BlockSize(s, v[j - 1]) /\ v[j - 1] \in S
    BY <1>4, <2>4
  <2>6. v[i] \in S /\ v[i] \in Int /\ v[j - 1] \in Int /\ BlockSize(s, v[i]) \in Nat /\ BlockSize(s, v[j - 1]) \in Nat
    BY <1>4, <1>5, <2>5
  <2>7. CASE i = j - 1
    BY <2>3, <2>5, <2>6, <2>7
  <2>8. CASE i # j - 1
    <3>1. i < j - 1
      BY <2>3, <2>4, <2>8
    <3>2. j - 1 \notin D
      <4> HIDE DEF D
      <4>1. j \in Int /\ ~ (j <= j - 1)
        BY <2>4
      <4> QED BY <2>2, <4>1
    <3>3. v[i] + BlockSize(s, v[i]) <= v[j - 1]
      BY <2>4, <3>1, <3>2
    <3> HIDE DEF D
    <3>4. v[j - 1] <= v[j] /\ v[j] \in Int
      BY <2>5, <2>6
    <3>5. v[i] + BlockSize(s, v[i]) <= v[j]
      BY <2>6, <3>3, <3>4
    <3> QED BY <2>3, <3>5
  <2> QED BY <2>7, <2>8
<1>7. ASSUME NEW i \in DOMAIN q, NEW j \in DOMAIN q, i < j
      PROVE  q[i] < q[j]
  <2>1. i \in 1 .. n - 1 /\ j \in 1 .. n - 1 /\ j \in 1 .. n
    BY <1>2, <1>3
  <2>2. v[i] + BlockSize(s, v[i]) <= v[j] /\ v[i] \in S /\ v[j] \in S
    BY <1>4, <1>6, <1>7, <2>1
  <2>3. v[i] < v[j]
    BY <1>5, <2>2
  <2> QED BY <1>3, <2>1, <2>3
<1>8. ASSUME NEW i \in DOMAIN q
      PROVE  /\ q[i] \in S /\ q[i] >= from
             /\ q[i] + BlockSize(s, q[i]) = IF i < Len(q) THEN q[i + 1] ELSE End(s)
  <2>1. i \in 1 .. n - 1 /\ q[i] = v[i] /\ Len(q) = n - 1
    BY <1>3
  <2>2. v[i] \in S /\ v[i] >= from /\ v[i + 1] = v[i] + BlockSize(s, v[i])
    BY <1>4, <2>1
  <2>3. CASE i < n - 1
    <3>1. i + 1 \in 1 .. n - 1
      BY <1>2, <2>1, <2>3
    <3>2. q[i + 1] = v[i + 1]
      BY <1>3, <3>1
    <3> QED BY <2>1, <2>2, <2>3, <3>2
  <2>4. CASE i = n - 1
    <3>1. i + 1 = n /\ ~ (i < n - 1)
      BY <1>2, <2>4
    <3> QED BY <1>2, <2>1, <2>2, <3>1
  <2>5. i < n - 1 \/ i = n - 1
    BY <1>2, <2>1
  <2> QED BY <2>3, <2>4, <2>5
<1>9. ASSUME NEW o \in S, o >= from
      PROVE  \E i \in DOMAIN q : q[i] = o
  <2> DEFINE D == {j \in 1 .. n : v[j] > o}
  <2>1. D \in SUBSET Nat /\ n \in D
    BY <1>2, <1>5
  <2> HIDE DEF D
  <2>2. PICK j \in D : \A m \in D : j <= m
    BY <2>1, LeastExists
  <2> USE DEF D
  <2>3. j # 1 /\ j \in 1 .. n
    BY <1>2, <1>5, <1>9, <2>2
  <2>4. j - 1 \in 1 .. n - 1 /\ j - 1 \in 1 .. n /\ j - 1 < j /\ j \in Nat
    BY <1>2, <2>3
  <2>5. j - 1 \notin D
    BY <2>2, <2>4
  <2>6. v[j - 1] \in S /\ v[j] = v[j - 1] + BlockSize(s, v[j - 1]) /\ v[j] > o
    BY <1>4, <2>2, <2>4
  <2>7. ~ (v[j - 1] > o) /\ v[j - 1] \in Int /\ o \in Int
    BY <1>5, <2>4, <2>5, <2>6
  <2>8. v[j - 1] < o => v[j] <= o
    BY <2>6 DEF Tiled
  <2>9. v[j - 1] = o
    <3>1. v[j] \in Int
      BY <1>5, <2>6, <2>7
    <3> QED BY <2>6, <2>7, <2>8, <3>1
  <2> QED BY <1>3, <2>4, <2>9
<1>10. Lists(q, s, S, from)
  BY <1>3, <1>7, <1>8, <1>9 DEF Lists
<1> QED BY <1>1, <1>10 DEF q

(* Every block is on the whole walk, and nothing else.                     *)
LEMMA StartsAre ==
  ASSUME NEW s \in Stores, NEW S, Tiled(s, S)
  PROVE  /\ Starts(s) = S
         /\ Lists(AllBlocks(s), s, S, DB_HEADER_SIZE)
<1>1. DB_HEADER_SIZE \in S \cup {End(s)} /\ \A o \in S : o >= DB_HEADER_SIZE
  BY BlockFacts, FirstAligned DEF Tiled
<1>2. Lists(AllBlocks(s), s, S, DB_HEADER_SIZE)
  BY <1>1, Walked DEF AllBlocks
<1>3. Starts(s) = S
  BY <1>1, <1>2 DEF Lists, Starts, ToSet
<1> QED BY <1>2, <1>3

-----------------------------------------------------------------------------
(* What is in the blocks.                                                  *)

(* The data of a block, word by word.                                      *)
LEMMA DataIs ==
  ASSUME NEW s \in Stores, NEW S, Tiled(s, S), NEW o \in S
  PROVE  /\ BlockData(s, o) \in Seq(Int) /\ Len(BlockData(s, o)) = DataLen(s, o)
         /\ \A i \in 1 .. DataLen(s, o) : BlockData(s, o)[i] = Word(s, o + 1 + i)
<1> DEFINE n == DataLen(s, o)
           a == (o + BLOCK_HEADER_SIZE) - DB_HEADER_SIZE
           m == (o + BLOCK_HEADER_SIZE) - DB_HEADER_SIZE + n
           d == BlockData(s, o)
<1>1. /\ o \in Int /\ DB_HEADER_SIZE <= o /\ n \in Nat
      /\ o + 2 + n <= End(s) /\ End(s) \in Int /\ s.file \in Seq(Int) /\ Len(s.file) \in Nat
      /\ End(s) = DB_HEADER_SIZE + Len(s.file) /\ DB_HEADER_SIZE \in Nat
  <2>1. /\ o \in Int /\ DB_HEADER_SIZE <= o /\ n \in Nat /\ BlockSize(s, o) \in Nat
        /\ BlockSize(s, o) >= n + 2 /\ o + BlockSize(s, o) <= End(s)
    BY BlockFacts
  <2>2. End(s) \in Int /\ End(s) = DB_HEADER_SIZE + Len(s.file) /\ s.file \in Seq(Int) /\ DB_HEADER_SIZE \in Nat
    BY SizeOfFile, FirstAligned DEF Stores
  <2> HIDE DEF n
  <2> QED BY <2>1, <2>2
<1> HIDE DEF n
<1>2. a \in Nat /\ m \in Nat /\ m <= Len(s.file) /\ m = a + n
  BY <1>1 DEF BLOCK_HEADER_SIZE
<1>3. d = SubSeq(s.file, a + 1, m)
  BY DEF BlockData, Words, n
<1>4. \A i \in 1 .. n : Word(s, o + 1 + i) = s.file[a + i]
  <2> SUFFICES ASSUME NEW i \in 1 .. n PROVE Word(s, o + 1 + i) = s.file[a + i]
    OBVIOUS
  <2>1. (o + 1 + i) - DB_HEADER_SIZE + 1 = a + i
    BY <1>1 DEF BLOCK_HEADER_SIZE
  <2>2. Word(s, o + 1 + i) = s.file[(o + 1 + i) - DB_HEADER_SIZE + 1]
    BY Zenon DEF Word
  <2> QED BY <2>1, <2>2, Zenon
<1> HIDE DEF a, m, d
<1>5. /\ d \in Seq(Int)
      /\ Len(d) = IF a + 1 <= m THEN m - a ELSE 0
      /\ \A i \in 1 .. m - a : d[i] = s.file[a + i]
  <2> DEFINE f == s.file
  <2>1. f \in Seq(Int) /\ a \in Nat /\ m \in Nat /\ m <= Len(f) /\ d = SubSeq(f, a + 1, m)
    BY <1>1, <1>2, <1>3
  <2> HIDE DEF f
  <2>2. /\ d \in Seq(Int)
        /\ Len(d) = IF a + 1 <= m THEN m - a ELSE 0
        /\ \A i \in 1 .. m - a : d[i] = f[a + i]
    BY <2>1, PartIs
  <2> QED BY <2>2 DEF f
<1>6. m - a = n
  BY <1>1, <1>2
<1>7. Len(d) = n
  BY <1>1, <1>2, <1>5
<1>8. \A i \in 1 .. n : d[i] = s.file[a + i]
  BY <1>5, <1>6
<1> QED BY <1>4, <1>5, <1>7, <1>8 DEF d, n

(* A block has certain data when it has its words.                         *)
LEMMA HasData ==
  ASSUME NEW s \in Stores, NEW S, Tiled(s, S), NEW o \in S,
         NEW data \in Seq(Int), DataLen(s, o) = Len(data),
         \A i \in 1 .. Len(data) : Word(s, o + 1 + i) = data[i]
  PROVE  BlockData(s, o) = data
<1>1. /\ BlockData(s, o) \in Seq(Int) /\ Len(BlockData(s, o)) = Len(data)
      /\ \A i \in 1 .. Len(data) : BlockData(s, o)[i] = Word(s, o + 1 + i)
  BY DataIs
<1>2. DOMAIN BlockData(s, o) = 1 .. Len(data) /\ DOMAIN data = 1 .. Len(data)
  BY <1>1
<1>3. \A i \in 1 .. Len(data) : BlockData(s, o)[i] = data[i]
  BY <1>1
<1> QED BY <1>1, <1>2, <1>3, SameList

(* Two blocks, of one file or two, with the same words have the same data. *)
LEMMA SameData ==
  ASSUME NEW s \in Stores, NEW S, Tiled(s, S), NEW o \in S,
         NEW t \in Stores, NEW T, Tiled(t, T), NEW p \in T,
         DataLen(t, p) = DataLen(s, o),
         \A i \in 1 .. DataLen(s, o) : Word(t, p + 1 + i) = Word(s, o + 1 + i)
  PROVE  BlockData(t, p) = BlockData(s, o)
<1> DEFINE d == BlockData(s, o)
<1>1. /\ d \in Seq(Int) /\ Len(d) = DataLen(s, o)
      /\ \A i \in 1 .. DataLen(s, o) : d[i] = Word(s, o + 1 + i)
  BY DataIs
<1> HIDE DEF d
<1>2. BlockData(t, p) = d
  BY <1>1, HasData
<1> QED BY <1>2 DEF d

Taken(s, S) == {o \in S : BlockId(s, o) # FREE}

(* R holds the records of the blocks that are not free.                    *)
Holds(s, S, R) ==
  /\ R = [id \in DOMAIN R |-> R[id]]
  /\ DOMAIN R = {BlockId(s, o) : o \in Taken(s, S)}
  /\ \A o \in Taken(s, S) : R[BlockId(s, o)] = BlockData(s, o)

(* What is in the free blocks.                                             *)
FreeIn(s, S) == {p \in Int : \E o \in S : BlockId(s, o) = FREE /\ o <= p /\ p < o + BlockSize(s, o)}

(* The model's records are those; there is one such function.              *)
LEMMA RecordsAre ==
  ASSUME NEW s \in Stores, NEW S, Tiled(s, S), Named(s, S)
  PROVE  /\ Live(s) = Taken(s, S)
         /\ Holds(s, S, RecordsIn(s))
         /\ \A R : Holds(s, S, R) => R = RecordsIn(s)
<1> DEFINE L == Live(s)
           of == [live \in SUBSET Int |->
                    [id \in {BlockId(s, o) : o \in live} |->
                       BlockData(s, CHOOSE o \in live : BlockId(s, o) = id)]]
           Q == [id \in {BlockId(s, o) : o \in L} |->
                       BlockData(s, CHOOSE o \in L : BlockId(s, o) = id)]
<1>1. L = Taken(s, S)
  <2>1. L = {o \in S : BlockId(s, o) > 0}
    BY StartsAre DEF Live, Starts
  <2>2. \A o \in S : BlockId(s, o) > 0 <=> BlockId(s, o) # FREE
    BY IdsAre DEF Named
  <2> QED BY <2>1, <2>2 DEF Taken
<1> HIDE DEF L
<1>2. L \in SUBSET Int
  BY <1>1 DEF Taken, Tiled
<1>3. RecordsIn(s) = Q
  <2>1. RecordsIn(s) = of[L]
    BY DEF RecordsIn, L
  <2>2. of[L] = Q
    BY <1>2
  <2> HIDE DEF of, Q
  <2> QED BY <2>1, <2>2
<1>4. \A o \in L : (CHOOSE p \in L : BlockId(s, p) = BlockId(s, o)) = o
  <2> SUFFICES ASSUME NEW o \in L PROVE (CHOOSE p \in L : BlockId(s, p) = BlockId(s, o)) = o
    OBVIOUS
  <2>1. \A p \in L : BlockId(s, p) = BlockId(s, o) => p = o
    BY <1>1 DEF Named, Taken
  <2> QED BY <2>1
<1>5. DOMAIN Q = {BlockId(s, o) : o \in L} /\ Q = [id \in DOMAIN Q |-> Q[id]]
  OBVIOUS
<1>6. \A o \in L : Q[BlockId(s, o)] = BlockData(s, o)
  BY <1>4
<1> HIDE DEF Q
<1>7. Holds(s, S, Q)
  BY <1>1, <1>5, <1>6 DEF Holds
<1>8. ASSUME NEW R, Holds(s, S, R)
      PROVE  R = Q
  <2>1. DOMAIN R = DOMAIN Q /\ R = [id \in DOMAIN R |-> R[id]]
    BY <1>7, <1>8 DEF Holds
  <2>2. \A id \in DOMAIN R : R[id] = Q[id]
    <3> SUFFICES ASSUME NEW id \in DOMAIN R PROVE R[id] = Q[id]
      OBVIOUS
    <3>1. PICK o \in Taken(s, S) : id = BlockId(s, o)
      BY <1>8 DEF Holds
    <3> QED BY <1>7, <1>8, <3>1 DEF Holds
  <2> QED BY <1>5, <2>1, <2>2
<1> QED BY <1>1, <1>3, <1>7, <1>8 DEF L

(* And so are the words of the free blocks, of which there are no more     *)
(* than the file has.                                                      *)
LEMMA FreeAre ==
  ASSUME NEW s \in Stores, NEW S, Tiled(s, S), Named(s, S)
  PROVE  /\ Free(s) = FreeIn(s, S)
         /\ IsFiniteSet(Free(s)) /\ Cardinality(Free(s)) \in Nat
         /\ Free(s) \subseteq DB_HEADER_SIZE .. End(s) - 1
<1> DEFINE F == S \ Taken(s, S)
<1>1. Free(s) = UNION {o .. o + BlockSize(s, o) - 1 : o \in F}
  BY StartsAre, RecordsAre DEF Free, Starts
<1>2. \A o \in S : o \in F <=> BlockId(s, o) = FREE
  BY DEF Taken
<1>3. \A o \in S : o \in Int /\ BlockSize(s, o) \in Nat /\ o >= DB_HEADER_SIZE /\ o + BlockSize(s, o) <= End(s)
  BY BlockFacts
<1>4. F \subseteq S
  OBVIOUS
<1> HIDE DEF F
<1>5. Free(s) = FreeIn(s, S)
  <2>1. ASSUME NEW p \in Free(s)
        PROVE  p \in FreeIn(s, S)
    <3>1. PICK o \in F : p \in o .. o + BlockSize(s, o) - 1
      BY <1>1
    <3>2. o \in S /\ BlockId(s, o) = FREE
      BY <1>2, <1>4
    <3>3. p \in Int /\ o <= p /\ p < o + BlockSize(s, o)
      BY <1>3, <3>1, <3>2
    <3> QED BY <3>2, <3>3 DEF FreeIn
  <2>2. ASSUME NEW p \in FreeIn(s, S)
        PROVE  p \in Free(s)
    <3>1. PICK o \in S : BlockId(s, o) = FREE /\ o <= p /\ p < o + BlockSize(s, o)
      BY DEF FreeIn
    <3>2. o \in F /\ p \in Int
      BY <1>2, <3>1 DEF FreeIn
    <3>3. p \in o .. o + BlockSize(s, o) - 1
      BY <1>3, <3>1, <3>2
    <3> QED BY <1>1, <3>2, <3>3
  <2> QED BY <2>1, <2>2
<1>6. Free(s) \subseteq DB_HEADER_SIZE .. End(s) - 1
  <2> SUFFICES ASSUME NEW p \in FreeIn(s, S) PROVE p \in DB_HEADER_SIZE .. End(s) - 1
    BY <1>5
  <2>1. PICK o \in S : BlockId(s, o) = FREE /\ o <= p /\ p < o + BlockSize(s, o)
    BY DEF FreeIn
  <2>2. p \in Int /\ End(s) \in Int /\ DB_HEADER_SIZE \in Int
    <3>1. End(s) \in Int
      BY SizeOfFile
    <3> QED BY <3>1, FirstAligned DEF FreeIn
  <2> QED BY <1>3, <2>1, <2>2
<1>7. IsFiniteSet(DB_HEADER_SIZE .. End(s) - 1)
  <2>1. End(s) \in Int
    BY SizeOfFile
  <2>2. DB_HEADER_SIZE \in Int /\ End(s) - 1 \in Int
    BY <2>1, FirstAligned
  <2> QED BY <2>2, FS_Interval
<1> QED BY <1>5, <1>6, <1>7, FS_Subset, FS_CardinalityType

-----------------------------------------------------------------------------
(* The index.                                                              *)

(* Two stores with the same words, and with the same header too.           *)
SameWords(t, s) == t.file = s.file /\ t.hdr.dataSize = s.hdr.dataSize
SameFile(t, s) == t.file = s.file /\ t.hdr = s.hdr /\ t.saved = s.saved

(* The blocks are in the file: the index has no part in it.                *)
LEMMA SameBlocks ==
  ASSUME NEW s \in Stores, NEW S, Tiled(s, S), Named(s, S), NEW t \in Stores, SameWords(t, s)
  PROVE  /\ Tiled(t, S) /\ Named(t, S) /\ End(t) = End(s) /\ Starts(t) = S
         /\ \A o : /\ BlockId(t, o) = BlockId(s, o) /\ DataLen(t, o) = DataLen(s, o)
                   /\ BlockSize(t, o) = BlockSize(s, o) /\ BlockData(t, o) = BlockData(s, o)
                   /\ Readable(t, o) <=> Readable(s, o)
         /\ Free(t) = Free(s)
         /\ RecordsIn(t) = RecordsIn(s)
<1>1. /\ End(t) = End(s)
      /\ \A o : /\ BlockId(t, o) = BlockId(s, o) /\ DataLen(t, o) = DataLen(s, o)
                /\ BlockSize(t, o) = BlockSize(s, o) /\ BlockData(t, o) = BlockData(s, o)
                /\ Readable(t, o) <=> Readable(s, o)
  BY Zenon DEF SameWords, End, BlockId, DataLen, BlockSize, BlockData, Words, Word, Readable
<1>2. Tiled(t, S)
  BY <1>1 DEF SameWords, Tiled
<1>3. Named(t, S)
  BY <1>1, Zenon DEF Named
<1>4. Starts(t) = S
  BY <1>2, StartsAre
<1>5. Free(t) = Free(s)
  <2>1. FreeIn(t, S) = FreeIn(s, S)
    BY <1>1 DEF FreeIn
  <2> QED BY <1>2, <1>3, <2>1, FreeAre
<1>6. RecordsIn(t) = RecordsIn(s)
  <2>1. Holds(s, S, RecordsIn(s))
    BY RecordsAre
  <2>2. Taken(t, S) = Taken(s, S)
    BY <1>1 DEF Taken
  <2>3. \A R : Holds(s, S, R) => Holds(t, S, R)
    BY <1>1, <2>2, Zenon DEF Holds
  <2> QED BY <1>2, <1>3, <2>1, <2>3, RecordsAre
<1> QED BY <1>1, <1>2, <1>3, <1>4, <1>5, <1>6

(* What the index remembers of one id may be out of date.                  *)
IndexedBut(s, S, id) ==
  /\ s.offsets \in [Ids -> Int]
  /\ \A i \in Ids : \/ s.offsets[i] = INVALID_OFFSET
                    \/ DB_HEADER_SIZE <= s.offsets[i] /\ Aligned(s.offsets[i])
  /\ \A o \in S : BlockId(s, o) # FREE /\ BlockId(s, o) # id =>
                    s.offsets[BlockId(s, o)] \in {o, INVALID_OFFSET}
  /\ s.lastSeen \in {NO_OFFSET} \cup S

GoodBut(s, S, id) ==
  s \in Stores /\ s.saved = s.hdr /\ Tiled(s, S) /\ Named(s, S) /\ IndexedBut(s, S, id)

(* That does not matter when there is no such record.                      *)
LEMMA GoodAgain ==
  ASSUME NEW s, NEW S, NEW id, GoodBut(s, S, id), \A o \in S : BlockId(s, o) # id
  PROVE  Good(s, S)
BY DEF Good, GoodBut, Indexed, IndexedBut

(* h answers a search for id among the blocks xs of s.                     *)
Answers(h, s, S, id, xs) ==
  /\ SameFile(h.rs, s) /\ GoodBut(h.rs, S, id)
  /\ \/ h.at \in xs /\ BlockId(s, h.at) = id /\ Good(h.rs, S)
     \/ h.at = INVALID_OFFSET /\ \A o \in xs : BlockId(s, o) # id

(* A store in which the index notes an offset, and only that.              *)
LEMMA Noted ==
  ASSUME NEW s, NEW S, NEW id \in Ids, GoodBut(s, S, id), NEW o \in S,
         NEW t, t = [s EXCEPT !.offsets[id] = o, !.lastSeen = o]
  PROVE  /\ SameFile(t, s) /\ GoodBut(t, S, id)
         /\ BlockId(s, o) = id => Good(t, S)
<1>1. /\ s \in Stores /\ s.offsets \in [Ids -> Int] /\ s.saved = s.hdr /\ Tiled(s, S) /\ Named(s, S)
  BY DEF GoodBut, IndexedBut
<1>2. /\ o \in Int /\ o >= DB_HEADER_SIZE /\ Aligned(o)
  BY <1>1, BlockFacts
<1>3. /\ t \in Stores /\ t.file = s.file /\ t.hdr = s.hdr /\ t.saved = s.saved /\ t.lastSeen = o
      /\ t.offsets = [s.offsets EXCEPT ![id] = o]
  BY <1>1, <1>2 DEF Stores
<1>4. SameFile(t, s)
  BY <1>3 DEF SameFile
<1>5. /\ Tiled(t, S) /\ Named(t, S) /\ \A p : BlockId(t, p) = BlockId(s, p)
  <2>1. SameWords(t, s)
    BY <1>4 DEF SameFile, SameWords
  <2> QED BY <1>1, <1>3, <2>1, SameBlocks
<1>6. t.offsets \in [Ids -> Int] /\ \A i \in Ids : t.offsets[i] = IF i = id THEN o ELSE s.offsets[i]
  BY <1>1, <1>2, <1>3
<1>7. IndexedBut(t, S, id)
  <2>1. \A i \in Ids : \/ t.offsets[i] = INVALID_OFFSET
                       \/ DB_HEADER_SIZE <= t.offsets[i] /\ Aligned(t.offsets[i])
    BY <1>2, <1>6 DEF GoodBut, IndexedBut
  <2>2. ASSUME NEW p \in S, BlockId(t, p) # FREE, BlockId(t, p) # id
        PROVE  t.offsets[BlockId(t, p)] \in {p, INVALID_OFFSET}
    <3>1. BlockId(s, p) \in Ids /\ s.offsets[BlockId(s, p)] \in {p, INVALID_OFFSET}
      BY <1>5, <2>2 DEF GoodBut, IndexedBut, Named
    <3> QED BY <1>5, <1>6, <2>2, <3>1
  <2> QED BY <1>3, <1>6, <2>1, <2>2 DEF IndexedBut
<1>8. ASSUME BlockId(s, o) = id
      PROVE  Good(t, S)
  <2>1. \A p \in S : BlockId(s, p) = id => p = o
    BY <1>1, <1>8, IdsAre DEF Named
  <2>2. \A p \in S : BlockId(t, p) # FREE => t.offsets[BlockId(t, p)] \in {p, INVALID_OFFSET}
    BY <1>5, <1>6, <1>7, <2>1 DEF IndexedBut
  <2>3. Indexed(t, S)
    BY <1>7, <2>2 DEF Indexed, IndexedBut
  <2> QED BY <1>1, <1>3, <1>5, <2>3 DEF Good
<1> QED BY <1>1, <1>3, <1>4, <1>5, <1>7, <1>8 DEF GoodBut

(* A search from a block on finds the block of the id if it is there.      *)
LEMMA SearchFromAnswers ==
  ASSUME NEW s, NEW S, NEW id \in Ids, GoodBut(s, S, id), NEW from \in S \cup {End(s)}
  PROVE  Answers(SearchFrom(s, id, from), s, S, id, {o \in S : o >= from})
<1> DEFINE q == Blocks(s, from)
           hits == {i \in DOMAIN q : BlockId(s, q[i]) = id}
           seen == IF hits = {} THEN Len(q) ELSE Min(hits)
           h == SearchFrom(s, id, from)
           o == q[seen]
           t == [s EXCEPT !.offsets[id] = o, !.lastSeen = o]
           xs == {p \in S : p >= from}
<1> SUFFICES Answers(h, s, S, id, xs)
  OBVIOUS
<1>1. s \in Stores /\ Tiled(s, S) /\ Named(s, S)
  BY DEF GoodBut
<1>2. Lists(q, s, S, from)
  BY <1>1, Walked
<1>3. /\ h.at = IF hits = {} THEN INVALID_OFFSET ELSE o
      /\ h.rs = IF seen = 0 THEN s ELSE t
  BY DEF SearchFrom
<1> HIDE DEF q, h
<1>4. q \in Seq(Int) /\ DOMAIN q = 1 .. Len(q) /\ Len(q) \in Nat
  BY <1>2 DEF Lists
<1>5. CASE hits = {}
  <2>1. \A p \in xs : BlockId(s, p) # id
    <3> SUFFICES ASSUME NEW p \in xs PROVE BlockId(s, p) # id
      OBVIOUS
    <3>1. PICK i \in DOMAIN q : q[i] = p
      BY <1>2 DEF Lists
    <3> QED BY <1>5, <3>1
  <2>2. seen = Len(q) /\ h.at = INVALID_OFFSET
    BY <1>3, <1>5
  <2> HIDE DEF hits, seen
  <2>3. CASE seen = 0
    <3>1. h.rs = s
      BY <1>3, <2>3
    <3>2. SameFile(s, s)
      BY DEF SameFile
    <3> HIDE DEF xs
    <3> QED BY <2>1, <2>2, <3>1, <3>2 DEF Answers
  <2>4. CASE seen # 0
    <3>1. seen \in DOMAIN q
      BY <1>4, <2>2, <2>4
    <3>2. o \in S
      BY <1>2, <3>1 DEF Lists
    <3>3. h.rs = t
      BY <1>3, <2>4
    <3> HIDE DEF o, xs
    <3>4. SameFile(t, s) /\ GoodBut(t, S, id)
      BY <3>2, Noted, Zenon
    <3> HIDE DEF t
    <3> QED BY <2>1, <2>2, <3>3, <3>4 DEF Answers
  <2> QED BY <2>3, <2>4
<1>6. CASE hits # {}
  <2>1. hits \in SUBSET Nat /\ hits \subseteq 1 .. Len(q) /\ hits \in SUBSET Int
    BY <1>4
  <2> HIDE DEF hits
  <2>2. PICK i \in hits : \A j \in hits : i <= j
    BY <1>6, <2>1, LeastExists
  <2>3. Min(hits) = i
    BY <2>1, <2>2, MinIs
  <2>4. seen = i /\ i \in 1 .. Len(q) /\ seen # 0
    BY <1>6, <2>1, <2>3
  <2>5. h.at = o /\ h.rs = t
    BY <1>3, <1>6, <2>4
  <2> HIDE DEF seen
  <2>6. BlockId(s, q[i]) = id
    BY DEF hits
  <2>7. q[i] \in S /\ q[i] >= from
    BY <1>2, <1>4, <2>4 DEF Lists
  <2>8. o \in xs /\ o \in S /\ BlockId(s, o) = id
    BY <2>4, <2>6, <2>7
  <2> HIDE DEF o, xs
  <2>9. SameFile(t, s) /\ GoodBut(t, S, id) /\ Good(t, S)
    BY <2>8, Noted, Zenon
  <2> HIDE DEF t
  <2> QED BY <2>5, <2>8, <2>9 DEF Answers
<1> QED BY <1>5, <1>6

(* A search through the file, from where the last one ended and from the   *)
(* beginning.                                                              *)
LEMMA NoCacheAnswers ==
  ASSUME NEW s, NEW S, NEW id \in Ids, Good(s, S), s.offsets # Null
  PROVE  Answers(GetRecordHeaderNoCache(s, id), s, S, id, S)
<1> DEFINE early == s.lastSeen # NO_OFFSET
           ahead == SearchFrom(s, id, s.lastSeen)
           u == IF early THEN ahead.rs ELSE s
           again == SearchFrom(u, id, DB_HEADER_SIZE)
           h == GetRecordHeaderNoCache(s, id)
<1>1. h = IF early /\ ahead.at # INVALID_OFFSET THEN ahead ELSE again
  BY DEF GetRecordHeaderNoCache
<1>2. GoodBut(s, S, id) /\ s \in Stores /\ Tiled(s, S) /\ Named(s, S) /\ SameFile(s, s)
  BY DEF Good, GoodBut, Indexed, IndexedBut, Stores, SameFile
<1>3. early => s.lastSeen \in S
  BY DEF Good, Indexed
<1>4. early => Answers(ahead, s, S, id, {o \in S : o >= s.lastSeen})
  BY <1>2, <1>3, SearchFromAnswers
<1> HIDE DEF early, ahead, h
<1>5. CASE early /\ ahead.at # INVALID_OFFSET
  <2>1. h = ahead
    BY <1>1, <1>5
  <2> QED BY <1>4, <1>5, <2>1 DEF Answers, h
<1>6. CASE ~ (early /\ ahead.at # INVALID_OFFSET)
  <2>1. SameFile(u, s) /\ GoodBut(u, S, id)
    BY <1>2, <1>4 DEF Answers
  <2> HIDE DEF u
  <2>2. DB_HEADER_SIZE \in S \cup {End(u)} /\ \A o \in S : o >= DB_HEADER_SIZE
    BY <2>1 DEF GoodBut, Tiled
  <2>3. Answers(again, u, S, id, {o \in S : o >= DB_HEADER_SIZE})
    BY <2>1, <2>2, SearchFromAnswers
  <2>4. {o \in S : o >= DB_HEADER_SIZE} = S
    BY <2>2
  <2>5. \A o : BlockId(u, o) = BlockId(s, o)
    BY <1>2, <2>1, SameBlocks DEF GoodBut, SameFile, SameWords
  <2> HIDE DEF again
  <2>6. Answers(again, s, S, id, S)
    BY <2>1, <2>3, <2>4, <2>5 DEF Answers, SameFile
  <2> QED BY <1>1, <1>6, <2>6 DEF h
<1> QED BY <1>5, <1>6

(* What getRecordHeader finds: the block of the record, and nothing for an *)
(* id that no record has.                                                  *)
Found(h, s, S, id) ==
  /\ SameFile(h.rs, s) /\ Good(h.rs, S)
  /\ \/ /\ h.at \in S /\ BlockId(s, h.at) = id /\ h.at # INVALID_OFFSET
        /\ h.rs.offsets \in [Ids -> Int]
     \/ h.at = INVALID_OFFSET /\ \A o \in S : BlockId(s, o) # id

(* Whether the index knows the record, is mistaken, or knows nothing.      *)
LEMMA GetRecordHeaderFinds ==
  ASSUME NEW s, NEW S, NEW id \in Ids, Good(s, S)
  PROVE  Found(GetRecordHeader(s, id), s, S, id)
<1> DEFINE c == s.offsets[id]
           cached == s.offsets # Null /\ c # INVALID_OFFSET
           broken == cached /\ ~ Readable(s, c)
           new == [s EXCEPT !.offsets = NoOffsets, !.lastSeen = NO_OFFSET]
           u == IF s.offsets = Null \/ broken THEN new ELSE s
           h == GetRecordHeader(s, id)
<1>1. h = IF cached /\ ~ broken /\ BlockId(s, c) = id
          THEN [at |-> c, rs |-> s] ELSE GetRecordHeaderNoCache(u, id)
  BY DEF GetRecordHeader
<1> HIDE DEF h
<1>2. /\ s \in Stores /\ s.saved = s.hdr /\ Tiled(s, S) /\ Named(s, S) /\ Indexed(s, S)
      /\ SameFile(s, s)
  BY DEF Good, SameFile
<1>3. \A o \in S : o >= 1 /\ o # INVALID_OFFSET
  BY <1>2, BlockFacts, FirstAligned DEF INVALID_OFFSET
<1>4. CASE cached /\ ~ broken /\ BlockId(s, c) = id
  <2>1. h = [at |-> c, rs |-> s]
    BY <1>1, <1>4
  <2>2. c \in Int /\ DB_HEADER_SIZE <= c /\ Aligned(c) /\ s.offsets \in [Ids -> Int]
    BY <1>2, <1>4 DEF Stores, Indexed
  <2>3. c < End(s)
    <3>1. Readable(s, c) /\ Len(s.file) \in Nat /\ DB_HEADER_SIZE \in Nat
      BY <1>2, <1>4, SizeOfFile, FirstAligned
    <3> HIDE DEF c
    <3> QED BY <2>2, <3>1 DEF Readable, End, BLOCK_HEADER_SIZE
  <2>4. c \in DB_HEADER_SIZE .. End(s) - 1
    <3>1. End(s) \in Int
      BY <1>2, SizeOfFile
    <3> QED BY <2>2, <2>3, <3>1, FirstAligned
  <2>5. c \in S
    BY <1>2, <1>4, <2>2, <2>4 DEF Named
  <2> QED BY <1>2, <1>3, <1>4, <2>1, <2>2, <2>5 DEF Found, h, Good
<1>5. CASE ~ (cached /\ ~ broken /\ BlockId(s, c) = id)
  <2>1. h = GetRecordHeaderNoCache(u, id)
    BY <1>1, <1>5
  <2>2. NoOffsets \in [Ids -> Int] /\ \A i \in Ids : NoOffsets[i] = INVALID_OFFSET
    BY DEF NoOffsets, INVALID_OFFSET
  <2>3. /\ new \in Stores /\ SameFile(new, s) /\ new.offsets = NoOffsets /\ new.lastSeen = NO_OFFSET
    <3>1. NO_OFFSET \in Int
      BY DEF NO_OFFSET
    <3>2. new \in Stores
      BY <1>2, <2>2, <3>1 DEF Stores
    <3>3. new.file = s.file /\ new.hdr = s.hdr /\ new.saved = s.saved
      BY <1>2 DEF Stores
    <3>4. new.offsets = NoOffsets /\ new.lastSeen = NO_OFFSET
      BY <1>2 DEF Stores
    <3> QED BY <3>2, <3>3, <3>4 DEF SameFile
  <2>4. Good(new, S) /\ new.offsets # Null
    <3> HIDE DEF new
    <3>1. Tiled(new, S) /\ Named(new, S)
      BY <1>2, <2>3, SameBlocks DEF SameFile, SameWords
    <3>2. \A o \in S : BlockId(new, o) # FREE => new.offsets[BlockId(new, o)] \in {o, INVALID_OFFSET}
      BY <2>2, <2>3, <3>1 DEF Named
    <3>3. Indexed(new, S)
      BY <2>2, <2>3, <3>2 DEF Indexed
    <3>4. new.saved = new.hdr
      BY <1>2, <2>3 DEF SameFile
    <3> QED BY <2>2, <2>3, <3>1, <3>3, <3>4, Layout DEF Good
  <2>5. Good(u, S) /\ u.offsets # Null /\ SameFile(u, s)
    BY <1>2, <2>3, <2>4
  <2> HIDE DEF u, new
  <2>6. Answers(GetRecordHeaderNoCache(u, id), u, S, id, S)
    BY <2>5, NoCacheAnswers
  <2>7. Answers(h, u, S, id, S)
    BY <2>1, <2>6
  <2>8. \A o : BlockId(u, o) = BlockId(s, o)
    BY <1>2, <2>5, SameBlocks DEF Good, SameFile, SameWords
  <2>9. SameFile(h.rs, s) /\ \A o : BlockId(h.rs, o) = BlockId(s, o)
    <3>1. SameFile(h.rs, s) /\ h.rs \in Stores
      BY <2>5, <2>7 DEF Answers, SameFile, GoodBut
    <3> QED BY <1>2, <3>1, SameBlocks DEF SameFile, SameWords
  <2>10. CASE h.at \in S /\ BlockId(u, h.at) = id /\ Good(h.rs, S)
    <3>1. h.rs.offsets \in [Ids -> Int]
      BY <2>7 DEF Answers, GoodBut, IndexedBut
    <3> QED BY <1>3, <2>8, <2>9, <2>10, <3>1 DEF Found, h
  <2>11. CASE h.at = INVALID_OFFSET /\ \A o \in S : BlockId(u, o) # id
    <3>1. GoodBut(h.rs, S, id)
      BY <2>7 DEF Answers
    <3>2. Good(h.rs, S)
      BY <2>8, <2>9, <2>11, <3>1, GoodAgain
    <3> QED BY <2>8, <2>9, <2>11, <3>2 DEF Found, h
  <2> QED BY <2>7, <2>10, <2>11 DEF Answers
<1> QED BY <1>4, <1>5

-----------------------------------------------------------------------------
(* A block that is written anew.                                           *)

(* t is s with other words in the block at o, of which n words are a block *)
(* still, and what is left over is a free one.                             *)
Reshaped(t, s, o, n) ==
  /\ t \in Stores /\ End(t) = End(s) /\ t.hdr.dataSize = s.hdr.dataSize
  /\ n \in Nat /\ n >= 2 /\ n % 2 = 0 /\ n <= BlockSize(s, o)
  /\ DataLen(t, o) \in Nat /\ BlockSize(t, o) = n
  /\ n < BlockSize(s, o) => /\ DataLen(t, o + n) \in Nat /\ BlockSize(t, o + n) = BlockSize(s, o) - n
                            /\ BlockId(t, o + n) = FREE
  /\ \A p \in DB_HEADER_SIZE .. End(s) - 1 :
       p < o \/ p >= o + BlockSize(s, o) => Word(t, p) = Word(s, p)

StartsAfter(s, S, o, n) == IF n < BlockSize(s, o) THEN S \cup {o + n} ELSE S

(* p is the start of the same block in both, with the same words.          *)
Kept(t, s, p) ==
  /\ BlockId(t, p) = BlockId(s, p) /\ DataLen(t, p) = DataLen(s, p) /\ BlockSize(t, p) = BlockSize(s, p)
  /\ \A i \in 1 .. DataLen(s, p) : Word(t, p + 1 + i) = Word(s, p + 1 + i)

(* Where no word of a block changes it is kept.                            *)
LEMMA KeptWhere ==
  ASSUME NEW s \in Stores, NEW S, Tiled(s, S), NEW p \in S, NEW t,
         \A x \in Int : p <= x /\ x < p + BlockSize(s, p) => Word(t, x) = Word(s, x)
  PROVE  Kept(t, s, p)
<1>1. /\ p \in Int /\ DataLen(s, p) \in Nat /\ BlockSize(s, p) \in Nat
      /\ BlockSize(s, p) >= DataLen(s, p) + 2
  BY BlockFacts
<1>2. Word(t, p) = Word(s, p) /\ Word(t, p + 1) = Word(s, p + 1)
  <2>1. /\ p \in Int /\ p <= p /\ p < p + BlockSize(s, p)
        /\ p + 1 \in Int /\ p <= p + 1 /\ p + 1 < p + BlockSize(s, p)
    BY <1>1
  <2> QED BY <2>1
<1>3. /\ BlockId(t, p) = BlockId(s, p) /\ DataLen(t, p) = DataLen(s, p) /\ BlockSize(t, p) = BlockSize(s, p)
  BY <1>2 DEF BlockId, DataLen, BlockSize
<1>4. ASSUME NEW i \in 1 .. DataLen(s, p)
      PROVE  Word(t, p + 1 + i) = Word(s, p + 1 + i)
  <2> DEFINE x == p + 1 + i
  <2>1. x \in Int /\ p <= x /\ x < p + BlockSize(s, p)
    BY <1>1
  <2> HIDE DEF x
  <2>2. Word(t, x) = Word(s, x)
    BY <2>1
  <2> QED BY <2>2 DEF x
<1> QED BY <1>3, <1>4 DEF Kept

(* The other blocks are kept.                                              *)
LEMMA OthersKept ==
  ASSUME NEW s \in Stores, NEW S, Tiled(s, S), NEW o \in S, NEW n, NEW t, Reshaped(t, s, o, n),
         NEW p \in S, p # o
  PROVE  Kept(t, s, p) /\ (p + BlockSize(s, p) <= o \/ p >= o + BlockSize(s, o))
<1>1. /\ o \in Int /\ p \in Int /\ BlockSize(s, p) \in Nat /\ DB_HEADER_SIZE <= p
      /\ p + BlockSize(s, p) <= End(s) /\ End(s) \in Int
  BY BlockFacts
<1>2. BlockSize(s, o) \in Nat
  BY BlockFacts
<1>3. p + BlockSize(s, p) <= o \/ p >= o + BlockSize(s, o)
  BY <1>1 DEF Tiled
<1>4. ASSUME NEW x \in Int, p <= x, x < p + BlockSize(s, p)
      PROVE  Word(t, x) = Word(s, x)
  <2>1. x \in DB_HEADER_SIZE .. End(s) - 1
    BY <1>1, <1>4, FirstAligned
  <2>2. x < o \/ x >= o + BlockSize(s, o)
    BY <1>1, <1>2, <1>3, <1>4
  <2> QED BY <2>1, <2>2 DEF Reshaped
<1> QED BY <1>3, <1>4, KeptWhere

(* The blocks are the whole file again.                                    *)
LEMMA ReshapedTiled ==
  ASSUME NEW s \in Stores, NEW S, Tiled(s, S), NEW o \in S, NEW n, NEW t, Reshaped(t, s, o, n)
  PROVE  Tiled(t, StartsAfter(s, S, o, n))
<1> DEFINE z == BlockSize(s, o)
           x == o + n
           T == StartsAfter(s, S, o, n)
           e == End(s)
<1>1. /\ o \in Int /\ z \in Nat /\ z >= 2 /\ z % 2 = 0 /\ Aligned(o) /\ DB_HEADER_SIZE <= o
      /\ o + z \in S \cup {e} /\ o + z <= e /\ o < e /\ e \in Int
  BY BlockFacts
<1>2. /\ n \in Nat /\ n >= 2 /\ n % 2 = 0 /\ n <= z /\ End(t) = e
      /\ DataLen(t, o) \in Nat /\ BlockSize(t, o) = n
      /\ n < z => DataLen(t, x) \in Nat /\ BlockSize(t, x) = z - n
  BY DEF Reshaped
<1>3. \A p \in S : p # o => /\ DataLen(t, p) = DataLen(s, p) /\ BlockSize(t, p) = BlockSize(s, p)
                            /\ p + BlockSize(s, p) <= o \/ p >= o + z
  BY OthersKept DEF Kept
<1>4. \A p \in S : /\ p \in Int /\ DB_HEADER_SIZE <= p /\ p < e /\ Aligned(p) /\ DataLen(s, p) \in Nat
                   /\ p + BlockSize(s, p) \in S \cup {e} /\ BlockSize(s, p) \in Nat /\ BlockSize(s, p) >= 2
  BY BlockFacts
<1>5. n < z => x \notin S /\ x \in Int /\ DB_HEADER_SIZE <= x /\ x < e /\ Aligned(x) /\ x + (z - n) = o + z
  <2> SUFFICES ASSUME n < z
               PROVE  x \notin S /\ x \in Int /\ DB_HEADER_SIZE <= x /\ x < e /\ Aligned(x) /\ x + (z - n) = o + z
    OBVIOUS
  <2>1. x \in Int /\ DB_HEADER_SIZE <= x /\ x < e /\ x + (z - n) = o + z /\ x # o
    BY <1>1, <1>2, FirstAligned
  <2>2. Aligned(x)
    <3>1. o \in Int /\ n \in Int /\ n % 2 = 0 /\ Aligned(o)
      BY <1>1, <1>2
    <3> QED BY <3>1, StaysAligned, Zenon
  <2>3. x \notin S
    <3> SUFFICES ASSUME x \in S PROVE FALSE
      OBVIOUS
    <3>1. x + BlockSize(s, x) <= o \/ x >= o + z
      BY <1>3, <2>1
    <3>2. BlockSize(s, x) \in Nat
      BY <1>4
    <3> QED BY <1>1, <1>2, <3>1, <3>2
  <2> QED BY <2>1, <2>2, <2>3
<1>6. T = IF n < z THEN S \cup {x} ELSE S
  BY DEF StartsAfter
<1>7. S \subseteq T /\ (n < z => x \in T) /\ \A p \in T : p \in S \/ (n < z /\ p = x)
  BY <1>6
<1>8. Len(t.file) = t.hdr.dataSize /\ Aligned(End(t)) /\ DB_HEADER_SIZE \in T \cup {End(t)}
  <2>1. End(t) = DB_HEADER_SIZE + Len(t.file) /\ Len(t.file) \in Nat
    BY DEF End, Reshaped, Stores
  <2>2. e = DB_HEADER_SIZE + Len(s.file) /\ Len(s.file) \in Nat /\ Len(s.file) = s.hdr.dataSize
    BY DEF End, Stores, Tiled
  <2>3. Len(t.file) = Len(s.file)
    <3>1. DB_HEADER_SIZE \in Nat /\ End(t) = e
      BY <1>2, FirstAligned
    <3>2. DB_HEADER_SIZE + Len(t.file) = DB_HEADER_SIZE + Len(s.file)
      BY <2>1, <2>2, <3>1
    <3> HIDE DEF e
    <3> QED BY <2>1, <2>2, <3>1, <3>2
  <2>4. Len(t.file) = t.hdr.dataSize
    BY <2>2, <2>3 DEF Reshaped
  <2> QED BY <1>2, <1>7, <2>4 DEF Tiled
<1> HIDE DEF z, x, T, e
<1>9. ASSUME NEW p \in T
      PROVE  /\ p \in Int /\ DB_HEADER_SIZE <= p /\ p < End(t) /\ Aligned(p)
             /\ DataLen(t, p) \in Nat
             /\ p + BlockSize(t, p) \in T \cup {End(t)}
  <2>1. CASE p = o
    <3>1. o + n \in T \cup {e}
      <4>1. CASE n < z
        BY <1>7, <4>1 DEF x
      <4>2. CASE ~ (n < z)
        <5>1. n = z
          BY <1>1, <1>2, <4>2
        <5> QED BY <1>1, <1>7, <5>1
      <4> QED BY <4>1, <4>2
    <3> QED BY <1>1, <1>2, <2>1, <3>1
  <2>2. CASE p \in S /\ p # o
    <3>1. /\ DataLen(t, p) = DataLen(s, p) /\ BlockSize(t, p) = BlockSize(s, p)
      BY <1>3, <2>2
    <3> QED BY <1>2, <1>4, <1>7, <2>2, <3>1
  <2>3. CASE n < z /\ p = x
    <3>1. BlockSize(t, p) = z - n /\ DataLen(t, p) \in Nat
      BY <1>2, <2>3
    <3>2. p + BlockSize(t, p) = o + z
      BY <1>5, <2>3, <3>1
    <3> QED BY <1>1, <1>2, <1>5, <1>7, <2>3, <3>1, <3>2
  <2> QED BY <1>7, <2>1, <2>2, <2>3
<1>10. ASSUME NEW p \in T, NEW q \in T, p < q
       PROVE  p + BlockSize(t, p) <= q
  <2>0. \A a \in S, b \in S : a < b => a + BlockSize(s, a) <= b
    BY DEF Tiled
  <2>1. CASE p = o /\ q \in S
    <3>1. o + z <= q /\ q \in Int
      BY <1>4, <1>10, <2>0, <2>1 DEF z
    <3> QED BY <1>1, <1>2, <2>1, <3>1
  <2>2. CASE p = o /\ n < z /\ q = x
    BY <1>1, <1>2, <2>2 DEF x
  <2>3. CASE p \in S /\ p # o /\ q \in S
    BY <1>3, <1>10, <2>0, <2>3
  <2>4. CASE p \in S /\ p # o /\ n < z /\ q = x
    <3>1. BlockSize(t, p) = BlockSize(s, p) /\ (p + BlockSize(s, p) <= o \/ p >= o + z) /\ p \in Int
      BY <1>3, <1>4, <2>4
    <3>2. ~ (p >= o + z)
      BY <1>1, <1>2, <1>10, <2>4, <3>1 DEF x
    <3>3. BlockSize(s, p) \in Nat
      BY <1>4, <2>4
    <3> QED BY <1>1, <1>2, <2>4, <3>1, <3>2, <3>3 DEF x
  <2>5. CASE n < z /\ p = x /\ q \in S
    <3>1. q \in Int /\ o < q
      BY <1>1, <1>2, <1>4, <1>10, <2>5 DEF x
    <3>2. o + z <= q
      BY <2>0, <2>5, <3>1 DEF z
    <3>3. p + BlockSize(t, p) = o + z
      BY <1>2, <1>5, <2>5
    <3> QED BY <3>2, <3>3
  <2>6. CASE p = x /\ q = x
    BY <1>1, <1>2, <1>10, <2>6 DEF x
  <2> QED BY <1>7, <2>1, <2>2, <2>3, <2>4, <2>5, <2>6
<1>11. Tiled(t, T)
  BY <1>8, <1>9, <1>10 DEF Tiled
<1> QED BY <1>11 DEF T

(* Ids are still where blocks start, if the block's own is no other's and  *)
(* none is inside it.                                                      *)
LEMMA ReshapedNamed ==
  ASSUME NEW s \in Stores, NEW S, Tiled(s, S), Named(s, S),
         NEW o \in S, NEW n, NEW t, Reshaped(t, s, o, n),
         BlockId(t, o) \in {FREE} \cup Ids,
         BlockId(t, o) = FREE \/ \A p \in S : p # o => BlockId(s, p) # BlockId(t, o),
         \A p \in Int : o < p /\ p < o + BlockSize(s, o) /\ Aligned(p) => BlockId(t, p) \notin Ids
  PROVE  Named(t, StartsAfter(s, S, o, n))
<1> DEFINE T == StartsAfter(s, S, o, n)
           x == o + n
           z == BlockSize(s, o)
<1>1. \A p \in T : p \in S \/ (n < z /\ p = x)
  BY DEF StartsAfter
<1>2. \A p \in S : p # o => BlockId(t, p) = BlockId(s, p)
  BY OthersKept DEF Kept
<1>3. n < z => BlockId(t, x) = FREE
  BY DEF Reshaped
<1>4. S \subseteq T
  BY DEF StartsAfter
<1> HIDE DEF T
<1>5. \A p \in T : BlockId(t, p) \in {FREE} \cup Ids
  BY <1>1, <1>2, <1>3 DEF Named
<1>6. ASSUME NEW p \in T, NEW q \in T, BlockId(t, p) = BlockId(t, q), BlockId(t, p) # FREE
      PROVE  p = q
  <2>1. p \in S /\ q \in S
    BY <1>1, <1>3, <1>6
  <2>2. CASE p = o \/ q = o
    BY <1>2, <1>6, <2>1, <2>2
  <2>3. CASE p # o /\ q # o
    BY <1>2, <1>6, <2>1, <2>3 DEF Named
  <2> QED BY <2>2, <2>3
<1>7. ASSUME NEW p \in DB_HEADER_SIZE .. End(t) - 1, Aligned(p), BlockId(t, p) \in Ids
      PROVE  p \in T
  <2>1. End(t) = End(s) /\ End(s) \in Int /\ DB_HEADER_SIZE \in Int
    <3>1. End(s) \in Int
      BY SizeOfFile
    <3> QED BY <3>1, FirstAligned DEF Reshaped
  <2>2. p \in Int /\ o \in Int /\ z \in Nat /\ p \in DB_HEADER_SIZE .. End(s) - 1
    BY <2>1, BlockFacts
  <2>3. CASE p = o
    BY <1>4, <2>3
  <2>4. CASE o < p /\ p < o + z
    BY <1>7, <2>2, <2>4
  <2>5. CASE p < o \/ p >= o + z
    <3>1. Word(t, p) = Word(s, p)
      BY <2>2, <2>5 DEF Reshaped
    <3>2. BlockId(s, p) \in Ids
      BY <1>7, <3>1 DEF BlockId
    <3> QED BY <1>4, <1>7, <2>2, <3>2 DEF Named
  <2> QED BY <2>2, <2>3, <2>4, <2>5
<1>8. Named(t, T)
  BY <1>5, <1>6, <1>7 DEF Named
<1> QED BY <1>8 DEF T

(* What is free then was free before, or is what is left over, or is the   *)
(* block.                                                                  *)
LEMMA ReshapedFree ==
  ASSUME NEW s \in Stores, NEW S, Tiled(s, S), NEW o \in S, NEW n, NEW t, Reshaped(t, s, o, n),
         NEW a \in Int, a = IF BlockId(t, o) = FREE THEN o ELSE o + n
  PROVE  FreeIn(t, StartsAfter(s, S, o, n)) \subseteq FreeIn(s, S) \cup (a .. o + BlockSize(s, o) - 1)
<1> DEFINE T == StartsAfter(s, S, o, n)
           x == o + n
           z == BlockSize(s, o)
<1>1. \A p \in T : p \in S \/ (n < z /\ p = x)
  BY DEF StartsAfter
<1>2. \A p \in S : p # o => BlockId(t, p) = BlockId(s, p) /\ BlockSize(t, p) = BlockSize(s, p)
  BY OthersKept DEF Kept
<1>3. /\ n < z => BlockId(t, x) = FREE /\ BlockSize(t, x) = z - n
      /\ BlockSize(t, o) = n /\ n \in Nat /\ n <= z
  BY DEF Reshaped
<1>4. o \in Int /\ z \in Nat
  BY BlockFacts
<1> HIDE DEF T, z
<1>5. ASSUME NEW w \in FreeIn(t, T)
      PROVE  w \in FreeIn(s, S) \cup (a .. o + z - 1)
  <2>1. PICK p \in T : w \in Int /\ BlockId(t, p) = FREE /\ p <= w /\ w < p + BlockSize(t, p)
    BY DEF FreeIn
  <2>2. CASE p \in S /\ p # o
    BY <1>2, <2>1, <2>2 DEF FreeIn
  <2>3. CASE p = o
    <3>1. a = o
      BY <2>1, <2>3
    <3> QED BY <1>3, <1>4, <2>1, <2>3, <3>1
  <2>4. CASE n < z /\ p = x
    <3>1. x + (z - n) = o + z
      BY <1>3, <1>4
    <3>2. a <= x /\ x \in Int
      BY <1>3, <1>4
    <3> HIDE DEF x
    <3> QED BY <1>3, <1>4, <2>1, <2>4, <3>1, <3>2
  <2> QED BY <1>1, <2>2, <2>3, <2>4
<1> QED BY <1>5 DEF T, z

(* So at most that many words more are free.                               *)
LEMMA MoreFree ==
  ASSUME NEW s \in Stores, NEW S, Tiled(s, S), Named(s, S),
         NEW t \in Stores, NEW T, Tiled(t, T), Named(t, T),
         NEW a \in Int, NEW b \in Int, a <= b,
         FreeIn(t, T) \subseteq FreeIn(s, S) \cup (a .. b - 1)
  PROVE  Cardinality(Free(t)) <= Cardinality(Free(s)) + (b - a)
<1> DEFINE F == Free(s)
           G == Free(t)
           I == a .. b - 1
<1>1. IsFiniteSet(F) /\ Cardinality(F) \in Nat /\ IsFiniteSet(G) /\ Cardinality(G) \in Nat /\ G \subseteq F \cup I
  BY FreeAre
<1>2. IsFiniteSet(I) /\ Cardinality(I) = b - a
  <2>1. b - 1 \in Int /\ (a > b - 1 => b - a = 0) /\ b - 1 - a + 1 = b - a
    OBVIOUS
  <2>2. IsFiniteSet(a .. b - 1) /\ Cardinality(a .. b - 1) = IF a > b - 1 THEN 0 ELSE b - 1 - a + 1
    BY <2>1, FS_Interval
  <2> QED BY <2>1, <2>2
<1> HIDE DEF F, G, I
<1>3. IsFiniteSet(F \cup I) /\ Cardinality(F \cup I) = Cardinality(F) + Cardinality(I) - Cardinality(F \cap I)
  BY <1>1, <1>2, FS_Union
<1>4. IsFiniteSet(F \cap I) /\ Cardinality(F \cap I) \in Nat
  BY <1>1, FS_Intersection, FS_CardinalityType
<1>5. Cardinality(G) <= Cardinality(F \cup I)
  BY <1>1, <1>3, FS_Subset
<1>6. Cardinality(F \cup I) <= Cardinality(F) + (b - a) /\ Cardinality(F \cup I) \in Int
  BY <1>1, <1>2, <1>3, <1>4
<1>7. Cardinality(G) <= Cardinality(F) + (b - a)
  BY <1>1, <1>5, <1>6
<1> QED BY <1>7 DEF F, G

Without(R, id) == [i \in DOMAIN R \ {id} |-> R[i]]
With(R, id, data) == [i \in DOMAIN R \cup {id} |-> IF i = id THEN data ELSE R[i]]

(* Blocks that are kept keep their records.                                *)
LEMMA KeptData ==
  ASSUME NEW s \in Stores, NEW S, Tiled(s, S), NEW t \in Stores, NEW T, Tiled(t, T),
         NEW p \in S, p \in T, Kept(t, s, p)
  PROVE  BlockId(t, p) = BlockId(s, p) /\ BlockData(t, p) = BlockData(s, p)
BY SameData DEF Kept

(* The record of a block that is freed is gone, and the others are there.  *)
LEMMA RecordGone ==
  ASSUME NEW s \in Stores, NEW S, Tiled(s, S), Named(s, S),
         NEW t \in Stores, NEW T, Tiled(t, T), Named(t, T),
         NEW o \in Taken(s, S), Taken(t, T) = Taken(s, S) \ {o},
         \A p \in Taken(t, T) : Kept(t, s, p)
  PROVE  RecordsIn(t) = Without(RecordsIn(s), BlockId(s, o))
<1> DEFINE R == RecordsIn(s)
           Q == RecordsIn(t)
           id == BlockId(s, o)
<1>1. Holds(s, S, R) /\ Holds(t, T, Q)
  BY RecordsAre
<1> HIDE DEF R, Q
<1>2. \A p \in Taken(t, T) : /\ BlockId(t, p) = BlockId(s, p) /\ BlockData(t, p) = BlockData(s, p)
                             /\ p \in Taken(s, S) /\ BlockId(s, p) # id
  <2> SUFFICES ASSUME NEW p \in Taken(t, T)
               PROVE  /\ BlockId(t, p) = BlockId(s, p) /\ BlockData(t, p) = BlockData(s, p)
                      /\ p \in Taken(s, S) /\ BlockId(s, p) # id
    OBVIOUS
  <2>1. p \in S /\ p \in T /\ Kept(t, s, p) /\ p \in Taken(s, S) /\ p # o /\ o \in S
    BY DEF Taken
  <2>2. BlockId(t, p) = BlockId(s, p) /\ BlockData(t, p) = BlockData(s, p)
    BY <2>1, KeptData
  <2>3. BlockId(s, p) # id
    BY <2>1 DEF Named, Taken
  <2> QED BY <2>1, <2>2, <2>3
<1>3. DOMAIN Q = DOMAIN R \ {id}
  <2>1. DOMAIN Q = {BlockId(t, p) : p \in Taken(t, T)} /\ DOMAIN R = {BlockId(s, p) : p \in Taken(s, S)}
    BY <1>1 DEF Holds
  <2>2. ASSUME NEW i \in DOMAIN Q
        PROVE  i \in DOMAIN R \ {id}
    <3>1. PICK p \in Taken(t, T) : i = BlockId(t, p)
      BY <2>1
    <3> QED BY <1>2, <2>1, <3>1
  <2>3. ASSUME NEW i \in DOMAIN R \ {id}
        PROVE  i \in DOMAIN Q
    <3>1. PICK p \in Taken(s, S) : i = BlockId(s, p)
      BY <2>1
    <3>2. p \in Taken(t, T)
      BY <3>1
    <3> QED BY <1>2, <2>1, <3>1, <3>2
  <2> QED BY <2>2, <2>3
<1>4. ASSUME NEW i \in DOMAIN Q
      PROVE  Q[i] = R[i]
  <2>1. PICK p \in Taken(t, T) : i = BlockId(t, p)
    BY <1>1 DEF Holds
  <2>2. Q[BlockId(t, p)] = BlockData(t, p) /\ R[BlockId(s, p)] = BlockData(s, p)
    BY <1>1, <1>2 DEF Holds
  <2> QED BY <1>2, <2>1, <2>2
<1>5. Q = [i \in DOMAIN Q |-> Q[i]]
  BY <1>1 DEF Holds
<1>6. Q = [i \in DOMAIN R \ {id} |-> R[i]]
  BY <1>3, <1>4, <1>5
<1> QED BY <1>6 DEF Without, R, Q

(* A block that is given to a record holds it; the other records are       *)
(* there.                                                                  *)
LEMMA RecordPut ==
  ASSUME NEW s \in Stores, NEW S, Tiled(s, S), Named(s, S),
         NEW t \in Stores, NEW T, Tiled(t, T), Named(t, T),
         NEW o, Taken(t, T) = Taken(s, S) \cup {o},
         o \in Taken(s, S) => BlockId(s, o) = BlockId(t, o),
         \A p \in Taken(s, S) : p # o => Kept(t, s, p)
  PROVE  RecordsIn(t) = With(RecordsIn(s), BlockId(t, o), BlockData(t, o))
<1> DEFINE R == RecordsIn(s)
           Q == RecordsIn(t)
           id == BlockId(t, o)
           data == BlockData(t, o)
<1>1. Holds(s, S, R) /\ Holds(t, T, Q)
  BY RecordsAre
<1> HIDE DEF R, Q
<1>2. \A p \in Taken(s, S) : p # o => /\ BlockId(t, p) = BlockId(s, p) /\ BlockData(t, p) = BlockData(s, p)
                                      /\ p \in Taken(t, T) /\ BlockId(t, p) # id
  <2> SUFFICES ASSUME NEW p \in Taken(s, S), p # o
               PROVE  /\ BlockId(t, p) = BlockId(s, p) /\ BlockData(t, p) = BlockData(s, p)
                      /\ p \in Taken(t, T) /\ BlockId(t, p) # id
    OBVIOUS
  <2>1. p \in S /\ p \in T /\ Kept(t, s, p) /\ p \in Taken(t, T) /\ o \in Taken(t, T) /\ o \in T
    BY DEF Taken
  <2>2. BlockId(t, p) = BlockId(s, p) /\ BlockData(t, p) = BlockData(s, p)
    BY <2>1, KeptData
  <2>3. BlockId(t, p) # id
    BY <2>1 DEF Named, Taken
  <2> QED BY <2>1, <2>2, <2>3
<1>3. DOMAIN Q = DOMAIN R \cup {id}
  <2>1. DOMAIN Q = {BlockId(t, p) : p \in Taken(t, T)} /\ DOMAIN R = {BlockId(s, p) : p \in Taken(s, S)}
    BY <1>1 DEF Holds
  <2>2. ASSUME NEW i \in DOMAIN Q
        PROVE  i \in DOMAIN R \cup {id}
    <3>1. PICK p \in Taken(t, T) : i = BlockId(t, p)
      BY <2>1
    <3> QED BY <1>2, <2>1, <3>1
  <2>3. ASSUME NEW i \in DOMAIN R
        PROVE  i \in DOMAIN Q
    <3>1. PICK p \in Taken(s, S) : i = BlockId(s, p)
      BY <2>1
    <3>2. CASE p = o
      BY <2>1, <3>1, <3>2
    <3>3. CASE p # o
      BY <1>2, <2>1, <3>1, <3>3
    <3> QED BY <3>2, <3>3
  <2>4. id \in DOMAIN Q
    BY <2>1
  <2> QED BY <2>2, <2>3, <2>4
<1>4. ASSUME NEW i \in DOMAIN Q
      PROVE  Q[i] = IF i = id THEN data ELSE R[i]
  <2>1. PICK p \in Taken(t, T) : i = BlockId(t, p)
    BY <1>1 DEF Holds
  <2>2. Q[BlockId(t, p)] = BlockData(t, p)
    BY <1>1 DEF Holds
  <2>3. CASE p = o
    BY <2>1, <2>2, <2>3
  <2>4. CASE p # o
    <3>1. p \in Taken(s, S) /\ R[BlockId(s, p)] = BlockData(s, p)
      BY <1>1, <2>4 DEF Holds
    <3> QED BY <1>2, <2>1, <2>2, <2>4, <3>1
  <2> QED BY <2>3, <2>4
<1>5. Q = [i \in DOMAIN Q |-> Q[i]]
  BY <1>1 DEF Holds
<1>6. Q = [i \in DOMAIN R \cup {id} |-> IF i = id THEN data ELSE R[i]]
  BY <1>3, <1>4, <1>5
<1> QED BY <1>6 DEF With, R, Q

(* The index knows the block of a record that was put somewhere.           *)
LEMMA IndexKnows ==
  ASSUME NEW s \in Stores, NEW S, Named(s, S), Indexed(s, S),
         NEW t \in Stores, NEW T, Tiled(t, T), Named(t, T), NEW o \in T, S \subseteq T,
         Taken(t, T) \subseteq Taken(s, S) \cup {o},
         \A p \in Taken(s, S) : p # o => BlockId(t, p) = BlockId(s, p),
         t.lastSeen = s.lastSeen,
         t.offsets = IF s.offsets = Null \/ BlockId(t, o) = FREE
                     THEN s.offsets ELSE [s.offsets EXCEPT ![BlockId(t, o)] = o]
  PROVE  Indexed(t, T)
<1> DEFINE id == BlockId(t, o)
<1>1. o \in Int /\ DB_HEADER_SIZE <= o /\ Aligned(o)
  BY BlockFacts
<1>2. t.lastSeen \in {NO_OFFSET} \cup T
  BY DEF Indexed
<1>3. CASE s.offsets = Null
  BY <1>2, <1>3 DEF Indexed
<1>4. CASE s.offsets # Null /\ id = FREE
  <2>1. ASSUME NEW p \in T, BlockId(t, p) # FREE
        PROVE  t.offsets[BlockId(t, p)] \in {p, INVALID_OFFSET}
    <3>1. p # o /\ p \in Taken(s, S) /\ BlockId(t, p) = BlockId(s, p)
      BY <1>4, <2>1 DEF Taken
    <3> QED BY <1>4, <3>1 DEF Indexed, Taken
  <2> QED BY <1>2, <1>4, <2>1 DEF Indexed
<1>5. CASE s.offsets # Null /\ id # FREE
  <2>1. id \in Ids /\ s.offsets \in [Ids -> Int] /\ t.offsets = [s.offsets EXCEPT ![id] = o]
    BY <1>5 DEF Named, Stores
  <2>2. \A i \in Ids : t.offsets[i] = IF i = id THEN o ELSE s.offsets[i]
    BY <1>1, <2>1
  <2>3. \A i \in Ids : \/ t.offsets[i] = INVALID_OFFSET
                       \/ DB_HEADER_SIZE <= t.offsets[i] /\ Aligned(t.offsets[i])
    BY <1>1, <1>5, <2>2 DEF Indexed
  <2>4. ASSUME NEW p \in T, BlockId(t, p) # FREE
        PROVE  t.offsets[BlockId(t, p)] \in {p, INVALID_OFFSET}
    <3>1. BlockId(t, p) \in Ids
      BY <2>4 DEF Named
    <3>2. CASE p = o
      BY <2>2, <3>1, <3>2
    <3>3. CASE p # o
      <4>1. p \in Taken(s, S) /\ BlockId(t, p) = BlockId(s, p) /\ BlockId(t, p) # id
        BY <2>4, <3>3 DEF Taken, Named
      <4> QED BY <1>5, <2>2, <3>1, <4>1 DEF Indexed, Taken
    <3> QED BY <3>2, <3>3
  <2> QED BY <1>2, <2>3, <2>4 DEF Indexed
<1> QED BY <1>3, <1>4, <1>5

-----------------------------------------------------------------------------
(* The methods that free a block and that write a record into one.         *)

(* t is s after the block at o, with room for len words, was made free.    *)
IsFreed(t, s, o, len) ==
  /\ t \in Stores
  /\ t.hdr = [s.hdr EXCEPT !.freeSize = s.hdr.freeSize + CalculateBlockSize(len)]
  /\ s.saved = s.hdr => t.saved = t.hdr
  /\ t.offsets = s.offsets /\ t.lastSeen = s.lastSeen
  /\ End(t) = IF o + 2 > End(s) THEN o + 2 ELSE End(s)
  /\ Word(t, o) = FREE /\ Word(t, o + 1) = CalculateBlockSize(len) - 2
  /\ \A p \in DB_HEADER_SIZE .. End(t) - 1 : p < o \/ p >= o + 2 => Word(t, p) = Word(s, p)

(* FreeBlock does that, in the file and in its header.                     *)
LEMMA FreeBlockWrites ==
  ASSUME NEW s \in Stores, NEW o \in DB_HEADER_SIZE .. End(s), NEW len \in Nat
  PROVE  IsFreed(FreeBlock(s, o, len), s, o, len)
<1> DEFINE n == CalculateBlockSize(len)
           w == WriteBlock(s, o, FREE, n - 2, << >>)
           free == s.hdr.freeSize + n
           t == [w EXCEPT !.hdr.freeSize = free, !.saved.freeSize = free]
<1>1. FreeBlock(s, o, len) = t
  BY DEF FreeBlock, BLOCK_HEADER_SIZE
<1>2. n \in Nat
  BY SizeIs
<1>3. Len(<< >>) = 0 /\ CalculateBlockSize(0) = 2 /\ << >> \in Seq(Int)
  BY DEF CalculateBlockSize, BLOCK_HEADER_SIZE
<1> HIDE DEF n
<1>4. Wrote(w, s, o, FREE, n - 2, << >>)
  <2>1. n - 2 \in Int /\ FREE \in {FREE} \cup Ids
    BY <1>2
  <2> QED BY <1>3, <2>1, WriteBlockWrites
<1> HIDE DEF w
<1>5. /\ w \in Stores /\ w.hdr = s.hdr /\ w.saved = s.saved /\ w.lastSeen = s.lastSeen
      /\ w.offsets = s.offsets
      /\ End(w) = IF o + 2 > End(s) THEN o + 2 ELSE End(s)
      /\ Word(w, o) = FREE /\ Word(w, o + 1) = n - 2
      /\ \A p \in DB_HEADER_SIZE .. End(w) - 1 : p < o \/ p >= o + 2 => Word(w, p) = Word(s, p)
  BY <1>3, <1>4 DEF Wrote
<1>6. free \in Int
  BY <1>2 DEF Stores, Headers
<1> HIDE DEF free
<1>7. /\ t \in Stores /\ t.file = w.file /\ t.offsets = w.offsets /\ t.lastSeen = w.lastSeen
      /\ t.hdr = [w.hdr EXCEPT !.freeSize = free] /\ t.saved = [w.saved EXCEPT !.freeSize = free]
  BY <1>5, <1>6 DEF Stores, Headers
<1> HIDE DEF t
<1>8. End(t) = End(w) /\ \A p : Word(t, p) = Word(w, p)
  BY <1>7 DEF End, Word
<1> QED BY <1>1, <1>5, <1>7, <1>8 DEF IsFreed, free, n

(* A store between two methods keeps its blocks, whatever they are called. *)
LEMMA WholeIs ==
  ASSUME NEW s
  PROVE  /\ Whole(s) => /\ Good(s, Starts(s)) /\ Tiled(s, Starts(s)) /\ Named(s, Starts(s))
                        /\ s \in Stores /\ s.hdr.freeSize \in Int /\ s.hdr \in Headers
                        /\ s.hdr.freeSize >= Cardinality(Free(s)) /\ Cardinality(Free(s)) \in Nat
         /\ \A S : Good(s, S) /\ s.hdr.freeSize >= Cardinality(Free(s)) => Whole(s)
<1>1. ASSUME Whole(s)
      PROVE  /\ Good(s, Starts(s)) /\ Tiled(s, Starts(s)) /\ Named(s, Starts(s))
             /\ s \in Stores /\ s.hdr.freeSize \in Int /\ s.hdr \in Headers
             /\ s.hdr.freeSize >= Cardinality(Free(s)) /\ Cardinality(Free(s)) \in Nat
  <2>1. /\ Good(s, Starts(s)) /\ Tiled(s, Starts(s)) /\ Named(s, Starts(s)) /\ s \in Stores
        /\ s.hdr.freeSize >= Cardinality(Free(s))
    BY <1>1 DEF Whole, Good
  <2>2. s.hdr.freeSize \in Int /\ s.hdr \in Headers
    BY <2>1 DEF Stores, Headers
  <2>3. Cardinality(Free(s)) \in Nat
    BY <2>1, FreeAre
  <2> QED BY <2>1, <2>2, <2>3
<1>2. ASSUME NEW S, Good(s, S), s.hdr.freeSize >= Cardinality(Free(s))
      PROVE  Whole(s)
  <2>1. s \in Stores /\ Tiled(s, S)
    BY <1>2 DEF Good
  <2>2. Starts(s) = S
    BY <2>1, StartsAre
  <2> QED BY <1>2, <2>2 DEF Whole
<1> QED BY <1>1, <1>2

(* t is the store s without a record, and with it.                         *)
Drops(t, s, id) ==
  /\ Whole(t) /\ t.hdr.nextId = s.hdr.nextId /\ t.hdr.numLive = s.hdr.numLive
  /\ RecordsIn(t) = Without(RecordsIn(s), id)

Puts(t, s, id, data) ==
  /\ Whole(t) /\ t.hdr.nextId = s.hdr.nextId /\ t.hdr.numLive = s.hdr.numLive
  /\ RecordsIn(t) = With(RecordsIn(s), id, data)

(* No word inside a block that could be a header is a record's id.         *)
LEMMA NoneInside ==
  ASSUME NEW s \in Stores, NEW S, Tiled(s, S), Named(s, S), NEW o \in S,
         NEW p \in Int, o < p, p < o + BlockSize(s, o), Aligned(p)
  PROVE  BlockId(s, p) \notin Ids /\ p \in DB_HEADER_SIZE .. End(s) - 1 /\ p >= o + 2
<1>1. /\ o \in Int /\ DB_HEADER_SIZE <= o /\ o + BlockSize(s, o) <= End(s) /\ End(s) \in Int
      /\ BlockSize(s, o) \in Int /\ Aligned(o)
  BY BlockFacts
<1>2. p \in DB_HEADER_SIZE .. End(s) - 1
  BY <1>1, FirstAligned
<1>3. p >= o + 2
  BY <1>1, RoomBetween
<1>4. p \notin S
  <2>1. p \in S => o + BlockSize(s, o) <= p
    BY DEF Tiled
  <2> QED BY <1>1, <2>1
<1> QED BY <1>2, <1>3, <1>4 DEF Named

(* Freeing the block of a record drops the record, and nothing else.       *)
LEMMA FreeBlockDrops ==
  ASSUME NEW s, Whole(s), NEW o \in Taken(s, Starts(s))
  PROVE  /\ Drops(FreeBlock(s, o, DataLen(s, o)), s, BlockId(s, o))
         /\ FreeBlock(s, o, DataLen(s, o)).offsets = s.offsets
<1> DEFINE S == Starts(s)
           n == BlockSize(s, o)
           t == FreeBlock(s, o, DataLen(s, o))
<1>1. /\ s \in Stores /\ Tiled(s, S) /\ Named(s, S) /\ Indexed(s, S) /\ s.saved = s.hdr
      /\ s.hdr.freeSize \in Int /\ s.hdr \in Headers
      /\ s.hdr.freeSize >= Cardinality(Free(s)) /\ Cardinality(Free(s)) \in Nat
  BY WholeIs DEF Good
<1>2. o \in S /\ BlockId(s, o) # FREE
  BY DEF Taken
<1> HIDE DEF S, t
<1>3. /\ o \in Int /\ DB_HEADER_SIZE <= o /\ Aligned(o) /\ DataLen(s, o) \in Nat
      /\ n \in Nat /\ n >= 2 /\ n % 2 = 0 /\ o + n <= End(s) /\ End(s) \in Int
  BY <1>1, <1>2, BlockFacts
<1>4. n = CalculateBlockSize(DataLen(s, o))
  BY DEF BlockSize
<1> HIDE DEF n
<1>5. IsFreed(t, s, o, DataLen(s, o))
  <2>1. o \in DB_HEADER_SIZE .. End(s)
    BY <1>3, FirstAligned
  <2> QED BY <1>1, <1>3, <2>1, FreeBlockWrites DEF t
<1>6. /\ t \in Stores /\ t.hdr = [s.hdr EXCEPT !.freeSize = s.hdr.freeSize + n]
      /\ t.saved = t.hdr /\ t.offsets = s.offsets /\ t.lastSeen = s.lastSeen
      /\ BlockId(t, o) = FREE /\ DataLen(t, o) = n - 2
      /\ \A p \in DB_HEADER_SIZE .. End(t) - 1 : p < o \/ p >= o + 2 => Word(t, p) = Word(s, p)
  BY <1>1, <1>4, <1>5 DEF IsFreed, BlockId, DataLen
<1>7. End(t) = End(s)
  BY <1>3, <1>5 DEF IsFreed
<1>8. /\ t.hdr.dataSize = s.hdr.dataSize /\ t.hdr.nextId = s.hdr.nextId
      /\ t.hdr.numLive = s.hdr.numLive /\ t.hdr.freeSize = s.hdr.freeSize + n
  BY <1>1, <1>6 DEF Headers
<1>9. BlockSize(t, o) = n /\ n - 2 \in Nat
  <2> DEFINE m == n - 2
  <2>1. m \in Nat /\ m % 2 = 0 /\ m + 2 = n
    BY <1>3
  <2> HIDE DEF m
  <2>2. CalculateBlockSize(m) = n
    BY <2>1, SizeIs
  <2> QED BY <1>6, <2>1, <2>2 DEF BlockSize, m
<1>10. Reshaped(t, s, o, n)
  <2>1. \A p \in DB_HEADER_SIZE .. End(s) - 1 : p < o \/ p >= o + n => Word(t, p) = Word(s, p)
    BY <1>3, <1>6, <1>7, FirstAligned
  <2> QED BY <1>3, <1>6, <1>7, <1>8, <1>9, <2>1 DEF Reshaped, n
<1>11. StartsAfter(s, S, o, n) = S
  BY <1>3 DEF StartsAfter, n
<1>12. Tiled(t, S)
  BY <1>1, <1>2, <1>10, <1>11, ReshapedTiled
<1>13. Named(t, S)
  <2>1. ASSUME NEW p \in Int, o < p, p < o + BlockSize(s, o), Aligned(p)
        PROVE  BlockId(t, p) \notin Ids
    <3>1. BlockId(s, p) \notin Ids /\ p \in DB_HEADER_SIZE .. End(s) - 1 /\ p >= o + 2
      BY <1>1, <1>2, <2>1, NoneInside
    <3> QED BY <1>6, <1>7, <3>1 DEF BlockId
  <2> QED BY <1>1, <1>2, <1>6, <1>10, <1>11, <2>1, ReshapedNamed
<1>14. \A p \in S : p # o => Kept(t, s, p)
  BY <1>1, <1>2, <1>10, OthersKept
<1>15. Taken(t, S) = Taken(s, S) \ {o}
  BY <1>6, <1>14 DEF Taken, Kept
<1>16. RecordsIn(t) = Without(RecordsIn(s), BlockId(s, o))
  <2>1. o \in Taken(s, S) /\ \A p \in Taken(t, S) : Kept(t, s, p)
    BY <1>2, <1>14, <1>15 DEF Taken
  <2> QED BY <1>1, <1>6, <1>12, <1>13, <1>15, <2>1, RecordGone
<1>17. Indexed(t, S)
  <2>1. \A p \in S : BlockId(t, p) # FREE => BlockId(t, p) = BlockId(s, p)
    BY <1>6, <1>14 DEF Kept
  <2> QED BY <1>1, <1>6, <2>1 DEF Indexed
<1>18. Cardinality(Free(t)) <= Cardinality(Free(s)) + n
  <2> DEFINE b == o + n
  <2>1. FreeIn(t, S) \subseteq FreeIn(s, S) \cup (o .. b - 1)
    BY <1>1, <1>2, <1>3, <1>6, <1>10, <1>11, ReshapedFree DEF n
  <2>2. b \in Int /\ o <= b /\ b - o = n
    BY <1>3
  <2> HIDE DEF b
  <2>3. Cardinality(Free(t)) <= Cardinality(Free(s)) + (b - o)
    BY <1>1, <1>3, <1>6, <1>12, <1>13, <2>1, <2>2, MoreFree
  <2> QED BY <2>2, <2>3
<1>19. Whole(t)
  <2>1. Good(t, S)
    BY <1>6, <1>12, <1>13, <1>17 DEF Good
  <2>2. Cardinality(Free(t)) \in Nat
    BY <1>6, <1>12, <1>13, FreeAre
  <2>3. t.hdr.freeSize >= Cardinality(Free(t))
    BY <1>1, <1>3, <1>8, <1>18, <2>2
  <2> QED BY <2>1, <2>3, WholeIs
<1> QED BY <1>6, <1>8, <1>16, <1>19 DEF Drops, t

(* t is s after data was written under id in the block at o, and what the  *)
(* block has left was made free.                                           *)
IsSplit(t, s, o, id, data) ==
  LET n == CalculateBlockSize(Len(data))
      z == BlockSize(s, o)
  IN  /\ t \in Stores /\ End(t) = End(s)
      /\ t.hdr = [s.hdr EXCEPT !.freeSize = s.hdr.freeSize + (z - n)] /\ t.saved = t.hdr
      /\ t.lastSeen = s.lastSeen
      /\ t.offsets = IF s.offsets = Null THEN s.offsets ELSE [s.offsets EXCEPT ![id] = o]
      /\ Word(t, o) = id /\ Word(t, o + 1) = Len(data)
      /\ \A i \in 1 .. Len(data) : Word(t, o + 1 + i) = data[i]
      /\ n < z => Word(t, o + n) = FREE /\ Word(t, o + n + 1) = (z - n) - 2
      /\ \A p \in DB_HEADER_SIZE .. End(s) - 1 :
           p < o \/ p >= o + n + 2 \/ p >= o + z => Word(t, p) = Word(s, p)

(* SplitBlock does that when the data fits.                                *)
LEMMA SplitBlockWrites ==
  ASSUME NEW s \in Stores, NEW S, Tiled(s, S), s.saved = s.hdr,
         NEW o \in S, NEW id \in Ids, NEW data \in Seq(Int),
         CalculateBlockSize(Len(data)) <= BlockSize(s, o)
  PROVE  IsSplit(SplitBlock(s, o, id, DataLen(s, o), data), s, o, id, data)
<1> DEFINE n == CalculateBlockSize(Len(data))
           z == BlockSize(s, o)
           w == WriteBlock(s, o, id, Len(data), data)
           t == SplitBlock(s, o, id, DataLen(s, o), data)
<1>1. /\ o \in Int /\ DB_HEADER_SIZE <= o /\ z \in Nat /\ z % 2 = 0 /\ o + z <= End(s)
      /\ End(s) \in Int /\ z = CalculateBlockSize(DataLen(s, o))
  BY BlockFacts DEF BlockSize
<1>2. n \in Nat /\ n % 2 = 0 /\ n >= Len(data) + 2 /\ n >= 2 /\ Len(data) \in Nat /\ n <= z
  <2>1. Len(data) \in Nat
    OBVIOUS
  <2>2. n \in Nat /\ n % 2 = 0 /\ n >= Len(data) + 2
    BY <2>1, SizeIs
  <2> QED BY <2>1, <2>2
<1>3. t = IF z - n - 2 >= 0 THEN FreeBlock(w, o + n, z - n - 2) ELSE w
  <2>1. BLOCK_HEADER_SIZE = 2
    BY DEF BLOCK_HEADER_SIZE
  <2> QED BY <1>1, <2>1 DEF SplitBlock
<1>4. Wrote(w, s, o, id, Len(data), data)
  <2>1. o \in DB_HEADER_SIZE .. End(s) /\ id \in {FREE} \cup Ids /\ Len(data) \in Int
    BY <1>1, <1>2, FirstAligned
  <2> QED BY <2>1, WriteBlockWrites
<1>5. id # FREE
  BY IdsAre
<1> HIDE DEF n, z, w, t
<1>6. /\ w \in Stores /\ w.hdr = s.hdr /\ w.saved = s.hdr /\ w.lastSeen = s.lastSeen
      /\ w.offsets = IF s.offsets = Null THEN s.offsets ELSE [s.offsets EXCEPT ![id] = o]
      /\ Word(w, o) = id /\ Word(w, o + 1) = Len(data)
      /\ \A i \in 1 .. Len(data) : Word(w, o + 1 + i) = data[i]
      /\ \A p \in DB_HEADER_SIZE .. End(w) - 1 : p < o \/ p >= o + n => Word(w, p) = Word(s, p)
  BY <1>4, <1>5 DEF Wrote, n
<1>7. End(w) = End(s)
  <2>1. End(w) = IF o + n > End(s) THEN o + n ELSE End(s)
    BY <1>4 DEF Wrote, n
  <2> QED BY <1>1, <1>2, <2>1
<1>8. s.hdr.freeSize \in Int /\ s.hdr \in Headers
  BY DEF Stores, Headers
<1>9. CASE n < z
  <2> DEFINE m == z - n - 2
             p0 == o + n
  <2>1. m \in Nat /\ m % 2 = 0 /\ m + 2 = z - n /\ p0 \in DB_HEADER_SIZE .. End(s) /\ p0 + 2 <= End(s)
        /\ p0 \in Int
    <3>1. (z - n) % 2 = 0 /\ z - n \in Nat /\ z - n >= 2
      <4>1. z \in Nat /\ n \in Nat /\ z % 2 = 0 /\ n % 2 = 0 /\ n < z
        BY <1>1, <1>2, <1>9
      <4> QED BY <4>1
    <3>2. m \in Nat /\ m % 2 = 0 /\ m + 2 = z - n
      BY <1>1, <1>2, <3>1
    <3>3. p0 \in Int /\ p0 + 2 <= End(s) /\ DB_HEADER_SIZE <= p0
      BY <1>1, <1>2, <3>1, FirstAligned
    <3> HIDE DEF m, p0
    <3> QED BY <1>1, <3>2, <3>3, FirstAligned
  <2>2. CalculateBlockSize(m) = z - n
    <3> HIDE DEF m
    <3> QED BY <2>1, SizeIs
  <2>3. t = FreeBlock(w, p0, m)
    BY <1>3, <2>1
  <2> HIDE DEF m, p0
  <2>4. IsFreed(t, w, p0, m)
    BY <1>6, <1>7, <2>1, <2>3, FreeBlockWrites
  <2>5. /\ t \in Stores /\ t.hdr = [s.hdr EXCEPT !.freeSize = s.hdr.freeSize + (z - n)]
        /\ t.saved = t.hdr /\ t.offsets = w.offsets /\ t.lastSeen = s.lastSeen
        /\ Word(t, p0) = FREE /\ Word(t, p0 + 1) = (z - n) - 2
        /\ \A p \in DB_HEADER_SIZE .. End(t) - 1 : p < p0 \/ p >= p0 + 2 => Word(t, p) = Word(w, p)
    BY <1>6, <2>2, <2>4 DEF IsFreed
  <2>6. End(t) = End(s)
    BY <1>1, <1>7, <2>1, <2>4 DEF IsFreed
  <2>7. \A p \in DB_HEADER_SIZE .. End(s) - 1 : p < p0 \/ p >= p0 + 2 => Word(t, p) = Word(w, p)
    BY <2>5, <2>6
  <2>8. Word(t, o) = id /\ Word(t, o + 1) = Len(data)
    <3>1. o \in DB_HEADER_SIZE .. End(s) - 1 /\ o + 1 \in DB_HEADER_SIZE .. End(s) - 1
          /\ o < p0 /\ o + 1 < p0
      BY <1>1, <1>2, FirstAligned DEF p0
    <3> QED BY <1>6, <2>7, <3>1
  <2>9. ASSUME NEW i \in 1 .. Len(data)
        PROVE  Word(t, o + 1 + i) = data[i]
    <3>1. o + 1 + i \in DB_HEADER_SIZE .. End(s) - 1 /\ o + 1 + i < p0
      <4>1. /\ o \in Int /\ n \in Int /\ i \in Int /\ i >= 1 /\ i + 2 <= n /\ End(s) \in Int
            /\ DB_HEADER_SIZE \in Int /\ DB_HEADER_SIZE <= o /\ z \in Int /\ n <= z /\ o + z <= End(s)
        BY <1>1, <1>2, FirstAligned
      <4> QED BY <4>1 DEF p0
    <3> QED BY <1>6, <2>7, <3>1
  <2>10. ASSUME NEW p \in DB_HEADER_SIZE .. End(s) - 1, p < o \/ p >= o + n + 2 \/ p >= o + z
         PROVE  Word(t, p) = Word(s, p)
    <3>1. (p < p0 \/ p >= p0 + 2) /\ (p < o \/ p >= o + n)
      <4>1. n + 2 <= z
        <5>1. z \in Nat /\ n \in Nat /\ z % 2 = 0 /\ n % 2 = 0 /\ n < z
          BY <1>1, <1>2, <1>9
        <5> QED BY <5>1
      <4> QED BY <1>1, <1>2, <2>10, <4>1, FirstAligned DEF p0
    <3> QED BY <1>6, <1>7, <2>7, <3>1
  <2>11. Word(t, o + n) = FREE /\ Word(t, o + n + 1) = (z - n) - 2
    BY <2>5 DEF p0
  <2> QED BY <1>6, <2>5, <2>6, <2>8, <2>9, <2>10, <2>11 DEF IsSplit, n, z, t
<1>10. CASE ~ (n < z)
  <2>1. n = z /\ t = w /\ z - n = 0
    BY <1>1, <1>2, <1>3, <1>10
  <2>2. t.hdr = [s.hdr EXCEPT !.freeSize = s.hdr.freeSize + (z - n)] /\ t.saved = t.hdr
    BY <1>6, <1>8, <2>1 DEF Headers
  <2>3. ASSUME NEW p \in DB_HEADER_SIZE .. End(s) - 1, p < o \/ p >= o + n + 2 \/ p >= o + z
        PROVE  Word(t, p) = Word(s, p)
    <3>1. p < o \/ p >= o + n
      BY <1>1, <1>2, <2>1, <2>3, FirstAligned
    <3> QED BY <1>6, <1>7, <2>1, <3>1
  <2> QED BY <1>6, <1>7, <1>10, <2>1, <2>2, <2>3 DEF IsSplit, n, z, t
<1> QED BY <1>9, <1>10 DEF t

(* Nor is a word of a record's data that could be one.                     *)
LEMMA NoneInData ==
  ASSUME PlainData, NEW data \in Data, NEW o \in Int, Aligned(o),
         NEW p \in Int, o < p, p < o + CalculateBlockSize(Len(data)), Aligned(p)
  PROVE  \E i \in 1 .. Len(data) : p = o + 1 + i /\ data[i] \notin Ids
<1> DEFINE n == CalculateBlockSize(Len(data))
           b == o + n
           i == p - (o + 1)
<1>1. Len(data) \in Nat
  BY Layout
<1>2. n \in Nat /\ n % 2 = 0 /\ n <= Len(data) + 3
  BY <1>1, SizeIs
<1> HIDE DEF n
<1>3. b \in Int /\ Aligned(b) /\ p < b
  <2>1. Aligned(o + n)
    <3>1. n \in Int /\ n % 2 = 0
      BY <1>2
    <3> QED BY <3>1, StaysAligned
  <2> QED BY <1>2, <2>1 DEF n
<1>4. b = o + n
  OBVIOUS
<1> HIDE DEF b
<1>5. p + 2 <= b /\ o + 2 <= p /\ (p - o) % 2 = 0
  BY <1>3, RoomBetween
<1>6. i \in 1 .. Len(data) /\ p = o + 1 + i
  BY <1>1, <1>2, <1>4, <1>5
<1>7. i % 2 = 1
  BY <1>5
<1> HIDE DEF i
<1>8. i \in DOMAIN data
  BY <1>6, Layout
<1> QED BY <1>6, <1>7, <1>8 DEF PlainData, LooksPlain, BLOCK_HEADER_SIZE

(* So the record is there, and all others, and no more is free than the    *)
(* header says.                                                            *)
LEMMA SplitBlockPuts ==
  ASSUME PlainData, NEW s, Whole(s), NEW o \in Starts(s), NEW id \in Ids, NEW data \in Data,
         CalculateBlockSize(Len(data)) <= BlockSize(s, o),
         \/ BlockId(s, o) = id
         \/ BlockId(s, o) = FREE /\ \A p \in Starts(s) : BlockId(s, p) # id
  PROVE  Puts(SplitBlock(s, o, id, DataLen(s, o), data), s, id, data)
<1> DEFINE S == Starts(s)
           n == CalculateBlockSize(Len(data))
           z == BlockSize(s, o)
           t == SplitBlock(s, o, id, DataLen(s, o), data)
           T == StartsAfter(s, S, o, n)
<1>1. /\ s \in Stores /\ Tiled(s, S) /\ Named(s, S) /\ Indexed(s, S) /\ s.saved = s.hdr
      /\ s.hdr.freeSize \in Int /\ s.hdr \in Headers
      /\ s.hdr.freeSize >= Cardinality(Free(s)) /\ Cardinality(Free(s)) \in Nat
  BY WholeIs DEF Good
<1>2. data \in Seq(Int) /\ id # FREE /\ o \in S
  BY Layout, IdsAre
<1>3. IsSplit(t, s, o, id, data)
  BY <1>1, <1>2, SplitBlockWrites
<1>4. /\ t \in Stores /\ End(t) = End(s)
      /\ t.hdr = [s.hdr EXCEPT !.freeSize = s.hdr.freeSize + (z - n)] /\ t.saved = t.hdr
      /\ t.lastSeen = s.lastSeen
      /\ t.offsets = IF s.offsets = Null THEN s.offsets ELSE [s.offsets EXCEPT ![id] = o]
      /\ BlockId(t, o) = id /\ DataLen(t, o) = Len(data)
      /\ \A i \in 1 .. Len(data) : Word(t, o + 1 + i) = data[i]
      /\ n < z => BlockId(t, o + n) = FREE /\ DataLen(t, o + n) = (z - n) - 2
      /\ \A p \in DB_HEADER_SIZE .. End(s) - 1 :
           p < o \/ p >= o + n + 2 \/ p >= o + z => Word(t, p) = Word(s, p)
  BY <1>3 DEF IsSplit, BlockId, DataLen
<1>5. /\ o \in Int /\ DB_HEADER_SIZE <= o /\ Aligned(o)
      /\ z \in Nat /\ z >= 2 /\ z % 2 = 0 /\ o + z <= End(s) /\ End(s) \in Int
  BY <1>1, <1>2, BlockFacts
<1>6. /\ n \in Nat /\ n % 2 = 0 /\ n >= Len(data) + 2 /\ n <= Len(data) + 3 /\ n >= 2
      /\ Len(data) \in Nat /\ n <= z
  <2>1. Len(data) \in Nat
    BY <1>2
  <2>2. n \in Nat /\ n % 2 = 0 /\ n >= Len(data) + 2 /\ n <= Len(data) + 3
    BY <2>1, SizeIs
  <2> QED BY <2>1, <2>2
<1>7. BlockSize(t, o) = n
  BY <1>4 DEF BlockSize
<1> HIDE DEF n, z, t
<1>8. /\ t.hdr.dataSize = s.hdr.dataSize /\ t.hdr.nextId = s.hdr.nextId
      /\ t.hdr.numLive = s.hdr.numLive /\ t.hdr.freeSize = s.hdr.freeSize + (z - n)
  BY <1>1, <1>4 DEF Headers
<1>9. n < z => DataLen(t, o + n) \in Nat /\ BlockSize(t, o + n) = z - n
  <2> SUFFICES ASSUME n < z
               PROVE  DataLen(t, o + n) \in Nat /\ BlockSize(t, o + n) = z - n
    OBVIOUS
  <2> DEFINE m == (z - n) - 2
  <2>1. m \in Nat /\ m % 2 = 0 /\ m + 2 = z - n
    BY <1>5, <1>6
  <2>2. DataLen(t, o + n) = m
    BY <1>4
  <2> HIDE DEF m
  <2>3. CalculateBlockSize(m) = z - n
    BY <2>1, SizeIs
  <2> QED BY <2>1, <2>2, <2>3 DEF BlockSize
<1>10. Reshaped(t, s, o, n)
  <2>1. \A p \in DB_HEADER_SIZE .. End(s) - 1 : p < o \/ p >= o + z => Word(t, p) = Word(s, p)
    BY <1>4
  <2> QED BY <1>4, <1>6, <1>7, <1>8, <1>9, <2>1 DEF Reshaped, z
<1>11. Tiled(t, T) /\ S \subseteq T /\ o \in T
  <2>1. Tiled(t, T)
    BY <1>1, <1>2, <1>10, ReshapedTiled
  <2> QED BY <1>2, <2>1 DEF StartsAfter
<1>12. Named(t, T)
  <2>1. ASSUME NEW p \in Int, o < p, p < o + z, Aligned(p)
        PROVE  BlockId(t, p) \notin Ids
    <3>1. BlockId(s, p) \notin Ids /\ p \in DB_HEADER_SIZE .. End(s) - 1 /\ p >= o + 2
      BY <1>1, <1>2, <2>1, NoneInside DEF z
    <3>2. Aligned(o + n)
      <4>1. n \in Int /\ n % 2 = 0 /\ o \in Int /\ Aligned(o)
        BY <1>5, <1>6
      <4> QED BY <4>1, StaysAligned
    <3>3. CASE p = o + n
      <4>1. n < z
        BY <1>5, <1>6, <2>1, <3>3
      <4> QED BY <1>4, <3>3, <4>1, IdsAre
    <3>4. CASE p > o + n
      <4>1. p >= o + n + 2
        <5> DEFINE b == o + n
        <5>1. b \in Int /\ Aligned(b) /\ b < p
          BY <1>5, <1>6, <3>2, <3>4
        <5> HIDE DEF b
        <5>2. b + 2 <= p
          BY <2>1, <5>1, RoomBetween
        <5> QED BY <1>5, <1>6, <5>2 DEF b
      <4> QED BY <1>4, <3>1, <4>1 DEF BlockId
    <3>5. CASE p < o + n
      <4>1. PICK i \in 1 .. Len(data) : p = o + 1 + i /\ data[i] \notin Ids
        BY <1>5, <2>1, <3>5, NoneInData DEF n
      <4>2. Word(t, p) = data[i]
        BY <1>4, <4>1
      <4> QED BY <4>1, <4>2 DEF BlockId
    <3> QED BY <1>5, <1>6, <3>3, <3>4, <3>5
  <2>2. \A p \in S : p # o => BlockId(s, p) # id
    BY <1>1, <1>2 DEF Named
  <2> HIDE DEF T
  <2>3. BlockId(t, o) \in {FREE} \cup Ids
    BY <1>4
  <2>4. \A p \in Int : o < p /\ p < o + BlockSize(s, o) /\ Aligned(p) => BlockId(t, p) \notin Ids
    BY <2>1 DEF z
  <2>5. \A p \in S : p # o => BlockId(s, p) # BlockId(t, o)
    BY <1>4, <2>2
  <2> QED BY <1>1, <1>2, <1>10, <2>3, <2>4, <2>5, ReshapedNamed DEF T
<1>13. \A p \in S : p # o => Kept(t, s, p)
  BY <1>1, <1>2, <1>10, OthersKept
<1>14. Taken(t, T) = Taken(s, S) \cup {o}
  <2>1. \A p \in S : p # o => BlockId(t, p) = BlockId(s, p)
    BY <1>13 DEF Kept
  <2>2. \A p \in T : p \in S \/ BlockId(t, p) = FREE
    BY <1>4 DEF StartsAfter, z
  <2> HIDE DEF T
  <2> QED BY <1>2, <1>4, <1>11, <2>1, <2>2 DEF Taken
<1> HIDE DEF T, S
<1>15. BlockData(t, o) = data
  BY <1>2, <1>4, <1>11, HasData
<1>16. RecordsIn(t) = With(RecordsIn(s), id, data)
  <2>1. o \in Taken(s, S) => BlockId(s, o) = BlockId(t, o)
    BY <1>4 DEF Taken, S
  <2>2. \A p \in Taken(s, S) : p # o => Kept(t, s, p)
    BY <1>13 DEF Taken
  <2>3. RecordsIn(t) = With(RecordsIn(s), BlockId(t, o), BlockData(t, o))
    BY <1>1, <1>4, <1>11, <1>12, <1>14, <2>1, <2>2, RecordPut
  <2> QED BY <1>4, <1>15, <2>3
<1>17. Indexed(t, T)
  <2>1. \A p \in Taken(s, S) : p # o => BlockId(t, p) = BlockId(s, p)
    BY <1>13 DEF Taken, Kept
  <2>2. t.offsets = IF s.offsets = Null \/ BlockId(t, o) = FREE
                    THEN s.offsets ELSE [s.offsets EXCEPT ![BlockId(t, o)] = o]
    BY <1>2, <1>4
  <2>3. Taken(t, T) \subseteq Taken(s, S) \cup {o}
    BY <1>14
  <2>4. /\ s \in Stores /\ Named(s, S) /\ Indexed(s, S) /\ t \in Stores /\ Tiled(t, T) /\ Named(t, T)
        /\ o \in T /\ S \subseteq T /\ t.lastSeen = s.lastSeen
    BY <1>1, <1>4, <1>11, <1>12
  <2> QED BY <2>1, <2>2, <2>3, <2>4, IndexKnows
<1>18. Cardinality(Free(t)) <= Cardinality(Free(s)) + (z - n)
  <2> DEFINE a == o + n
             b == o + z
  <2>1. a \in Int /\ b \in Int /\ a <= b /\ b - a = z - n /\ a = IF BlockId(t, o) = FREE THEN o ELSE o + n
    <3>1. o \in Int /\ n \in Int /\ z \in Int /\ n <= z
      BY <1>5, <1>6
    <3>2. a \in Int /\ b \in Int /\ a <= b /\ b - a = z - n
      BY <3>1
    <3>3. BlockId(t, o) # FREE
      BY <1>2, <1>4
    <3> QED BY <3>2, <3>3
  <2> HIDE DEF a
  <2>2. FreeIn(t, T) \subseteq FreeIn(s, S) \cup (a .. b - 1)
    <3>1. FreeIn(t, T) \subseteq FreeIn(s, S) \cup (a .. o + z - 1)
      BY <1>1, <1>2, <1>10, <2>1, ReshapedFree DEF z, T
    <3>2. o + z - 1 = b - 1
      BY <1>5
    <3> QED BY <3>1, <3>2
  <2> HIDE DEF b
  <2>3. Cardinality(Free(t)) <= Cardinality(Free(s)) + (b - a)
    BY <1>1, <1>4, <1>11, <1>12, <2>1, <2>2, MoreFree
  <2> QED BY <2>1, <2>3
<1>19. Whole(t)
  <2>1. Good(t, T)
    BY <1>4, <1>11, <1>12, <1>17 DEF Good
  <2>2. Cardinality(Free(t)) \in Nat
    BY <1>4, <1>11, <1>12, FreeAre
  <2>3. t.hdr.freeSize >= Cardinality(Free(t))
    <3> DEFINE c == Cardinality(Free(t))
               d == Cardinality(Free(s))
               f == s.hdr.freeSize
    <3>1. c \in Nat /\ d \in Nat /\ f \in Int /\ f >= d /\ c <= d + (z - n) /\ z - n \in Int
      BY <1>1, <1>5, <1>6, <1>18, <2>2
    <3> HIDE DEF c, d, f
    <3>2. f + (z - n) >= c
      BY <3>1
    <3> QED BY <1>8, <3>2 DEF c, f
  <2> QED BY <2>1, <2>3, WholeIs
<1> QED BY <1>8, <1>16, <1>19 DEF Puts, t

(* A new block at the end of the file holds the record; nothing more is    *)
(* free.                                                                   *)
LEMMA AppendBlockPuts ==
  ASSUME PlainData, NEW s, Whole(s), NEW id \in Ids, NEW data \in Data,
         \A p \in Starts(s) : BlockId(s, p) # id
  PROVE  Puts(AppendBlock(s, id, data), s, id, data)
<1> DEFINE S == Starts(s)
           e == End(s)
           n == CalculateBlockSize(Len(data))
           w == WriteBlock(s, e, id, Len(data), data)
           size == s.hdr.dataSize + n
           t == [w EXCEPT !.hdr.dataSize = size, !.saved.dataSize = size]
           T == S \cup {e}
<1>1. /\ s \in Stores /\ Tiled(s, S) /\ Named(s, S) /\ Indexed(s, S) /\ s.saved = s.hdr
      /\ s.hdr.freeSize \in Int /\ s.hdr \in Headers
      /\ s.hdr.freeSize >= Cardinality(Free(s)) /\ Cardinality(Free(s)) \in Nat
  BY WholeIs DEF Good
<1>2. data \in Seq(Int) /\ Len(data) \in Nat /\ id # FREE /\ id \in {FREE} \cup Ids
  BY Layout, IdsAre
<1>3. /\ n \in Nat /\ n % 2 = 0 /\ n >= Len(data) + 2 /\ n <= Len(data) + 3
  BY <1>2, SizeIs
<1>4. GetSize(s) = e /\ e \in Int /\ DB_HEADER_SIZE <= e /\ Aligned(e)
  <2>1. GetSize(s) = e /\ e \in Int /\ Len(s.file) \in Nat /\ e = DB_HEADER_SIZE + Len(s.file)
    BY <1>1, SizeOfFile
  <2>2. Aligned(e)
    BY <1>1 DEF Tiled
  <2> QED BY <2>1, <2>2, FirstAligned
<1>5. AppendBlock(s, id, data) = t
  BY <1>4 DEF AppendBlock
<1>6. \A o \in S : /\ o \in Int /\ DB_HEADER_SIZE <= o /\ o < e /\ Aligned(o)
                   /\ o + BlockSize(s, o) \in S \cup {e} /\ o + BlockSize(s, o) <= e
                   /\ BlockSize(s, o) \in Nat /\ DataLen(s, o) \in Nat
  BY <1>1, BlockFacts
<1>7. Wrote(w, s, e, id, Len(data), data)
  <2>1. e \in DB_HEADER_SIZE .. End(s) /\ Len(data) \in Int
    BY <1>2, <1>4, FirstAligned
  <2> QED BY <1>1, <1>2, <2>1, WriteBlockWrites
<1>8. s.hdr.dataSize \in Nat /\ s.hdr.dataSize = Len(s.file)
  BY <1>1 DEF Headers, Tiled
<1>9. e = DB_HEADER_SIZE + Len(s.file)
  BY DEF End
<1> HIDE DEF S, e, n, w
<1>10. /\ w \in Stores /\ w.hdr = s.hdr /\ w.saved = s.hdr /\ w.lastSeen = s.lastSeen
       /\ w.offsets = IF s.offsets = Null THEN s.offsets ELSE [s.offsets EXCEPT ![id] = e]
       /\ Word(w, e) = id /\ Word(w, e + 1) = Len(data)
       /\ \A i \in 1 .. Len(data) : Word(w, e + 1 + i) = data[i]
       /\ \A p \in DB_HEADER_SIZE .. End(w) - 1 : p < e \/ p >= e + n => Word(w, p) = Word(s, p)
  BY <1>1, <1>2, <1>7 DEF Wrote, n
<1>11. End(w) = e + n
  <2>1. End(w) = IF e + n > End(s) THEN e + n ELSE End(s)
    BY <1>7 DEF Wrote, n
  <2> QED BY <1>2, <1>3, <1>4, <2>1 DEF e
<1>12. size \in Nat
  BY <1>3, <1>8
<1>13. size = Len(s.file) + n
  BY <1>8
<1> HIDE DEF size
<1>14. /\ t \in Stores /\ t.file = w.file /\ t.offsets = w.offsets /\ t.lastSeen = w.lastSeen
       /\ t.hdr = [w.hdr EXCEPT !.dataSize = size] /\ t.saved = t.hdr
  BY <1>10, <1>12 DEF Stores, Headers
<1> HIDE DEF t
<1>15. /\ t.hdr.dataSize = size /\ t.hdr.nextId = s.hdr.nextId
       /\ t.hdr.numLive = s.hdr.numLive /\ t.hdr.freeSize = s.hdr.freeSize
  BY <1>1, <1>10, <1>14 DEF Headers
<1>16. End(t) = e + n /\ \A p : BlockId(t, p) = Word(w, p) /\ DataLen(t, p) = Word(w, p + 1) /\ Word(t, p) = Word(w, p)
  BY <1>11, <1>14 DEF End, Word, BlockId, DataLen
<1>17. BlockId(t, e) = id /\ DataLen(t, e) = Len(data) /\ BlockSize(t, e) = n
  BY <1>10, <1>16 DEF BlockSize, n
<1>18. \A p \in DB_HEADER_SIZE .. e - 1 : Word(t, p) = Word(s, p)
  <2>1. ASSUME NEW p \in DB_HEADER_SIZE .. e - 1
        PROVE  Word(t, p) = Word(s, p)
    <3>1. p \in DB_HEADER_SIZE .. End(w) - 1 /\ p < e
      BY <1>3, <1>4, <1>11, FirstAligned
    <3> QED BY <1>10, <1>16, <3>1
  <2> QED BY <2>1
<1>19. ASSUME NEW p \in S
       PROVE  Kept(t, s, p)
  <2>1. \A x \in Int : p <= x /\ x < p + BlockSize(s, p) => Word(t, x) = Word(s, x)
    <3>1. ASSUME NEW x \in Int, p <= x, x < p + BlockSize(s, p)
          PROVE  x \in DB_HEADER_SIZE .. e - 1
      BY <1>4, <1>6, <3>1, FirstAligned
    <3> QED BY <1>18, <3>1
  <2> QED BY <1>1, <2>1, KeptWhere
<1>20. Tiled(t, T)
  <2>1. Len(t.file) = t.hdr.dataSize
    <3>1. Len(t.file) \in Nat
      BY <1>14 DEF Stores
    <3>2. DB_HEADER_SIZE + Len(t.file) = e + n
      BY <1>16 DEF End
    <3> DEFINE l == Len(s.file)
               k == Len(t.file)
               d == DB_HEADER_SIZE
    <3>3. l \in Int /\ k \in Int /\ d \in Int /\ n \in Int /\ e \in Int
      BY <1>3, <1>4, <1>8, <3>1, FirstAligned
    <3>4. d + k = (d + l) + n
      BY <1>9, <3>2
    <3> HIDE DEF l, k, d
    <3>5. k = l + n
      BY <3>3, <3>4
    <3> QED BY <1>13, <1>15, <3>5 DEF k, l
  <2>2. Aligned(End(t))
    <3>1. n \in Int /\ n % 2 = 0 /\ e \in Int /\ Aligned(e)
      BY <1>3, <1>4
    <3>2. Aligned(e + n)
      BY <3>1, StaysAligned
    <3> QED BY <1>16, <3>2
  <2>3. ASSUME NEW o \in T
        PROVE  /\ o \in Int /\ DB_HEADER_SIZE <= o /\ o < End(t) /\ Aligned(o)
               /\ DataLen(t, o) \in Nat /\ o + BlockSize(t, o) \in T \cup {End(t)}
    <3>1. CASE o \in S
      <4>1. DataLen(t, o) = DataLen(s, o) /\ BlockSize(t, o) = BlockSize(s, o)
        BY <1>19, <3>1 DEF Kept
      <4>2. o < End(t)
        <5>1. o \in Int /\ o < e /\ e \in Int /\ n \in Nat
          BY <1>3, <1>4, <1>6, <3>1
        <5>2. o < e + n
          BY <5>1
        <5> QED BY <1>16, <5>2
      <4> QED BY <1>6, <3>1, <4>1, <4>2
    <3>2. CASE o = e
      <4>1. e < End(t)
        BY <1>2, <1>3, <1>4, <1>16
      <4> QED BY <1>2, <1>4, <1>16, <1>17, <3>2, <4>1
    <3> QED BY <3>1, <3>2
  <2>4. ASSUME NEW o \in T, NEW p \in T, o < p
        PROVE  o + BlockSize(t, o) <= p
    <3>1. o \in S
      BY <1>4, <1>6, <2>4
    <3>2. BlockSize(t, o) = BlockSize(s, o)
      BY <1>19, <3>1 DEF Kept
    <3> QED BY <1>1, <1>6, <2>4, <3>1, <3>2 DEF Tiled
  <2>5. DB_HEADER_SIZE \in T
    BY <1>1 DEF Tiled, e
  <2> QED BY <2>1, <2>2, <2>3, <2>4, <2>5 DEF Tiled
<1>21. \A p \in S : BlockId(t, p) = BlockId(s, p) /\ BlockId(s, p) # id
  BY <1>19 DEF Kept, S
<1>22. Named(t, T)
  <2>1. \A o \in T : BlockId(t, o) \in {FREE} \cup Ids
    BY <1>1, <1>2, <1>17, <1>21 DEF Named
  <2>2. \A o \in T, p \in T : BlockId(t, o) = BlockId(t, p) /\ BlockId(t, o) # FREE => o = p
    BY <1>1, <1>17, <1>21 DEF Named
  <2>3. ASSUME NEW p \in DB_HEADER_SIZE .. End(t) - 1, Aligned(p), BlockId(t, p) \in Ids
        PROVE  p \in T
    <3>1. CASE p < e
      <4>1. p \in DB_HEADER_SIZE .. End(s) - 1 /\ BlockId(t, p) = BlockId(s, p)
        <5>1. p \in DB_HEADER_SIZE .. e - 1
          BY <1>4, <3>1, FirstAligned
        <5> QED BY <1>18, <5>1 DEF BlockId, e
      <4> QED BY <1>1, <2>3, <4>1 DEF Named
    <3>2. CASE p > e
      <4>1. p \in Int /\ p < e + n
        BY <1>3, <1>4, <1>16, FirstAligned
      <4>2. PICK i \in 1 .. Len(data) : p = e + 1 + i /\ data[i] \notin Ids
        BY <1>4, <2>3, <3>2, <4>1, NoneInData DEF n
      <4>3. Word(t, p) = data[i]
        BY <1>10, <1>16, <4>2
      <4> QED BY <2>3, <4>2, <4>3 DEF BlockId
    <3> QED BY <1>4, <3>1, <3>2, FirstAligned
  <2> QED BY <2>1, <2>2, <2>3 DEF Named
<1>23. Taken(t, T) = Taken(s, S) \cup {e}
  BY <1>2, <1>17, <1>21 DEF Taken
<1> HIDE DEF T
<1>24. e \in T /\ S \subseteq T /\ e \notin S
  BY <1>4, <1>6 DEF T
<1>25. BlockData(t, e) = data
  <2>1. \A i \in 1 .. Len(data) : Word(t, e + 1 + i) = data[i]
    BY <1>10, <1>16
  <2> QED BY <1>2, <1>14, <1>17, <1>20, <1>24, <2>1, HasData
<1>26. RecordsIn(t) = With(RecordsIn(s), id, data)
  <2>1. e \notin Taken(s, S) /\ \A p \in Taken(s, S) : Kept(t, s, p)
    BY <1>19, <1>24 DEF Taken
  <2>2. RecordsIn(t) = With(RecordsIn(s), BlockId(t, e), BlockData(t, e))
    BY <1>1, <1>14, <1>20, <1>22, <1>23, <2>1, RecordPut
  <2> QED BY <1>17, <1>25, <2>2
<1>27. Indexed(t, T)
  <2>1. \A p \in Taken(s, S) : p # e => BlockId(t, p) = BlockId(s, p)
    BY <1>21 DEF Taken
  <2>2. t.offsets = IF s.offsets = Null \/ BlockId(t, e) = FREE
                    THEN s.offsets ELSE [s.offsets EXCEPT ![BlockId(t, e)] = e]
    BY <1>2, <1>10, <1>14, <1>17
  <2>3. Taken(t, T) \subseteq Taken(s, S) \cup {e}
    BY <1>23
  <2>4. /\ s \in Stores /\ Named(s, S) /\ Indexed(s, S) /\ t \in Stores /\ Tiled(t, T) /\ Named(t, T)
        /\ e \in T /\ S \subseteq T /\ t.lastSeen = s.lastSeen
    BY <1>1, <1>10, <1>14, <1>20, <1>22, <1>24
  <2> QED BY <2>1, <2>2, <2>3, <2>4, IndexKnows
<1>28. Free(t) = Free(s)
  <2>1. FreeIn(t, T) = FreeIn(s, S)
    <3>1. \A o \in T : BlockId(t, o) = FREE <=> o \in S /\ BlockId(s, o) = FREE
      BY <1>2, <1>17, <1>21, <1>24 DEF T
    <3>2. \A o \in S : BlockSize(t, o) = BlockSize(s, o) /\ o \in T
      BY <1>19, <1>24 DEF Kept
    <3> QED BY <3>1, <3>2 DEF FreeIn
  <2> QED BY <1>1, <1>14, <1>20, <1>22, <2>1, FreeAre
<1>29. Whole(t)
  <2>1. Good(t, T)
    BY <1>14, <1>20, <1>22, <1>27 DEF Good
  <2>2. t.hdr.freeSize >= Cardinality(Free(t))
    BY <1>1, <1>15, <1>28
  <2> QED BY <2>1, <2>2, WholeIs
<1> QED BY <1>5, <1>15, <1>26, <1>29 DEF Puts

(* What getFreeBlock returns: nothing, or a free block with room enough.   *)
LEMMA GetFreeBlockIs ==
  ASSUME NEW s \in Stores, NEW S, Tiled(s, S), Named(s, S), NEW n
  PROVE  \/ GetFreeBlock(s, n) = 0
         \/ /\ GetFreeBlock(s, n) \in S
            /\ BlockId(s, GetFreeBlock(s, n)) = FREE
            /\ CalculateBlockSize(n) <= BlockSize(s, GetFreeBlock(s, n))
<1> DEFINE all == AllBlocks(s)
           fit == {i \in DOMAIN all :
                     BlockId(s, all[i]) < 0 /\ BlockSize(s, all[i]) >= CalculateBlockSize(n)}
<1>1. GetFreeBlock(s, n) = IF fit = {} THEN 0 ELSE all[Min(fit)]
  BY DEF GetFreeBlock
<1>2. Lists(all, s, S, DB_HEADER_SIZE)
  BY StartsAre
<1> HIDE DEF all
<1>3. all \in Seq(Int) /\ \A i \in DOMAIN all : all[i] \in S
  BY <1>2 DEF Lists
<1>4. CASE fit = {}
  BY <1>1, <1>4
<1>5. CASE fit # {}
  <2>1. fit \in SUBSET Nat /\ fit \in SUBSET Int
    BY <1>3
  <2>2. PICK m \in fit : \A k \in fit : m <= k
    BY <1>5, <2>1, LeastExists
  <2>3. Min(fit) = m
    BY <2>1, <2>2, MinIs
  <2>4. all[m] \in S /\ BlockId(s, all[m]) < 0 /\ BlockSize(s, all[m]) >= CalculateBlockSize(n)
    BY <1>3, <2>2
  <2>5. BlockId(s, all[m]) = FREE
    BY <2>4, IdsAre DEF Named
  <2>6. GetFreeBlock(s, n) = all[m]
    BY <1>1, <1>5, <2>3
  <2> DEFINE o == all[m]
  <2> HIDE DEF o
  <2>7. BlockSize(s, o) >= CalculateBlockSize(n) => CalculateBlockSize(n) <= BlockSize(s, o)
    OBVIOUS
  <2> QED BY <2>4, <2>5, <2>6, <2>7 DEF o
<1> QED BY <1>4, <1>5

-----------------------------------------------------------------------------
(* Compacting.                                                             *)

(* The file of t is the blocks of s that are not free, each at another     *)
(* offset, in their order and with nothing between them.                   *)
Moves(t, s, S, to) ==
  /\ t \in Stores /\ Len(t.file) = t.hdr.dataSize /\ Aligned(End(t))
  /\ \A o \in Taken(s, S) : /\ to[o] \in Int /\ DB_HEADER_SIZE <= to[o] /\ Aligned(to[o])
                            /\ to[o] + BlockSize(s, o) <= End(t)
                            /\ \A x \in 0 .. BlockSize(s, o) - 1 : Word(t, to[o] + x) = Word(s, o + x)
  /\ \A o \in Taken(s, S), p \in Taken(s, S) : o < p => to[o] + BlockSize(s, o) <= to[p]
  /\ \A p \in DB_HEADER_SIZE .. End(t) - 1 :
       \E o \in Taken(s, S) : to[o] <= p /\ p < to[o] + BlockSize(s, o)

Landed(s, S, to) == {to[o] : o \in Taken(s, S)}

(* A block that moves is the same block.                                   *)
LEMMA MovedSame ==
  ASSUME NEW s \in Stores, NEW S, Tiled(s, S), Named(s, S), NEW t, NEW to, Moves(t, s, S, to),
         NEW o \in Taken(s, S)
  PROVE  /\ BlockId(t, to[o]) = BlockId(s, o) /\ BlockId(s, o) \in Ids
         /\ DataLen(t, to[o]) = DataLen(s, o) /\ BlockSize(t, to[o]) = BlockSize(s, o)
         /\ \A i \in 1 .. DataLen(s, o) : Word(t, to[o] + 1 + i) = Word(s, o + 1 + i)
<1> DEFINE z == BlockSize(s, o)
<1>1. o \in S /\ BlockId(s, o) \in Ids
  BY DEF Taken, Named
<1>2. o \in Int /\ z \in Nat /\ z >= 2 /\ z >= DataLen(s, o) + 2 /\ DataLen(s, o) \in Nat
  BY <1>1, BlockFacts
<1>3. to[o] \in Int /\ \A x \in 0 .. z - 1 : Word(t, to[o] + x) = Word(s, o + x)
  BY DEF Moves
<1> HIDE DEF z
<1>4. Word(t, to[o]) = Word(s, o) /\ Word(t, to[o] + 1) = Word(s, o + 1)
  <2>1. 0 \in 0 .. z - 1 /\ 1 \in 0 .. z - 1 /\ to[o] + 0 = to[o] /\ o + 0 = o
    BY <1>2, <1>3
  <2>2. Word(t, to[o] + 0) = Word(s, o + 0) /\ Word(t, to[o] + 1) = Word(s, o + 1)
    BY <1>3, <2>1
  <2> QED BY <2>1, <2>2
<1>5. ASSUME NEW i \in 1 .. DataLen(s, o)
      PROVE  Word(t, to[o] + 1 + i) = Word(s, o + 1 + i)
  <2>1. 1 + i \in 0 .. z - 1 /\ to[o] + (1 + i) = to[o] + 1 + i /\ o + (1 + i) = o + 1 + i
    BY <1>2, <1>3
  <2>2. Word(t, to[o] + (1 + i)) = Word(s, o + (1 + i))
    BY <1>3, <2>1
  <2> QED BY <2>1, <2>2
<1>6. DataLen(t, to[o]) = DataLen(s, o)
  BY <1>4 DEF DataLen
<1> QED BY <1>1, <1>4, <1>5, <1>6 DEF BlockId, BlockSize

(* The blocks that moved are the whole file.                               *)
LEMMA MovedTiled ==
  ASSUME NEW s \in Stores, NEW S, Tiled(s, S), Named(s, S), NEW t, NEW to, Moves(t, s, S, to)
  PROVE  Tiled(t, Landed(s, S, to))
<1> DEFINE T == Landed(s, S, to)
<1>1. /\ t \in Stores /\ Len(t.file) = t.hdr.dataSize /\ Aligned(End(t)) /\ End(t) \in Int
      /\ DB_HEADER_SIZE <= End(t)
  BY FirstAligned DEF Moves, Stores, End
<1>2. \A o \in Taken(s, S) : /\ to[o] \in Int /\ DB_HEADER_SIZE <= to[o] /\ Aligned(to[o])
                             /\ to[o] + BlockSize(s, o) <= End(t)
                             /\ DataLen(t, to[o]) = DataLen(s, o) /\ BlockSize(t, to[o]) = BlockSize(s, o)
  BY MovedSame DEF Moves
<1>3. \A o \in Taken(s, S) : /\ o \in S /\ o \in Int /\ DataLen(s, o) \in Nat
                             /\ BlockSize(s, o) \in Nat /\ BlockSize(s, o) >= 2
  BY BlockFacts DEF Taken
<1>4. \A o \in Taken(s, S), p \in Taken(s, S) : o < p => to[o] + BlockSize(s, o) <= to[p]
  BY DEF Moves
<1>5. \A p \in DB_HEADER_SIZE .. End(t) - 1 :
        \E o \in Taken(s, S) : to[o] <= p /\ p < to[o] + BlockSize(s, o)
  BY DEF Moves
<1>6. \A o \in Taken(s, S) : to[o] \in T
  BY DEF Landed
<1>7. \A o \in T : \E p \in Taken(s, S) : o = to[p]
  BY DEF Landed
<1> HIDE DEF T
<1>8. ASSUME NEW o \in Taken(s, S)
      PROVE  to[o] < End(t) /\ to[o] + BlockSize(s, o) \in T \cup {End(t)}
  <2> DEFINE e == to[o] + BlockSize(s, o)
  <2>1. e \in Int /\ to[o] < e /\ e <= End(t) /\ DB_HEADER_SIZE <= e
    BY <1>2, <1>3, FirstAligned
  <2>2. CASE e < End(t)
    <3>1. e \in DB_HEADER_SIZE .. End(t) - 1
      BY <1>1, <2>1, <2>2, FirstAligned
    <3>2. PICK p \in Taken(s, S) : to[p] <= e /\ e < to[p] + BlockSize(s, p)
      BY <1>5, <3>1
    <3>3. o < p
      <4>1. p # o
        BY <1>2, <1>3, <3>2
      <4>2. ~ (p < o)
        BY <1>2, <1>3, <1>4, <2>1, <3>2
      <4> QED BY <1>3, <4>1, <4>2
    <3>4. e <= to[p]
      BY <1>4, <3>3
    <3>5. e = to[p]
      BY <1>2, <2>1, <3>2, <3>4
    <3>6. to[o] < End(t)
      BY <1>1, <1>2, <2>1
    <3> QED BY <1>6, <3>5, <3>6
  <2>3. CASE e = End(t)
    BY <1>2, <2>1, <2>3
  <2> QED BY <1>1, <2>1, <2>2, <2>3
<1>9. ASSUME NEW o \in T
      PROVE  /\ o \in Int /\ DB_HEADER_SIZE <= o /\ o < End(t) /\ Aligned(o)
             /\ DataLen(t, o) \in Nat /\ o + BlockSize(t, o) \in T \cup {End(t)}
  <2>1. PICK p \in Taken(s, S) : o = to[p]
    BY <1>7
  <2> QED BY <1>2, <1>3, <1>8, <2>1
<1>10. ASSUME NEW o \in T, NEW p \in T, o < p
       PROVE  o + BlockSize(t, o) <= p
  <2>1. PICK a \in Taken(s, S) : o = to[a]
    BY <1>7
  <2>2. PICK b \in Taken(s, S) : p = to[b]
    BY <1>7
  <2>3. a < b
    <3>1. a # b
      BY <1>2, <1>10, <2>1, <2>2
    <3>2. ~ (b < a)
      BY <1>2, <1>3, <1>4, <1>10, <2>1, <2>2
    <3> QED BY <1>3, <3>1, <3>2
  <2> QED BY <1>2, <1>4, <2>1, <2>2, <2>3
<1>11. DB_HEADER_SIZE \in T \cup {End(t)}
  <2>1. CASE DB_HEADER_SIZE < End(t)
    <3>1. DB_HEADER_SIZE \in DB_HEADER_SIZE .. End(t) - 1
      BY <1>1, <2>1, FirstAligned
    <3>2. PICK p \in Taken(s, S) : to[p] <= DB_HEADER_SIZE
      BY <1>5, <3>1
    <3> QED BY <1>2, <1>6, <3>2, FirstAligned
  <2> QED BY <1>1, <2>1, FirstAligned
<1> QED BY <1>1, <1>9, <1>10, <1>11 DEF Tiled, T

(* And their ids are nowhere else.                                         *)
LEMMA MovedNamed ==
  ASSUME NEW s \in Stores, NEW S, Tiled(s, S), Named(s, S), NEW t, NEW to, Moves(t, s, S, to)
  PROVE  Named(t, Landed(s, S, to))
<1> DEFINE T == Landed(s, S, to)
<1>1. \A o \in Taken(s, S) : BlockId(t, to[o]) = BlockId(s, o) /\ BlockId(s, o) \in Ids
  BY MovedSame
<1>2. \A o \in T : \E p \in Taken(s, S) : o = to[p]
  BY DEF Landed
<1>3. \A o \in Taken(s, S) : to[o] \in T
  BY DEF Landed
<1> HIDE DEF T
<1>4. \A o \in T : BlockId(t, o) \in {FREE} \cup Ids
  BY <1>1, <1>2
<1>5. ASSUME NEW o \in T, NEW p \in T, BlockId(t, o) = BlockId(t, p)
      PROVE  o = p
  <2>1. PICK a \in Taken(s, S) : o = to[a]
    BY <1>2
  <2>2. PICK b \in Taken(s, S) : p = to[b]
    BY <1>2
  <2>3. a = b
    <3>1. BlockId(s, a) = BlockId(s, b) /\ BlockId(s, a) # FREE /\ a \in S /\ b \in S
      BY <1>1, <1>5, <2>1, <2>2 DEF Taken
    <3> QED BY <3>1 DEF Named
  <2> QED BY <2>1, <2>2, <2>3
<1>6. ASSUME NEW p \in DB_HEADER_SIZE .. End(t) - 1, Aligned(p), BlockId(t, p) \in Ids
      PROVE  p \in T
  <2>1. PICK o \in Taken(s, S) : to[o] <= p /\ p < to[o] + BlockSize(s, o)
    BY DEF Moves
  <2>2. o \in S /\ o \in Int /\ BlockSize(s, o) \in Nat /\ Aligned(o)
    BY BlockFacts DEF Taken
  <2>3. /\ to[o] \in Int /\ Aligned(to[o]) /\ End(t) \in Int
        /\ \A x \in 0 .. BlockSize(s, o) - 1 : Word(t, to[o] + x) = Word(s, o + x)
    BY FirstAligned DEF Moves, Stores, End
  <2> DEFINE x == p - to[o]
             y == o + x
  <2>4. p \in Int
    BY <2>3, FirstAligned
  <2>5. x \in 0 .. BlockSize(s, o) - 1 /\ to[o] + x = p /\ x \in Int
    BY <2>1, <2>2, <2>3, <2>4
  <2>6. x % 2 = 0
    BY <1>6, <2>3, <2>4, RoomBetween
  <2> HIDE DEF x
  <2>7. Aligned(y) /\ y \in Int
    BY <2>2, <2>5, <2>6, StaysAligned
  <2>8. Word(t, p) = Word(s, y)
    BY <2>3, <2>5
  <2>9. CASE o < y
    <3>1. y < o + BlockSize(s, o)
      BY <2>2, <2>5
    <3> HIDE DEF y
    <3>2. BlockId(s, y) \notin Ids
      BY <2>2, <2>7, <2>9, <3>1, NoneInside
    <3> QED BY <1>6, <2>8, <3>2 DEF BlockId
  <2>10. CASE y = o
    <3>1. p = to[o]
      BY <2>2, <2>3, <2>4, <2>5, <2>10
    <3> QED BY <1>3, <3>1
  <2> QED BY <2>2, <2>5, <2>9, <2>10
<1> QED BY <1>4, <1>5, <1>6 DEF Named, T

(* They hold the same records, and nothing is free.                        *)
LEMMA MovedRecords ==
  ASSUME NEW s \in Stores, NEW S, Tiled(s, S), Named(s, S), NEW t, NEW to, Moves(t, s, S, to)
  PROVE  RecordsIn(t) = RecordsIn(s) /\ Free(t) = {}
<1> DEFINE T == Landed(s, S, to)
           R == RecordsIn(s)
<1>1. t \in Stores /\ Tiled(t, T) /\ Named(t, T)
  BY MovedTiled, MovedNamed DEF Moves
<1>2. \A o \in Taken(s, S) : BlockId(t, to[o]) = BlockId(s, o) /\ BlockId(s, o) \in Ids
  BY MovedSame
<1>3. T = {to[o] : o \in Taken(s, S)}
  BY DEF Landed
<1> HIDE DEF T
<1>4. \A o \in T : BlockId(t, o) # FREE
  BY <1>2, <1>3, IdsAre
<1>5. Taken(t, T) = T
  BY <1>4 DEF Taken
<1>6. Holds(s, S, R)
  BY RecordsAre
<1> HIDE DEF R
<1>7. ASSUME NEW o \in Taken(s, S)
      PROVE  BlockData(t, to[o]) = BlockData(s, o)
  <2>1. o \in S /\ to[o] \in T
    BY <1>3 DEF Taken
  <2>2. /\ DataLen(t, to[o]) = DataLen(s, o)
        /\ \A i \in 1 .. DataLen(s, o) : Word(t, to[o] + 1 + i) = Word(s, o + 1 + i)
    BY MovedSame
  <2> DEFINE p == to[o]
  <2> HIDE DEF p
  <2>3. p \in T /\ DataLen(t, p) = DataLen(s, o)
        /\ \A i \in 1 .. DataLen(s, o) : Word(t, p + 1 + i) = Word(s, o + 1 + i)
    BY <2>1, <2>2 DEF p
  <2>4. BlockData(t, p) = BlockData(s, o)
    BY <1>1, <2>1, <2>3, SameData
  <2> QED BY <2>4 DEF p
<1>8. Holds(t, T, R)
  <2>1. DOMAIN R = {BlockId(s, o) : o \in Taken(s, S)}
    BY <1>6 DEF Holds
  <2>2. {BlockId(t, o) : o \in Taken(t, T)} = {BlockId(s, o) : o \in Taken(s, S)}
    <3>1. \A o \in Taken(s, S) : to[o] \in Taken(t, T) /\ BlockId(t, to[o]) = BlockId(s, o)
      BY <1>2, <1>3, <1>5
    <3>2. \A o \in Taken(t, T) : \E p \in Taken(s, S) : BlockId(t, o) = BlockId(s, p)
      BY <1>2, <1>3, <1>5
    <3>3. ASSUME NEW id \in {BlockId(t, o) : o \in Taken(t, T)}
          PROVE  id \in {BlockId(s, o) : o \in Taken(s, S)}
      <4>1. PICK o \in Taken(t, T) : id = BlockId(t, o)
        OBVIOUS
      <4>2. PICK p \in Taken(s, S) : BlockId(t, o) = BlockId(s, p)
        BY <3>2
      <4> QED BY <4>1, <4>2
    <3>4. ASSUME NEW id \in {BlockId(s, o) : o \in Taken(s, S)}
          PROVE  id \in {BlockId(t, o) : o \in Taken(t, T)}
      <4>1. PICK p \in Taken(s, S) : id = BlockId(s, p)
        OBVIOUS
      <4>2. id = BlockId(t, to[p]) /\ to[p] \in Taken(t, T)
        BY <3>1, <4>1
      <4> QED BY <4>2
    <3> QED BY <3>3, <3>4
  <2>3. ASSUME NEW o \in Taken(t, T)
        PROVE  R[BlockId(t, o)] = BlockData(t, o)
    <3>1. PICK p \in Taken(s, S) : o = to[p]
      BY <1>3, <1>5
    <3>2. R[BlockId(s, p)] = BlockData(s, p)
      BY <1>6 DEF Holds
    <3> QED BY <1>2, <1>7, <3>1, <3>2
  <2>4. R = [id \in DOMAIN R |-> R[id]]
    BY <1>6 DEF Holds
  <2> QED BY <2>1, <2>2, <2>3, <2>4 DEF Holds
<1>9. RecordsIn(t) = R
  BY <1>1, <1>8, RecordsAre
<1>10. Free(t) = {}
  <2>1. FreeIn(t, T) = {}
    BY <1>4 DEF FreeIn
  <2> QED BY <1>1, <2>1, FreeAre
<1> QED BY <1>9, <1>10 DEF R

(* The index follows the blocks that move.                                 *)
LEMMA MovedIndexed ==
  ASSUME NEW s \in Stores, NEW S, Tiled(s, S), Named(s, S), Indexed(s, S),
         NEW t, NEW to, Moves(t, s, S, to), t.lastSeen = NO_OFFSET,
         s.offsets = Null => t.offsets = Null,
         s.offsets # Null =>
           \A id \in Ids :
             \/ /\ t.offsets[id] = s.offsets[id]
                /\ \A o \in Taken(s, S) : BlockId(s, o) = id => to[o] = o
             \/ \E o \in Taken(s, S) : BlockId(s, o) = id /\ t.offsets[id] = to[o]
  PROVE  Indexed(t, Landed(s, S, to))
<1> DEFINE T == Landed(s, S, to)
<1>1. \A o \in Taken(s, S) : BlockId(t, to[o]) = BlockId(s, o) /\ BlockId(s, o) \in Ids /\ o \in S
  BY MovedSame DEF Taken
<1>2. \A o \in T : \E p \in Taken(s, S) : o = to[p]
  BY DEF Landed
<1>3. \A o \in Taken(s, S) : DB_HEADER_SIZE <= to[o] /\ Aligned(to[o])
  BY DEF Moves
<1> HIDE DEF T
<1>4. CASE s.offsets = Null
  BY <1>4 DEF Indexed, T
<1>5. CASE s.offsets # Null
  <2>1. ASSUME NEW id \in Ids
        PROVE  \/ t.offsets[id] = INVALID_OFFSET
               \/ DB_HEADER_SIZE <= t.offsets[id] /\ Aligned(t.offsets[id])
    <3>1. CASE t.offsets[id] = s.offsets[id]
      BY <1>5, <3>1 DEF Indexed
    <3>2. CASE \E o \in Taken(s, S) : t.offsets[id] = to[o]
      BY <1>3, <3>2
    <3> QED BY <1>5, <3>1, <3>2
  <2>2. ASSUME NEW o \in T
        PROVE  t.offsets[BlockId(t, o)] \in {o, INVALID_OFFSET}
    <3>1. PICK p \in Taken(s, S) : o = to[p]
      BY <1>2
    <3> DEFINE id == BlockId(s, p)
    <3>2. BlockId(t, o) = id /\ id \in Ids /\ id # FREE /\ p \in S
      BY <1>1, <3>1, IdsAre
    <3>3. CASE t.offsets[id] = s.offsets[id] /\ to[p] = p
      <4>1. s.offsets[id] \in {p, INVALID_OFFSET}
        BY <1>5, <3>2 DEF Indexed
      <4> QED BY <3>1, <3>2, <3>3, <4>1
    <3>4. CASE \E a \in Taken(s, S) : BlockId(s, a) = id /\ t.offsets[id] = to[a]
      <4>1. PICK a \in Taken(s, S) : BlockId(s, a) = id /\ t.offsets[id] = to[a]
        BY <3>4
      <4>2. a = p
        BY <1>1, <3>2, <4>1 DEF Named
      <4> QED BY <3>1, <3>2, <4>1, <4>2
    <3> QED BY <1>5, <3>2, <3>3, <3>4
  <2> QED BY <2>1, <2>2 DEF Indexed, T
<1> QED BY <1>4, <1>5

(* The words of a block.                                                   *)
LEMMA WordsAre ==
  ASSUME NEW s \in Stores, NEW S, Tiled(s, S), NEW o \in S
  PROVE  /\ Words(s, o, BlockSize(s, o)) \in Seq(Int)
         /\ Len(Words(s, o, BlockSize(s, o))) = BlockSize(s, o)
         /\ \A x \in 0 .. BlockSize(s, o) - 1 : Words(s, o, BlockSize(s, o))[x + 1] = Word(s, o + x)
<1> DEFINE z == BlockSize(s, o)
           a == o - DB_HEADER_SIZE
           m == a + z
<1>1. o \in Int /\ DB_HEADER_SIZE <= o /\ z \in Nat /\ z >= 2 /\ o + z <= End(s) /\ End(s) \in Int
  BY BlockFacts
<1>2. s.file \in Seq(Int) /\ Len(s.file) \in Nat /\ End(s) = DB_HEADER_SIZE + Len(s.file)
  BY SizeOfFile DEF Stores
<1> HIDE DEF z
<1>3. a \in Nat /\ m \in Nat /\ m <= Len(s.file) /\ a + 1 <= m /\ m - a = z
  BY <1>1, <1>2, FirstAligned
<1>4. Words(s, o, z) = SubSeq(s.file, a + 1, m)
  BY DEF Words
<1>5. \A x \in 0 .. z - 1 : Word(s, o + x) = s.file[a + (x + 1)] /\ x + 1 \in 1 .. z
  <2> SUFFICES ASSUME NEW x \in 0 .. z - 1
               PROVE  Word(s, o + x) = s.file[a + (x + 1)] /\ x + 1 \in 1 .. z
    OBVIOUS
  <2>1. (o + x) - DB_HEADER_SIZE + 1 = a + (x + 1)
    BY <1>1, FirstAligned
  <2>2. x + 1 \in 1 .. z
    BY <1>1
  <2> QED BY <2>1, <2>2 DEF Word
<1> HIDE DEF a, m
<1>6. /\ SubSeq(s.file, a + 1, m) \in Seq(Int) /\ Len(SubSeq(s.file, a + 1, m)) = z
      /\ \A i \in 1 .. m - a : SubSeq(s.file, a + 1, m)[i] = s.file[a + i]
  BY <1>2, <1>3, PartIs
<1>7. \A x \in 0 .. z - 1 : SubSeq(s.file, a + 1, m)[x + 1] = s.file[a + (x + 1)]
  BY <1>3, <1>5, <1>6
<1> QED BY <1>4, <1>5, <1>6, <1>7 DEF z

(* f[i] is the words of the first i blocks of q that are not free.         *)
Packs(f, s, q) ==
  /\ f \in [0 .. Len(q) -> Seq(Int)] /\ f[0] = << >>
  /\ \A i \in 1 .. Len(q) :
       /\ BlockId(s, q[i]) = FREE => f[i] = f[i - 1]
       /\ BlockId(s, q[i]) # FREE => Joins(f[i], f[i - 1], Words(s, q[i], BlockSize(s, q[i])))

Grows(f, n) ==
  \A j \in 0 .. n :
    /\ Len(f[j]) \in Nat /\ Len(f[j]) % 2 = 0
    /\ \A i \in 0 .. j : /\ Len(f[i]) \in Nat /\ Len(f[i]) <= Len(f[j])
                         /\ \A k \in 1 .. Len(f[i]) : f[j][k] = f[i][k]

(* They begin with those of fewer blocks.                                  *)
LEMMA PackedGrows ==
  ASSUME NEW s \in Stores, NEW S, Tiled(s, S), Named(s, S),
         NEW q, Lists(q, s, S, DB_HEADER_SIZE), NEW f, Packs(f, s, q)
  PROVE  Grows(f, Len(q))
<1> DEFINE Fine(j) == /\ Len(f[j]) \in Nat /\ Len(f[j]) % 2 = 0
                      /\ \A i \in 0 .. j : /\ Len(f[i]) \in Nat /\ Len(f[i]) <= Len(f[j])
                                           /\ \A k \in 1 .. Len(f[i]) : f[j][k] = f[i][k]
           D == {j \in 0 .. Len(q) : ~ Fine(j)}
<1> SUFFICES \A j \in 0 .. Len(q) : Fine(j)
  BY DEF Grows
<1> HIDE DEF Fine
<1> SUFFICES ASSUME D # {} PROVE FALSE
  OBVIOUS
<1>1. Len(q) \in Nat
  BY DEF Lists
<1>2. D \in SUBSET Nat
  BY <1>1
<1> HIDE DEF D
<1>3. PICK m \in D : \A k \in D : m <= k
  BY <1>2, LeastExists
<1> USE DEF D
<1>4. Fine(0)
  <2>1. f[0] = << >> /\ Len(<< >>) = 0
    BY DEF Packs
  <2> QED BY <2>1 DEF Fine
<1>5. m \in 1 .. Len(q) /\ m - 1 \in 0 .. Len(q) /\ Fine(m - 1)
  BY <1>1, <1>2, <1>3, <1>4
<1>6. q[m] \in S
  BY <1>1, <1>5 DEF Lists
<1>7. CASE BlockId(s, q[m]) = FREE
  <2>1. f[m] = f[m - 1]
    BY <1>5, <1>7 DEF Packs
  <2>2. \A i \in 0 .. m : i \in 0 .. m - 1 \/ i = m
    BY <1>5
  <2>3. Fine(m)
    <3>1. /\ Len(f[m]) \in Nat /\ Len(f[m]) % 2 = 0
          /\ \A i \in 0 .. m - 1 : /\ Len(f[i]) \in Nat /\ Len(f[i]) <= Len(f[m])
                                   /\ \A k \in 1 .. Len(f[i]) : f[m][k] = f[i][k]
      BY <1>5, <2>1 DEF Fine
    <3>2. Len(f[m]) <= Len(f[m])
      BY <3>1
    <3> QED BY <2>2, <3>1, <3>2 DEF Fine
  <2> QED BY <1>3, <2>3
<1>8. CASE BlockId(s, q[m]) # FREE
  <2> DEFINE a == f[m - 1]
             b == f[m]
             w == Words(s, q[m], BlockSize(s, q[m]))
  <2>1. Joins(b, a, w)
    BY <1>5, <1>8 DEF Packs
  <2>2. Len(w) \in Nat /\ Len(w) % 2 = 0
    <3>1. Len(w) = BlockSize(s, q[m])
      BY <1>6, WordsAre
    <3>2. BlockSize(s, q[m]) \in Nat /\ BlockSize(s, q[m]) % 2 = 0
      BY <1>6, BlockFacts
    <3> QED BY <3>1, <3>2
  <2>3. /\ Len(a) \in Nat /\ Len(a) % 2 = 0
        /\ \A i \in 0 .. m - 1 : /\ Len(f[i]) \in Nat /\ Len(f[i]) <= Len(a)
                                 /\ \A k \in 1 .. Len(f[i]) : a[k] = f[i][k]
    BY <1>5 DEF Fine
  <2>4. \A i \in 0 .. m : i \in 0 .. m - 1 \/ i = m
    BY <1>5
  <2> HIDE DEF a, b, w
  <2>5. Len(b) = Len(a) + Len(w) /\ \A k \in 1 .. Len(a) : b[k] = a[k]
    BY <2>1 DEF Joins
  <2>6. Len(b) \in Nat /\ Len(b) % 2 = 0 /\ Len(a) <= Len(b)
    <3> DEFINE x == Len(a)
               y == Len(w)
    <3>1. x \in Nat /\ x % 2 = 0 /\ y \in Nat /\ y % 2 = 0 /\ Len(b) = x + y
      BY <2>2, <2>3, <2>5
    <3> HIDE DEF x, y
    <3>2. x + y \in Nat /\ (x + y) % 2 = 0 /\ x <= x + y
      BY <3>1
    <3> QED BY <3>1, <3>2 DEF x
  <2>7. ASSUME NEW i \in 0 .. m - 1
        PROVE  /\ Len(f[i]) \in Nat /\ Len(f[i]) <= Len(b)
               /\ \A k \in 1 .. Len(f[i]) : b[k] = f[i][k]
    <3> DEFINE n == Len(f[i])
    <3>1. n \in Nat /\ n <= Len(a) /\ Len(a) \in Nat
      BY <2>3
    <3>3. n <= Len(b)
      <4> HIDE DEF n
      <4> QED BY <2>6, <3>1
    <3>2. ASSUME NEW k \in 1 .. Len(f[i])
          PROVE  b[k] = f[i][k]
      <4>1. k \in 1 .. Len(a)
        BY <3>1
      <4> QED BY <2>3, <2>5, <4>1
    <3> QED BY <3>1, <3>2, <3>3
  <2>8. Fine(m)
    <3>1. \A i \in 0 .. m : /\ Len(f[i]) \in Nat /\ Len(f[i]) <= Len(f[m])
                            /\ \A k \in 1 .. Len(f[i]) : f[m][k] = f[i][k]
      <4> SUFFICES ASSUME NEW i \in 0 .. m
                   PROVE  /\ Len(f[i]) \in Nat /\ Len(f[i]) <= Len(f[m])
                          /\ \A k \in 1 .. Len(f[i]) : f[m][k] = f[i][k]
        OBVIOUS
      <4>1. CASE i = m
        <5>1. Len(b) \in Nat /\ Len(b) <= Len(b)
          BY <2>6
        <5> QED BY <4>1, <5>1 DEF b
      <4>2. CASE i \in 0 .. m - 1
        BY <2>7, <4>2 DEF b
      <4> QED BY <2>4, <4>1, <4>2
    <3>2. Len(f[m]) \in Nat /\ Len(f[m]) % 2 = 0
      BY <2>6 DEF b
    <3> QED BY <3>1, <3>2 DEF Fine
  <2> QED BY <1>3, <2>8
<1> QED BY <1>7, <1>8

(* And every word is of one of the blocks.                                 *)
LEMMA PackedFrom ==
  ASSUME NEW q, Len(q) \in Nat, NEW f, f[0] = << >>, \A j \in 0 .. Len(q) : Len(f[j]) \in Nat,
         NEW k \in Nat, k >= 1, k <= Len(f[Len(q)])
  PROVE  \E i \in 1 .. Len(q) : Len(f[i - 1]) < k /\ k <= Len(f[i])
<1> DEFINE D == {i \in 0 .. Len(q) : k <= Len(f[i])}
<1>1. Len(q) \in D /\ D \in SUBSET Nat
  OBVIOUS
<1> HIDE DEF D
<1>2. PICK m \in D : \A i \in D : m <= i
  BY <1>1, LeastExists
<1> USE DEF D
<1>3. Len(<< >>) = 0
  OBVIOUS
<1>4. m # 0
  BY <1>2, <1>3
<1>5. m \in 1 .. Len(q) /\ m - 1 \in 0 .. Len(q)
  BY <1>1, <1>2, <1>4
<1>6. m - 1 \notin D
  BY <1>2, <1>5
<1>7. Len(f[m - 1]) < k
  BY <1>5, <1>6
<1> QED BY <1>2, <1>5, <1>7

(* What compactRecords makes of a store whose blocks are q, with f the     *)
(* words it packs.                                                         *)
NewAt(f, i) == DB_HEADER_SIZE + Len(f[i - 1])
MovedIn(s, q, f, id) ==
  {i \in {i \in DOMAIN q : BlockId(s, q[i]) >= 0 /\ NewAt(f, i) # q[i]} : BlockId(s, q[i]) = id}
NewOffsets(s, q, f) ==
  [id \in Ids |-> IF MovedIn(s, q, f, id) = {} THEN s.offsets[id]
                  ELSE NewAt(f, Max(MovedIn(s, q, f, id)))]
Compacted(s, q, f) ==
  [s EXCEPT !.file = f[Len(q)], !.lastSeen = NO_OFFSET,
            !.offsets = IF @ = Null THEN Null ELSE NewOffsets(s, q, f),
            !.hdr.dataSize = Len(f[Len(q)]), !.saved.dataSize = Len(f[Len(q)]),
            !.hdr.freeSize = 0, !.saved.freeSize = 0]

(* It packs the blocks that are not free, and stops early when there is    *)
(* nothing to do.                                                          *)
LEMMA CompactIs ==
  ASSUME NEW s \in Stores, NEW S, Tiled(s, S), Named(s, S)
  PROVE  \E f : /\ Packs(f, s, AllBlocks(s))
                /\ \/ CompactRecords(s) = s
                   \/ CompactRecords(s) = Compacted(s, AllBlocks(s), f)
<1> DEFINE all == AllBlocks(s)
           N == Len(all)
           part(i) == IF BlockId(s, all[i]) < 0 THEN << >> ELSE Words(s, all[i], BlockSize(s, all[i]))
           F(h) == [i \in 0 .. N |-> IF i = 0 THEN << >> ELSE h[i - 1] \o part(i)]
           packed == CHOOSE h : h = F(h)
<1>1. \/ CompactRecords(s) = s
      \/ CompactRecords(s) = Compacted(s, all, packed)
  BY DEF CompactRecords, Compacted, NewOffsets, MovedIn, NewAt
<1>2. Lists(all, s, S, DB_HEADER_SIZE)
  BY StartsAre
<1> HIDE DEF all
<1>3. N \in Nat /\ \A i \in 1 .. N : all[i] \in S
  BY <1>2 DEF Lists
<1> HIDE DEF N
<1>4. ASSUME NEW i \in 1 .. N
      PROVE  /\ part(i) \in Seq(Int)
             /\ BlockId(s, all[i]) = FREE => part(i) = << >>
             /\ BlockId(s, all[i]) # FREE => part(i) = Words(s, all[i], BlockSize(s, all[i]))
  <2>1. BlockId(s, all[i]) < 0 <=> BlockId(s, all[i]) = FREE
    BY <1>3, IdsAre DEF Named
  <2>2. Words(s, all[i], BlockSize(s, all[i])) \in Seq(Int)
    BY <1>3, WordsAre
  <2>3. << >> \in Seq(Int)
    OBVIOUS
  <2> QED BY <2>1, <2>2, <2>3
<1> HIDE DEF part
<1>5. packed = F(packed) /\ packed \in [0 .. N -> Seq(Int)]
  <2> DEFINE t == [p \in (1 .. N) \X Seq(Int) |-> p[2] \o part(p[1])]
  <2>1. t \in [(1 .. N) \X Seq(Int) -> Seq(Int)]
    BY <1>4
  <2>2. \A i \in 1 .. N, v \in Seq(Int) : t[<<i, v>>] = v \o part(i)
    OBVIOUS
  <2> HIDE DEF t
  <2>3. << >> \in Seq(Int)
    OBVIOUS
  <2>4. PICK g : IsIteration(g, Seq(Int), << >>, N, t)
    BY <1>3, <2>1, <2>3, Iterated, Zenon
  <2>5. g \in [0 .. N -> Seq(Int)] /\ g[0] = << >> /\ \A i \in 1 .. N : g[i] = t[<<i, g[i - 1]>>]
    BY <2>4 DEF IsIteration
  <2>6. ASSUME NEW i \in 1 .. N
        PROVE  g[i] = g[i - 1] \o part(i)
    <3>1. i - 1 \in 0 .. N
      BY <1>3
    <3>2. g[i - 1] \in Seq(Int)
      BY <2>5, <3>1
    <3> QED BY <2>2, <2>5, <3>2
  <2>7. ASSUME NEW i \in 0 .. N
        PROVE  g[i] = IF i = 0 THEN << >> ELSE g[i - 1] \o part(i)
    <3>1. i # 0 => i \in 1 .. N
      BY <1>3
    <3> QED BY <2>5, <2>6, <3>1
  <2>8. g = F(g)
    BY <2>5, <2>7
  <2>9. packed = F(packed)
    <3> HIDE DEF F
    <3> QED BY <2>8
  <2>10. \A h : h = F(h) => h \in [0 .. N -> Seq(Int)]
    <3> SUFFICES ASSUME NEW h, h = F(h) PROVE h \in [0 .. N -> Seq(Int)]
      BY Zenon
    <3>1. DOMAIN h = 0 .. N /\ \A i \in 0 .. N : h[i] = IF i = 0 THEN << >> ELSE h[i - 1] \o part(i)
      OBVIOUS
    <3>2. \A i \in 0 .. N : h[i] = g[i]
      <4> DEFINE D == {i \in 0 .. N : h[i] # g[i]}
      <4> SUFFICES ASSUME D # {} PROVE FALSE
        OBVIOUS
      <4>1. D \in SUBSET Nat
        BY <1>3
      <4> HIDE DEF D
      <4>2. PICK m \in D : \A k \in D : m <= k
        BY <4>1, LeastExists
      <4> USE DEF D
      <4>3. m # 0
        BY <1>3, <2>5, <3>1, <4>2
      <4>4. m \in 1 .. N /\ m - 1 \in 0 .. N /\ m - 1 \notin D
        BY <1>3, <4>1, <4>2, <4>3
      <4>5. h[m - 1] = g[m - 1]
        BY <4>4
      <4> QED BY <2>6, <3>1, <4>2, <4>3, <4>4, <4>5
    <3>3. h = [i \in 0 .. N |-> h[i]]
      BY Zenon
    <3> QED BY <2>5, <3>2, <3>3
  <2> HIDE DEF F, packed
  <2> QED BY <2>9, <2>10
<1>6. \A i \in 0 .. N : packed[i] = IF i = 0 THEN << >> ELSE packed[i - 1] \o part(i)
  <2> HIDE DEF packed
  <2> QED BY <1>5
<1> HIDE DEF packed, F
<1>7. packed[0] = << >> /\ \A i \in 1 .. N : packed[i] = packed[i - 1] \o part(i) /\ packed[i - 1] \in Seq(Int)
  <2>1. 0 \in 0 .. N /\ \A i \in 1 .. N : i \in 0 .. N /\ i # 0 /\ i - 1 \in 0 .. N
    BY <1>3
  <2> QED BY <1>5, <1>6, <2>1
<1>8. ASSUME NEW i \in 1 .. N
      PROVE  /\ BlockId(s, all[i]) = FREE => packed[i] = packed[i - 1]
             /\ BlockId(s, all[i]) # FREE =>
                  Joins(packed[i], packed[i - 1], Words(s, all[i], BlockSize(s, all[i])))
  <2> DEFINE v == packed[i - 1]
             p == part(i)
  <2>1. packed[i] = v \o p /\ v \in Seq(Int) /\ p \in Seq(Int)
    BY <1>4, <1>7
  <2>2. v \o << >> = v
    BY <2>1, Joined
  <2>3. Joins(v \o p, v, p)
    BY <2>1, JoinIs
  <2> QED BY <1>4, <2>1, <2>2, <2>3
<1>9. Packs(packed, s, all)
  BY <1>5, <1>7, <1>8 DEF Packs, N
<1> QED BY <1>1, <1>9 DEF all

(* The packed words are the blocks that are not free, moved.               *)
LEMMA CompactedMoves ==
  ASSUME NEW s \in Stores, NEW S, Tiled(s, S), Named(s, S),
         NEW q, Lists(q, s, S, DB_HEADER_SIZE), NEW f, Packs(f, s, q),
         NEW t \in Stores, t.file = f[Len(q)], t.hdr.dataSize = Len(f[Len(q)]),
         NEW to, \A i \in DOMAIN q : BlockId(s, q[i]) # FREE => to[q[i]] = NewAt(f, i)
  PROVE  Moves(t, s, S, to)
<1> DEFINE N == Len(q)
           P == f[N]
<1>1. /\ N \in Nat /\ DOMAIN q = 1 .. N
      /\ \A i \in 1 .. N : q[i] \in S
      /\ \A o \in S : \E i \in 1 .. N : q[i] = o
      /\ \A i \in 1 .. N, j \in 1 .. N : i < j => q[i] < q[j]
  <2>1. q \in Seq(Int)
    BY DEF Lists
  <2>2. \A o \in S : o >= DB_HEADER_SIZE
    BY FirstAligned DEF Tiled
  <2> QED BY <2>1, <2>2 DEF Lists
<1>2. \A j \in 0 .. N :
        /\ Len(f[j]) \in Nat /\ Len(f[j]) % 2 = 0
        /\ \A i \in 0 .. j : /\ Len(f[i]) \in Nat /\ Len(f[i]) <= Len(f[j])
                             /\ \A k \in 1 .. Len(f[i]) : f[j][k] = f[i][k]
  <2>1. Grows(f, N)
    BY PackedGrows
  <2> QED BY <2>1 DEF Grows
<1>3. \A i \in 1 .. N : BlockId(s, q[i]) # FREE =>
                          Joins(f[i], f[i - 1], Words(s, q[i], BlockSize(s, q[i])))
  BY DEF Packs
<1>4. f[0] = << >> /\ P \in Seq(Int)
  <2>1. N \in 0 .. N
    BY <1>1
  <2> QED BY <2>1 DEF Packs
<1>5. Len(P) \in Nat /\ Len(P) % 2 = 0
  <2>1. N \in 0 .. N
    BY <1>1
  <2> QED BY <1>2, <2>1
<1> HIDE DEF N, P
<1>6. End(t) = DB_HEADER_SIZE + Len(P) /\ t.file = P /\ Len(t.file) = t.hdr.dataSize /\ Aligned(End(t))
  <2>1. End(t) = DB_HEADER_SIZE + Len(P) /\ t.file = P /\ Len(t.file) = t.hdr.dataSize
    BY DEF End, P, N
  <2>2. Aligned(DB_HEADER_SIZE + Len(P))
    <3>1. Len(P) \in Int /\ DB_HEADER_SIZE \in Int /\ Aligned(DB_HEADER_SIZE)
      BY <1>5, FirstAligned
    <3> QED BY <1>5, <3>1, StaysAligned
  <2> QED BY <2>1, <2>2
<1>7. ASSUME NEW i \in 1 .. N, NEW j \in 0 .. N, i <= j
      PROVE  Len(f[i]) <= Len(f[j]) /\ Len(f[i]) \in Nat /\ Len(f[i - 1]) \in Nat /\ Len(f[i - 1]) <= Len(f[j])
             /\ Len(f[i - 1]) % 2 = 0
             /\ \A k \in 1 .. Len(f[i]) : f[j][k] = f[i][k]
  <2>1. i \in 0 .. j /\ i - 1 \in 0 .. j /\ i - 1 \in 0 .. N
    BY <1>1, <1>7
  <2> QED BY <1>2, <2>1
<1>8. ASSUME NEW i \in 1 .. N, BlockId(s, q[i]) # FREE
      PROVE  /\ to[q[i]] = DB_HEADER_SIZE + Len(f[i - 1])
             /\ BlockSize(s, q[i]) \in Nat
             /\ Len(f[i]) = Len(f[i - 1]) + BlockSize(s, q[i])
             /\ to[q[i]] \in Int /\ DB_HEADER_SIZE <= to[q[i]] /\ Aligned(to[q[i]])
             /\ to[q[i]] + BlockSize(s, q[i]) = DB_HEADER_SIZE + Len(f[i])
             /\ to[q[i]] + BlockSize(s, q[i]) <= End(t)
             /\ \A x \in 0 .. BlockSize(s, q[i]) - 1 : Word(t, to[q[i]] + x) = Word(s, q[i] + x)
  <2> DEFINE o == q[i]
             z == BlockSize(s, o)
             w == Words(s, o, z)
             a == f[i - 1]
             b == f[i]
  <2>1. o \in S
    BY <1>1
  <2>2. z \in Nat
    BY <2>1, BlockFacts
  <2>3. w \in Seq(Int) /\ Len(w) = z /\ \A x \in 0 .. z - 1 : w[x + 1] = Word(s, o + x)
    BY <2>1, WordsAre
  <2>4. Joins(b, a, w)
    BY <1>3, <1>8
  <2>5. N \in 0 .. N /\ i <= N
    BY <1>1
  <2>6. Len(b) <= Len(P) /\ Len(b) \in Nat /\ Len(a) \in Nat /\ Len(a) % 2 = 0
        /\ \A k \in 1 .. Len(b) : P[k] = b[k]
    BY <1>7, <2>5 DEF P
  <2>7. to[o] = DB_HEADER_SIZE + Len(a)
    BY <1>1, <1>8 DEF NewAt
  <2> HIDE DEF z, w, a, b, o
  <2>8. Len(b) = Len(a) + z /\ \A k \in 1 .. z : b[Len(a) + k] = w[k]
    BY <2>3, <2>4 DEF Joins
  <2>9. to[o] \in Int /\ DB_HEADER_SIZE <= to[o] /\ to[o] + z = DB_HEADER_SIZE + Len(b) /\ to[o] + z <= End(t)
    BY <1>5, <1>6, <2>2, <2>6, <2>7, <2>8, FirstAligned
  <2>10. Aligned(to[o])
    <3> DEFINE n == Len(a)
    <3>1. n \in Int /\ n % 2 = 0 /\ DB_HEADER_SIZE \in Int /\ Aligned(DB_HEADER_SIZE)
      BY <2>6, FirstAligned
    <3> HIDE DEF n
    <3>2. Aligned(DB_HEADER_SIZE + n)
      BY <3>1, StaysAligned
    <3> QED BY <2>7, <3>2 DEF n
  <2>11. ASSUME NEW x \in 0 .. z - 1
         PROVE  Word(t, to[o] + x) = Word(s, o + x)
    <3> DEFINE k == Len(a) + (x + 1)
    <3>1. (to[o] + x) - DB_HEADER_SIZE + 1 = k /\ k \in 1 .. Len(b) /\ x + 1 \in 1 .. z
      BY <2>2, <2>6, <2>7, <2>8, FirstAligned
    <3>2. b[k] = w[x + 1]
      BY <2>8, <3>1
    <3> HIDE DEF k
    <3>3. P[k] = b[k]
      BY <2>6, <3>1
    <3>4. Word(t, to[o] + x) = P[k]
      BY <1>6, <3>1 DEF Word
    <3> QED BY <2>3, <3>2, <3>3, <3>4
  <2> QED BY <2>2, <2>7, <2>8, <2>9, <2>10, <2>11 DEF o, z, a, b
<1>9. ASSUME NEW o \in Taken(s, S)
      PROVE  \E i \in 1 .. N : q[i] = o /\ BlockId(s, q[i]) # FREE
  BY <1>1 DEF Taken
<1>10. ASSUME NEW o \in Taken(s, S), NEW p \in Taken(s, S), o < p
       PROVE  to[o] + BlockSize(s, o) <= to[p]
  <2>1. PICK i \in 1 .. N : q[i] = o /\ BlockId(s, q[i]) # FREE
    BY <1>9
  <2>2. PICK j \in 1 .. N : q[j] = p /\ BlockId(s, q[j]) # FREE
    BY <1>9
  <2>3. i < j
    <3>1. i # j
      <4>1. o \in Int /\ p \in Int
        BY BlockFacts DEF Taken
      <4>2. o # p
        BY <1>10, <4>1
      <4> QED BY <2>1, <2>2, <4>2
    <3>2. ~ (j < i)
      <4>1. j < i => p < o
        BY <1>1, <2>1, <2>2
      <4>2. o \in Int /\ p \in Int
        BY BlockFacts DEF Taken
      <4> QED BY <1>10, <4>1, <4>2
    <3> QED BY <1>1, <3>1, <3>2
  <2>4. i <= j - 1 /\ j - 1 \in 0 .. N
    BY <1>1, <2>3
  <2>5. Len(f[i]) <= Len(f[j - 1]) /\ Len(f[i]) \in Nat /\ Len(f[j - 1]) \in Nat
    BY <1>2, <1>7, <2>4
  <2>6. to[o] + BlockSize(s, o) = DB_HEADER_SIZE + Len(f[i]) /\ to[p] = DB_HEADER_SIZE + Len(f[j - 1])
    BY <1>8, <2>1, <2>2
  <2> DEFINE x == Len(f[i])
             y == Len(f[j - 1])
  <2>7. DB_HEADER_SIZE + x <= DB_HEADER_SIZE + y
    <3>1. x \in Nat /\ y \in Nat /\ x <= y
      BY <2>5
    <3> HIDE DEF x, y
    <3> QED BY <3>1, FirstAligned
  <2> QED BY <2>6, <2>7
<1>11. ASSUME NEW p \in DB_HEADER_SIZE .. End(t) - 1
       PROVE  \E o \in Taken(s, S) : to[o] <= p /\ p < to[o] + BlockSize(s, o)
  <2> DEFINE k == p - DB_HEADER_SIZE + 1
  <2>1. k \in Nat /\ k >= 1 /\ k <= Len(P) /\ p = DB_HEADER_SIZE + k - 1
    BY <1>5, <1>6, FirstAligned
  <2> HIDE DEF k
  <2>2. PICK i \in 1 .. N : Len(f[i - 1]) < k /\ k <= Len(f[i])
    <3>1. \A j \in 0 .. Len(q) : Len(f[j]) \in Nat
      BY <1>2 DEF N
    <3> QED BY <1>1, <1>4, <2>1, <3>1, PackedFrom DEF N, P
  <2>3. i \in 0 .. N /\ i - 1 \in 0 .. N
    BY <1>1
  <2>4. Len(f[i - 1]) \in Nat /\ Len(f[i]) \in Nat
    BY <1>2, <2>3
  <2>5. BlockId(s, q[i]) # FREE
    <3>1. f[i] # f[i - 1]
      BY <2>1, <2>2, <2>4
    <3> QED BY <3>1 DEF Packs, N
  <2> DEFINE o == q[i]
             x == Len(f[i - 1])
             y == Len(f[i])
  <2>6. o \in Taken(s, S)
    BY <1>1, <2>5 DEF Taken
  <2>7. to[o] = DB_HEADER_SIZE + x /\ to[o] + BlockSize(s, o) = DB_HEADER_SIZE + y
    BY <1>8, <2>5
  <2>8. x \in Nat /\ y \in Nat /\ x < k /\ k <= y
    BY <2>2, <2>4
  <2> HIDE DEF o, x, y
  <2>9. to[o] <= p /\ p < to[o] + BlockSize(s, o)
    BY <2>1, <2>7, <2>8, FirstAligned
  <2> QED BY <2>6, <2>9
<1>12. \A o \in Taken(s, S) : /\ to[o] \in Int /\ DB_HEADER_SIZE <= to[o] /\ Aligned(to[o])
                              /\ to[o] + BlockSize(s, o) <= End(t)
                              /\ \A x \in 0 .. BlockSize(s, o) - 1 : Word(t, to[o] + x) = Word(s, o + x)
  BY <1>8, <1>9
<1> QED BY <1>6, <1>10, <1>11, <1>12 DEF Moves

(* t is a store with the same records as s.                                *)
Keeps(t, s) ==
  /\ Whole(t) /\ t.hdr.nextId = s.hdr.nextId /\ t.hdr.numLive = s.hdr.numLive
  /\ RecordsIn(t) = RecordsIn(s)

(* A header, and a store, of which the file is cut.                        *)
HeaderCut(g, h, n) == g = [h EXCEPT !.dataSize = n, !.freeSize = 0]
StoreCut(t, s, file, offsets, seen, n) ==
  t = [s EXCEPT !.file = file, !.lastSeen = seen, !.offsets = offsets,
                !.hdr.dataSize = n, !.saved.dataSize = n, !.hdr.freeSize = 0, !.saved.freeSize = 0]

(* They are what one would expect.                                         *)
LEMMA CutHeader ==
  ASSUME NEW h \in Headers, NEW n \in Nat, NEW g, HeaderCut(g, h, n)
  PROVE  /\ g \in Headers /\ g.nextId = h.nextId /\ g.numLive = h.numLive
         /\ g.dataSize = n /\ g.freeSize = 0
<1>1. g.nextId = h.nextId /\ g.numLive = h.numLive /\ g.dataSize = n /\ g.freeSize = 0
  BY DEF Headers, HeaderCut
<1>2. g = [nextId |-> g.nextId, numLive |-> g.numLive, dataSize |-> g.dataSize,
           freeSize |-> g.freeSize]
  BY DEF Headers, HeaderCut
<1> QED BY <1>1, <1>2 DEF Headers

(* The store has a header and an index that fit.                           *)
LEMMA CutStore ==
  ASSUME NEW s \in Stores, s.saved = s.hdr, NEW file \in Seq(Int), NEW size \in Nat,
         NEW offsets \in {Null} \cup [Ids -> Int], NEW seen \in Int,
         NEW h \in Headers, HeaderCut(h, s.hdr, size),
         NEW t, StoreCut(t, s, file, offsets, seen, size)
  PROVE  /\ t \in Stores /\ t.file = file /\ t.hdr = h /\ t.saved = t.hdr /\ t.offsets = offsets
         /\ t.lastSeen = seen
<1>1. t.hdr = h /\ t.saved = h
  BY DEF Stores, Headers, HeaderCut, StoreCut
<1>2. t.file = file /\ t.offsets = offsets /\ t.lastSeen = seen
  BY DEF Stores, StoreCut
<1>3. t = [file |-> t.file, hdr |-> t.hdr, saved |-> t.saved, offsets |-> t.offsets,
           lastSeen |-> t.lastSeen]
  BY DEF Stores, StoreCut
<1> QED BY <1>1, <1>2, <1>3 DEF Stores

(* Compacting keeps the records.                                           *)
LEMMA CompactKeeps ==
  ASSUME NEW s, Whole(s)
  PROVE  Keeps(CompactRecords(s), s)
<1> DEFINE S == Starts(s)
           q == AllBlocks(s)
<1>1. /\ s \in Stores /\ Tiled(s, S) /\ Named(s, S) /\ Indexed(s, S) /\ s.saved = s.hdr
      /\ s.hdr \in Headers
  BY WholeIs DEF Good
<1>2. Lists(q, s, S, DB_HEADER_SIZE)
  BY <1>1, StartsAre
<1>3. CASE CompactRecords(s) = s
  BY <1>3 DEF Keeps
<1>4. CASE CompactRecords(s) # s
  <2>1. PICK f : Packs(f, s, q) /\ CompactRecords(s) = Compacted(s, q, f)
    BY <1>1, <1>4, CompactIs
  <2> HIDE DEF S, q
  <2> DEFINE N == Len(q)
             P == f[N]
             o2 == IF s.offsets = Null THEN Null ELSE NewOffsets(s, q, f)
             h2 == [s.hdr EXCEPT !.dataSize = Len(P), !.freeSize = 0]
             t == Compacted(s, q, f)
             to == [o \in Taken(s, S) |-> NewAt(f, CHOOSE i \in 1 .. N : q[i] = o)]
  <2>2. /\ N \in Nat /\ DOMAIN q = 1 .. N /\ \A i \in 1 .. N : q[i] \in S /\ q[i] \in Int
        /\ \A i \in 1 .. N, j \in 1 .. N : i < j => q[i] < q[j]
        /\ \A o \in S : \E i \in 1 .. N : q[i] = o
    <3>1. q \in Seq(Int)
      BY <1>2 DEF Lists
    <3>2. \A o \in S : o >= DB_HEADER_SIZE
      BY <1>1, FirstAligned DEF Tiled
    <3> QED BY <1>2, <3>1, <3>2 DEF Lists
  <2>3. P \in Seq(Int) /\ Len(P) \in Nat
    <3>1. N \in 0 .. N
      BY <2>2
    <3>2. P \in Seq(Int)
      BY <2>1, <3>1 DEF Packs
    <3> QED BY <3>2
  <2>4. ASSUME NEW i \in 1 .. N, NEW j \in 1 .. N, q[i] = q[j]
        PROVE  i = j
    <3>1. ~ (i < j) /\ ~ (j < i)
      <4>1. q[i] \in Int /\ q[j] \in Int
        BY <2>2
      <4>2. ~ (q[i] < q[j]) /\ ~ (q[j] < q[i])
        BY <2>4, <4>1
      <4> QED BY <2>2, <4>2
    <3> QED BY <2>2, <3>1
  <2>5. \A i \in DOMAIN q : BlockId(s, q[i]) # FREE => to[q[i]] = NewAt(f, i) /\ q[i] \in Taken(s, S)
    <3> SUFFICES ASSUME NEW i \in 1 .. N, BlockId(s, q[i]) # FREE
                 PROVE  to[q[i]] = NewAt(f, i) /\ q[i] \in Taken(s, S)
      BY <2>2
    <3>1. q[i] \in Taken(s, S)
      BY <2>2 DEF Taken
    <3>2. (CHOOSE j \in 1 .. N : q[j] = q[i]) = i
      BY <2>4
    <3> QED BY <3>1, <3>2
  <2>6. h2 \in Headers /\ h2.nextId = s.hdr.nextId /\ h2.numLive = s.hdr.numLive
        /\ h2.dataSize = Len(P) /\ h2.freeSize = 0
    <3> HIDE DEF P
    <3> DEFINE n == Len(P)
    <3>1. n \in Nat
      BY <2>3
    <3> HIDE DEF n
    <3>2. HeaderCut(h2, s.hdr, n)
      BY DEF HeaderCut, n
    <3> HIDE DEF h2
    <3>3. s.hdr \in Headers
      BY <1>1
    <3>4. /\ h2 \in Headers /\ h2.nextId = s.hdr.nextId /\ h2.numLive = s.hdr.numLive
          /\ h2.dataSize = n /\ h2.freeSize = 0
      BY <3>1, <3>2, <3>3, CutHeader
    <3> QED BY <3>4 DEF n
  <2>7. \A id \in Ids : \A i \in MovedIn(s, q, f, id) :
          /\ i \in 1 .. N /\ q[i] \in S /\ BlockId(s, q[i]) = id /\ BlockId(s, q[i]) # FREE
          /\ q[i] \in Taken(s, S)
    BY <2>2, IdsAre DEF MovedIn, Taken
  <2>8. ASSUME NEW id \in Ids, MovedIn(s, q, f, id) # {}
        PROVE  \E i \in 1 .. N : /\ Max(MovedIn(s, q, f, id)) = i /\ q[i] \in Taken(s, S)
                                 /\ BlockId(s, q[i]) = id
    <3> DEFINE M == MovedIn(s, q, f, id)
    <3>1. PICK i \in M : TRUE
      BY <2>8
    <3>2. i \in 1 .. N /\ q[i] \in Taken(s, S) /\ BlockId(s, q[i]) = id
      BY <2>7, <3>1
    <3>3. \A j \in M : j = i
      <4> SUFFICES ASSUME NEW j \in M PROVE j = i
        OBVIOUS
      <4>1. /\ i \in 1 .. N /\ j \in 1 .. N /\ q[i] \in S /\ q[j] \in S
            /\ BlockId(s, q[i]) = BlockId(s, q[j]) /\ BlockId(s, q[i]) # FREE
        BY <2>7
      <4>2. q[i] = q[j]
        BY <1>1, <4>1 DEF Named
      <4> QED BY <2>4, <4>1, <4>2
    <3> HIDE DEF M
    <3>4. M \in SUBSET Int /\ \A j \in M : i >= j
      <4>1. i \in Int
        BY <3>2
      <4> QED BY <3>3, <4>1
    <3>5. Max(M) = i
      BY <3>1, <3>4, MaxIs
    <3> QED BY <3>2, <3>5 DEF M
  <2>9. ASSUME NEW id \in Ids, s.offsets # Null
        PROVE  \/ /\ NewOffsets(s, q, f)[id] = s.offsets[id]
                  /\ \A o \in Taken(s, S) : BlockId(s, o) = id => to[o] = o
               \/ \E o \in Taken(s, S) : BlockId(s, o) = id /\ NewOffsets(s, q, f)[id] = to[o]
    <3>1. NewOffsets(s, q, f)[id] = IF MovedIn(s, q, f, id) = {} THEN s.offsets[id]
                                    ELSE NewAt(f, Max(MovedIn(s, q, f, id)))
      BY DEF NewOffsets
    <3>2. CASE MovedIn(s, q, f, id) = {}
      <4>1. ASSUME NEW o \in Taken(s, S), BlockId(s, o) = id
            PROVE  to[o] = o
        <5>1. PICK i \in 1 .. N : q[i] = o
          BY <2>2 DEF Taken
        <5>2. BlockId(s, q[i]) = id /\ BlockId(s, q[i]) # FREE /\ BlockId(s, q[i]) >= 0
          BY <4>1, <5>1, IdsAre DEF Taken
        <5>3. NewAt(f, i) = q[i]
          BY <2>2, <3>2, <5>2 DEF MovedIn
        <5>4. to[q[i]] = NewAt(f, i)
          BY <2>2, <2>5, <5>2
        <5> QED BY <5>1, <5>3, <5>4
      <4> QED BY <3>1, <3>2, <4>1
    <3>3. CASE MovedIn(s, q, f, id) # {}
      <4>1. PICK i \in 1 .. N : /\ Max(MovedIn(s, q, f, id)) = i /\ q[i] \in Taken(s, S)
                                /\ BlockId(s, q[i]) = id
        BY <2>8, <3>3
      <4>2. to[q[i]] = NewAt(f, i)
        BY <2>2, <2>5, <4>1 DEF Taken
      <4> QED BY <3>1, <3>3, <4>1, <4>2
    <3> QED BY <3>2, <3>3
  <2> HIDE DEF to
  <2>10. o2 \in {Null} \cup [Ids -> Int]
    <3>1. ASSUME NEW id \in Ids, s.offsets # Null
          PROVE  NewOffsets(s, q, f)[id] \in Int
      <4>1. s.offsets \in [Ids -> Int]
        BY <1>1, <3>1 DEF Stores
      <4>2. CASE NewOffsets(s, q, f)[id] = s.offsets[id]
        BY <4>1, <4>2
      <4>3. CASE \E i \in 1 .. N : NewOffsets(s, q, f)[id] = NewAt(f, i)
        <5>1. PICK i \in 1 .. N : NewOffsets(s, q, f)[id] = NewAt(f, i)
          BY <4>3
        <5>2. i - 1 \in 0 .. N
          BY <2>2
        <5>3. f[i - 1] \in Seq(Int)
          BY <2>1, <5>2 DEF Packs
        <5> DEFINE n == Len(f[i - 1])
        <5>4. n \in Nat
          BY <5>3
        <5>5. NewAt(f, i) = DB_HEADER_SIZE + n
          BY DEF NewAt
        <5> HIDE DEF n
        <5> QED BY <5>1, <5>4, <5>5, FirstAligned
      <4>4. NewOffsets(s, q, f)[id] = IF MovedIn(s, q, f, id) = {} THEN s.offsets[id]
                                      ELSE NewAt(f, Max(MovedIn(s, q, f, id)))
        BY DEF NewOffsets
      <4> QED BY <2>8, <4>2, <4>3, <4>4
    <3>2. CASE s.offsets = Null
      BY <3>2
    <3>3. CASE s.offsets # Null
      <4>1. NewOffsets(s, q, f) = [id \in Ids |-> NewOffsets(s, q, f)[id]]
        BY DEF NewOffsets
      <4>2. NewOffsets(s, q, f) \in [Ids -> Int]
        BY <3>1, <3>3, <4>1
      <4> QED BY <3>3, <4>2
    <3> QED BY <3>2, <3>3
  <2>11. t = [s EXCEPT !.file = P, !.lastSeen = NO_OFFSET, !.offsets = o2,
                       !.hdr.dataSize = Len(P), !.saved.dataSize = Len(P),
                       !.hdr.freeSize = 0, !.saved.freeSize = 0]
    BY DEF Compacted
  <2> HIDE DEF P, o2, h2, t
  <2>12. /\ t \in Stores /\ t.file = P /\ t.hdr = h2 /\ t.saved = t.hdr /\ t.offsets = o2
         /\ t.lastSeen = NO_OFFSET
    <3>1. NO_OFFSET \in Int
      BY DEF NO_OFFSET
    <3> DEFINE n == Len(P)
    <3>3. n \in Nat
      BY <2>3
    <3>4. HeaderCut(h2, s.hdr, n)
      BY DEF HeaderCut, h2
    <3>5. StoreCut(t, s, P, o2, NO_OFFSET, n)
      BY <2>11 DEF StoreCut
    <3> HIDE DEF n
    <3>6. s \in Stores /\ s.saved = s.hdr /\ P \in Seq(Int) /\ h2 \in Headers
      BY <1>1, <2>3, <2>6
    <3> QED BY <2>10, <3>1, <3>3, <3>4, <3>5, <3>6, CutStore
  <2>13. Moves(t, s, S, to)
    <3>1. t.file = f[Len(q)] /\ t.hdr.dataSize = Len(f[Len(q)])
      BY <2>6, <2>12 DEF P
    <3>2. \A i \in DOMAIN q : BlockId(s, q[i]) # FREE => to[q[i]] = NewAt(f, i)
      BY <2>5
    <3> QED BY <1>1, <1>2, <2>1, <2>12, <3>1, <3>2, CompactedMoves
  <2> DEFINE T == Landed(s, S, to)
  <2>14. Tiled(t, T) /\ Named(t, T) /\ RecordsIn(t) = RecordsIn(s) /\ Free(t) = {}
    BY <1>1, <2>13, MovedTiled, MovedNamed, MovedRecords
  <2>15. Indexed(t, T)
    <3>1. s.offsets = Null => t.offsets = Null
      BY <2>12 DEF o2
    <3>2. s.offsets # Null => t.offsets = NewOffsets(s, q, f)
      BY <2>12 DEF o2
    <3>3. s.offsets # Null =>
            \A id \in Ids :
              \/ /\ t.offsets[id] = s.offsets[id]
                 /\ \A o \in Taken(s, S) : BlockId(s, o) = id => to[o] = o
              \/ \E o \in Taken(s, S) : BlockId(s, o) = id /\ t.offsets[id] = to[o]
      BY <2>9, <3>2
    <3> QED BY <1>1, <2>12, <2>13, <3>1, <3>3, MovedIndexed
  <2> HIDE DEF T
  <2>16. Whole(t)
    <3>1. Good(t, T)
      BY <2>12, <2>14, <2>15 DEF Good
    <3>2. Cardinality(Free(t)) = 0
      BY <2>14, FS_EmptySet
    <3>3. t.hdr.freeSize >= Cardinality(Free(t))
      BY <2>6, <2>12, <3>2
    <3> QED BY <3>1, <3>3, WholeIs
  <2>17. CompactRecords(s) = t
    BY <2>1 DEF t
  <2> QED BY <2>6, <2>12, <2>14, <2>16, <2>17 DEF Keeps
<1> QED BY <1>3, <1>4

-----------------------------------------------------------------------------
(* The methods, from one whole store to the next.                          *)

(* A store with other counts in its header, or another index, has the same *)
(* blocks.                                                                 *)
LEMMA Restated ==
  ASSUME NEW s, Whole(s), NEW t \in Stores, SameWords(t, s), t.saved = t.hdr,
         t.hdr.freeSize = s.hdr.freeSize, Indexed(t, Starts(s))
  PROVE  Whole(t) /\ RecordsIn(t) = RecordsIn(s)
<1> DEFINE S == Starts(s)
<1>1. /\ s \in Stores /\ Tiled(s, S) /\ Named(s, S) /\ s.hdr.freeSize >= Cardinality(Free(s))
  BY WholeIs
<1>2. Indexed(t, S)
  OBVIOUS
<1> HIDE DEF S
<1>3. Tiled(t, S) /\ Named(t, S) /\ Free(t) = Free(s) /\ RecordsIn(t) = RecordsIn(s)
  BY <1>1, SameBlocks
<1>4. Good(t, S)
  BY <1>2, <1>3 DEF Good
<1>5. t.hdr.freeSize >= Cardinality(Free(t))
  BY <1>1, <1>3
<1>6. Whole(t)
  BY <1>4, <1>5, WholeIs
<1> QED BY <1>3, <1>6

(* The records of a store and its blocks.                                  *)
LEMMA RecordIsBlock ==
  ASSUME NEW s, Whole(s)
  PROVE  /\ \A o \in Taken(s, Starts(s)) : /\ BlockId(s, o) \in DOMAIN RecordsIn(s)
                                           /\ RecordsIn(s)[BlockId(s, o)] = BlockData(s, o)
         /\ \A id \in Ids : id \notin DOMAIN RecordsIn(s) =>
                              \A o \in Starts(s) : BlockId(s, o) # id
         /\ \A id \in Ids : (\A o \in Starts(s) : BlockId(s, o) # id) =>
                              id \notin DOMAIN RecordsIn(s)
         /\ DOMAIN RecordsIn(s) \subseteq Ids
         /\ DOMAIN RecordsIn(s) = {BlockId(s, o) : o \in Taken(s, Starts(s))}
         /\ RecordsIn(s) = [id \in DOMAIN RecordsIn(s) |-> RecordsIn(s)[id]]
         /\ Live(s) = Taken(s, Starts(s))
<1> DEFINE S == Starts(s)
<1>1. s \in Stores /\ Tiled(s, S) /\ Named(s, S)
  BY WholeIs
<1>2. Live(s) = Taken(s, S) /\ Holds(s, S, RecordsIn(s))
  BY <1>1, RecordsAre
<1> HIDE DEF S
<1>3. /\ DOMAIN RecordsIn(s) = {BlockId(s, o) : o \in Taken(s, S)}
      /\ \A o \in Taken(s, S) : RecordsIn(s)[BlockId(s, o)] = BlockData(s, o)
      /\ RecordsIn(s) = [id \in DOMAIN RecordsIn(s) |-> RecordsIn(s)[id]]
  BY <1>2 DEF Holds
<1>4. \A o \in Taken(s, S) : BlockId(s, o) \in Ids /\ o \in S
  BY <1>1 DEF Taken, Named
<1>5. \A id \in Ids : \A o \in S : BlockId(s, o) = id => o \in Taken(s, S)
  BY IdsAre DEF Taken
<1>6. \A o \in Taken(s, S) : BlockId(s, o) \in DOMAIN RecordsIn(s)
  BY <1>3
<1>7. \A id \in DOMAIN RecordsIn(s) : \E o \in Taken(s, S) : id = BlockId(s, o)
  BY <1>3
<1> QED BY <1>2, <1>3, <1>4, <1>5, <1>6, <1>7 DEF S

(* h is what getRecordHeader finds in the store s: where the record is, or *)
(* that there is none.                                                     *)
Finds(h, s, id) ==
  /\ Keeps(h.rs, s) /\ h.rs.hdr = s.hdr
  /\ \/ /\ h.at # INVALID_OFFSET /\ h.at \in Taken(h.rs, Starts(h.rs)) /\ BlockId(h.rs, h.at) = id
        /\ h.rs.offsets \in [Ids -> Int]
     \/ h.at = INVALID_OFFSET /\ id \notin DOMAIN RecordsIn(s)

(* Which getRecordHeader does.                                             *)
LEMMA GetRecordHeaderOf ==
  ASSUME NEW s, Whole(s), NEW id \in Ids
  PROVE  Finds(GetRecordHeader(s, id), s, id)
<1> DEFINE S == Starts(s)
           h == GetRecordHeader(s, id)
<1>1. /\ Good(s, S) /\ s \in Stores /\ Tiled(s, S) /\ Named(s, S)
      /\ s.hdr.freeSize >= Cardinality(Free(s))
  BY WholeIs
<1> HIDE DEF S, h
<1>2. Found(h, s, S, id)
  BY <1>1, GetRecordHeaderFinds DEF h
<1>3. SameFile(h.rs, s) /\ Good(h.rs, S) /\ h.rs \in Stores /\ SameWords(h.rs, s)
  BY <1>2 DEF Found, Good, SameFile, SameWords
<1>4. /\ Starts(h.rs) = S /\ Free(h.rs) = Free(s) /\ RecordsIn(h.rs) = RecordsIn(s)
      /\ \A o : BlockId(h.rs, o) = BlockId(s, o)
  BY <1>1, <1>3, SameBlocks
<1>5. h.rs.hdr = s.hdr
  BY <1>3 DEF SameFile
<1>6. Whole(h.rs)
  BY <1>1, <1>3, <1>4, <1>5, WholeIs
<1>7. Keeps(h.rs, s)
  BY <1>4, <1>5, <1>6 DEF Keeps
<1>8. CASE h.at \in S /\ BlockId(s, h.at) = id /\ h.at # INVALID_OFFSET /\ h.rs.offsets \in [Ids -> Int]
  <2>1. h.at \in Taken(h.rs, Starts(h.rs)) /\ BlockId(h.rs, h.at) = id
    BY <1>4, <1>8, IdsAre DEF Taken
  <2> QED BY <1>5, <1>7, <1>8, <2>1 DEF Finds, h
<1>9. CASE h.at = INVALID_OFFSET /\ \A o \in S : BlockId(s, o) # id
  <2>1. id \notin DOMAIN RecordsIn(s)
    BY <1>9, RecordIsBlock DEF S
  <2> QED BY <1>5, <1>7, <1>9, <2>1 DEF Finds, h
<1> QED BY <1>2, <1>8, <1>9 DEF Found

(* A record that is not there yet is added.                                *)
LEMMA AddBlockPuts ==
  ASSUME PlainData, NEW s, Whole(s), NEW id \in Ids, id \notin DOMAIN RecordsIn(s), NEW data \in Data
  PROVE  Puts(AddBlock(s, id, data), s, id, data)
<1> DEFINE S == Starts(s)
           o == GetFreeBlock(s, Len(data))
<1>1. s \in Stores /\ Tiled(s, S) /\ Named(s, S)
  BY WholeIs
<1>2. \A p \in S : BlockId(s, p) # id
  BY RecordIsBlock
<1>3. CASE Reuses(s, data)
  <2>1. o # 0
    BY <1>3 DEF Reuses
  <2>2. o \in S /\ BlockId(s, o) = FREE /\ CalculateBlockSize(Len(data)) <= BlockSize(s, o)
    <3> DEFINE n == Len(data)
    <3> HIDE DEF n, S
    <3>1. \/ GetFreeBlock(s, n) = 0
          \/ /\ GetFreeBlock(s, n) \in S
             /\ BlockId(s, GetFreeBlock(s, n)) = FREE
             /\ CalculateBlockSize(n) <= BlockSize(s, GetFreeBlock(s, n))
      BY <1>1, GetFreeBlockIs
    <3> QED BY <2>1, <3>1 DEF n
  <2>3. AddBlock(s, id, data) = SplitBlock(s, o, id, DataLen(s, o), data)
    BY <1>3 DEF AddBlock
  <2> HIDE DEF o
  <2>4. Puts(SplitBlock(s, o, id, DataLen(s, o), data), s, id, data)
    BY <1>2, <2>2, SplitBlockPuts
  <2> QED BY <2>3, <2>4
<1>4. CASE ~ Reuses(s, data)
  <2> DEFINE t == IF GetSizeAvailable(s) < CalculateBlockSize(Len(data)) THEN CompactRecords(s) ELSE s
  <2>1. AddBlock(s, id, data) = AppendBlock(t, id, data)
    BY <1>4 DEF AddBlock
  <2>2. Keeps(t, s)
    <3>1. Keeps(s, s) /\ Keeps(CompactRecords(s), s)
      BY CompactKeeps DEF Keeps
    <3> QED BY <3>1
  <2> HIDE DEF t
  <2>3. Whole(t) /\ RecordsIn(t) = RecordsIn(s) /\ t.hdr.nextId = s.hdr.nextId /\ t.hdr.numLive = s.hdr.numLive
    BY <2>2 DEF Keeps
  <2>4. \A p \in Starts(t) : BlockId(t, p) # id
    BY <2>3, RecordIsBlock
  <2>5. Puts(AppendBlock(t, id, data), t, id, data)
    BY <2>3, <2>4, AppendBlockPuts
  <2> QED BY <2>1, <2>3, <2>5 DEF Puts
<1> QED BY <1>3, <1>4

(* A store that is forgotten keeps its records: they are in the file.      *)
LEMMA ForgottenKeeps ==
  ASSUME NEW s, Whole(s)
  PROVE  Keeps(Forgotten(s), s)
<1> DEFINE t == Forgotten(s)
<1>1. s \in Stores /\ s.saved = s.hdr
  BY WholeIs DEF Good
<1>2. NO_OFFSET \in Int
  BY DEF NO_OFFSET
<1>3. /\ t.file = s.file /\ t.hdr = s.hdr /\ t.saved = s.hdr /\ t.offsets = Null
      /\ t.lastSeen = NO_OFFSET /\ t \in Stores
  BY <1>1, <1>2 DEF Forgotten, Stores
<1> HIDE DEF t
<1>4. Indexed(t, Starts(s))
  BY <1>3 DEF Indexed
<1>5. SameWords(t, s) /\ t.saved = t.hdr /\ t.hdr.freeSize = s.hdr.freeSize
  BY <1>3 DEF SameWords
<1>6. Whole(t) /\ RecordsIn(t) = RecordsIn(s)
  BY <1>3, <1>4, <1>5, Restated
<1> QED BY <1>3, <1>6 DEF Keeps, t

(* t is s with other counts in its header, and in the file.                *)
Recounted(t, s, n, m) ==
  t = [s EXCEPT !.hdr.nextId = n, !.saved.nextId = n, !.hdr.numLive = m, !.saved.numLive = m]

(* It has the same blocks.                                                 *)
LEMMA RecountedWhole ==
  ASSUME NEW s, Whole(s), NEW n \in Nat, NEW m \in Int, NEW t, Recounted(t, s, n, m)
  PROVE  /\ Whole(t) /\ RecordsIn(t) = RecordsIn(s)
         /\ t.hdr.nextId = n /\ t.hdr.numLive = m
<1>1. /\ s \in Stores /\ s.saved = s.hdr /\ s.hdr \in Headers /\ Indexed(s, Starts(s))
      /\ s.saved \in Headers
  BY WholeIs DEF Good
<1>2. /\ t.file = s.file /\ t.offsets = s.offsets /\ t.lastSeen = s.lastSeen
      /\ t.hdr.nextId = n /\ t.hdr.numLive = m
      /\ t.hdr.dataSize = s.hdr.dataSize /\ t.hdr.freeSize = s.hdr.freeSize
      /\ t.saved = t.hdr
  BY <1>1 DEF Recounted, Stores, Headers
<1>3. t.hdr = [nextId |-> n, numLive |-> m, dataSize |-> s.hdr.dataSize, freeSize |-> s.hdr.freeSize]
  BY <1>1 DEF Recounted, Stores, Headers
<1>4. t.hdr \in Headers
  BY <1>1, <1>3 DEF Headers
<1>5. t = [file |-> t.file, hdr |-> t.hdr, saved |-> t.saved, offsets |-> t.offsets,
           lastSeen |-> t.lastSeen]
  BY <1>1 DEF Recounted, Stores
<1>6. t \in Stores
  BY <1>1, <1>2, <1>4, <1>5 DEF Stores
<1>7. Indexed(t, Starts(s))
  <2> DEFINE S == Starts(s)
  <2> HIDE DEF S
  <2>1. \A o : BlockId(t, o) = BlockId(s, o)
    BY <1>2 DEF BlockId, Word
  <2>2. Indexed(t, S)
    BY <1>1, <1>2, <2>1 DEF Indexed, S
  <2> QED BY <2>2 DEF S
<1>8. SameWords(t, s)
  BY <1>2 DEF SameWords
<1>9. Whole(t) /\ RecordsIn(t) = RecordsIn(s)
  BY <1>2, <1>6, <1>7, <1>8, Restated
<1> QED BY <1>2, <1>9

(* t is s with the index told that there is no record id.                  *)
Untold(t, s, id, m) ==
  t = [s EXCEPT !.offsets[id] = INVALID_OFFSET, !.hdr.numLive = m, !.saved.numLive = m]

(* It has the same blocks.                                                 *)
LEMMA UntoldWhole ==
  ASSUME NEW s, Whole(s), NEW id \in Ids, NEW m \in Int, s.offsets \in [Ids -> Int],
         NEW t, Untold(t, s, id, m)
  PROVE  /\ Whole(t) /\ RecordsIn(t) = RecordsIn(s)
         /\ t.hdr.nextId = s.hdr.nextId /\ t.hdr.numLive = m
<1>1. /\ s \in Stores /\ s.saved = s.hdr /\ s.hdr \in Headers /\ Indexed(s, Starts(s))
      /\ s.saved \in Headers
  BY WholeIs DEF Good
<1>2. /\ t.file = s.file /\ t.offsets = [s.offsets EXCEPT ![id] = INVALID_OFFSET]
      /\ t.lastSeen = s.lastSeen
      /\ t.hdr.nextId = s.hdr.nextId /\ t.hdr.numLive = m
      /\ t.hdr.dataSize = s.hdr.dataSize /\ t.hdr.freeSize = s.hdr.freeSize
      /\ t.saved = t.hdr
  BY <1>1 DEF Untold, Stores, Headers
<1>3. t.hdr = [nextId |-> s.hdr.nextId, numLive |-> m, dataSize |-> s.hdr.dataSize,
               freeSize |-> s.hdr.freeSize]
  BY <1>1 DEF Untold, Stores, Headers
<1>4. t.hdr \in Headers
  BY <1>1, <1>3 DEF Headers
<1>5. t = [file |-> t.file, hdr |-> t.hdr, saved |-> t.saved, offsets |-> t.offsets,
           lastSeen |-> t.lastSeen]
  BY <1>1 DEF Untold, Stores
<1>6. /\ t.offsets \in [Ids -> Int]
      /\ \A i \in Ids : t.offsets[i] = IF i = id THEN INVALID_OFFSET ELSE s.offsets[i]
  BY <1>2 DEF INVALID_OFFSET
<1>7. t \in Stores
  BY <1>1, <1>2, <1>4, <1>5, <1>6 DEF Stores
<1>8. Indexed(t, Starts(s))
  <2> DEFINE S == Starts(s)
  <2>1. Named(s, S) /\ Indexed(s, S)
    BY <1>1, WholeIs
  <2> HIDE DEF S
  <2>2. \A o : BlockId(t, o) = BlockId(s, o)
    BY <1>2 DEF BlockId, Word
  <2>3. s.offsets # Null
    BY Layout
  <2>4. \A o \in S : BlockId(s, o) # FREE => BlockId(s, o) \in Ids
    BY <2>1 DEF Named
  <2>5. \A i \in Ids : \/ t.offsets[i] = INVALID_OFFSET
                       \/ DB_HEADER_SIZE <= t.offsets[i] /\ Aligned(t.offsets[i])
    BY <1>6, <2>1, <2>3 DEF Indexed
  <2>6. \A o \in S : BlockId(t, o) # FREE => t.offsets[BlockId(t, o)] \in {o, INVALID_OFFSET}
    BY <1>6, <2>1, <2>2, <2>3, <2>4 DEF Indexed
  <2>7. t.lastSeen \in {NO_OFFSET} \cup S
    BY <1>2, <2>1 DEF Indexed
  <2>8. Indexed(t, S)
    BY <2>5, <2>6, <2>7 DEF Indexed
  <2> QED BY <2>8 DEF S
<1>9. SameWords(t, s)
  BY <1>2 DEF SameWords
<1>10. Whole(t) /\ RecordsIn(t) = RecordsIn(s)
  BY <1>2, <1>7, <1>8, <1>9, Restated
<1> QED BY <1>2, <1>10

-----------------------------------------------------------------------------
(* Numbers of records.                                                     *)

(* Records that were given out can be counted, and the next is not one.    *)
LEMMA SoundCounts ==
  ASSUME NEW s, Sound(s)
  PROVE  /\ Whole(s) /\ s.hdr \in Headers /\ s.saved = s.hdr
         /\ s.hdr.nextId \in Nat /\ s.hdr.numLive \in Int
         /\ IsFiniteSet(DOMAIN RecordsIn(s)) /\ Cardinality(DOMAIN RecordsIn(s)) \in Nat
         /\ s.hdr.numLive >= Cardinality(DOMAIN RecordsIn(s))
         /\ s.hdr.nextId \notin DOMAIN RecordsIn(s)
         /\ DOMAIN RecordsIn(s) \subseteq 1 .. s.hdr.nextId - 1
         /\ DOMAIN RecordsIn(s) \subseteq Ids
<1> DEFINE D == DOMAIN RecordsIn(s)
<1>1. /\ Whole(s) /\ s.hdr \in Headers /\ s.saved = s.hdr /\ D \subseteq 1 .. s.hdr.nextId - 1
      /\ D \subseteq Ids
      /\ s.hdr.numLive >= Cardinality(D)
  BY WholeIs, RecordIsBlock DEF Sound, Good
<1>2. s.hdr.nextId \in Nat /\ s.hdr.numLive \in Int
  BY <1>1 DEF Headers
<1> HIDE DEF D
<1>3. IsFiniteSet(1 .. s.hdr.nextId - 1)
  <2>1. s.hdr.nextId - 1 \in Int
    BY <1>2
  <2> QED BY <2>1, FS_Interval
<1>4. IsFiniteSet(D)
  BY <1>1, <1>3, FS_Subset
<1>5. Cardinality(D) \in Nat
  BY <1>4, FS_CardinalityType
<1>6. s.hdr.nextId \notin D
  BY <1>1, <1>2
<1> QED BY <1>1, <1>2, <1>4, <1>5, <1>6 DEF D

(* A store that keeps the records of a sound one is sound, and so is one   *)
(* that drops a record.                                                    *)
LEMMA KeepsSound ==
  ASSUME NEW s, Sound(s), NEW t, Keeps(t, s)
  PROVE  Sound(t)
BY DEF Sound, Keeps

(* One record less is one less to count.                                   *)
LEMMA DropsSound ==
  ASSUME NEW s, Sound(s), NEW t, NEW id \in DOMAIN RecordsIn(s), Drops(t, s, id)
  PROVE  /\ Sound(t) /\ DOMAIN RecordsIn(t) = DOMAIN RecordsIn(s) \ {id}
         /\ Cardinality(DOMAIN RecordsIn(t)) = Cardinality(DOMAIN RecordsIn(s)) - 1
<1> DEFINE D == DOMAIN RecordsIn(s)
           E == DOMAIN RecordsIn(t)
<1>1. E = D \ {id} /\ id \in D
  BY DEF Drops, Without
<1>2. /\ IsFiniteSet(D) /\ Cardinality(D) \in Nat /\ s.hdr.numLive \in Int
      /\ s.hdr.numLive >= Cardinality(D) /\ D \subseteq 1 .. s.hdr.nextId - 1
  BY SoundCounts
<1> HIDE DEF D, E
<1>3. Cardinality(E) = Cardinality(D) - 1
  BY <1>1, <1>2, FS_RemoveElement
<1>4. s.hdr.numLive >= Cardinality(E) /\ E \subseteq 1 .. s.hdr.nextId - 1
  BY <1>1, <1>2, <1>3
<1> QED BY <1>1, <1>3, <1>4 DEF Sound, Drops, D, E

(* t is the store s with another record in the place of one it had: that   *)
(* is not another record to count.                                         *)
Replaces(t, s, id, data) == Sound(t) /\ RecordsIn(t) = [RecordsIn(s) EXCEPT ![id] = data]

LEMMA SetSound ==
  ASSUME NEW s, Sound(s), NEW t, NEW id \in DOMAIN RecordsIn(s), NEW data, Puts(t, s, id, data)
  PROVE  Replaces(t, s, id, data)
<1> DEFINE R == RecordsIn(s)
<1>1. RecordsIn(t) = With(R, id, data) /\ R = [i \in DOMAIN R |-> R[i]] /\ id \in DOMAIN R
  BY RecordIsBlock DEF Sound, Puts
<1> HIDE DEF R
<1>2. RecordsIn(t) = [R EXCEPT ![id] = data] /\ DOMAIN RecordsIn(t) = DOMAIN R
  BY <1>1 DEF With
<1> QED BY <1>2 DEF Sound, Puts, R, Replaces

(* Nor if it was dropped before.                                           *)
LEMMA DropThenPut ==
  ASSUME NEW s, NEW u, NEW t, NEW id \in DOMAIN RecordsIn(s), NEW data,
         Drops(u, s, id), Puts(t, u, id, data)
  PROVE  Puts(t, s, id, data)
<1> DEFINE R == RecordsIn(s)
<1>1. RecordsIn(t) = With(Without(R, id), id, data) /\ id \in DOMAIN R
  BY DEF Drops, Puts
<1> HIDE DEF R
<1>2. With(Without(R, id), id, data) = With(R, id, data)
  BY <1>1 DEF With, Without
<1> QED BY <1>1, <1>2 DEF Drops, Puts, R

(* A record that is added under the next id counts.                        *)
LEMMA AddSound ==
  ASSUME NEW s, Sound(s), NEW u, NEW t, NEW data, s.hdr.nextId \in Ids,
         Puts(u, s, s.hdr.nextId, data),
         Recounted(t, u, s.hdr.nextId + 1, s.hdr.numLive + 1)
  PROVE  /\ Sound(t) /\ RecordsIn(t) = With(RecordsIn(s), s.hdr.nextId, data)
         /\ t.hdr.nextId = s.hdr.nextId + 1 /\ t.hdr.numLive = s.hdr.numLive + 1
<1> DEFINE D == DOMAIN RecordsIn(s)
           E == DOMAIN RecordsIn(t)
           n == s.hdr.nextId
           m == s.hdr.numLive
<1>1. /\ IsFiniteSet(D) /\ Cardinality(D) \in Nat /\ m \in Int /\ n \in Nat /\ n \notin D
      /\ m >= Cardinality(D) /\ D \subseteq 1 .. n - 1
  BY SoundCounts
<1>2. n + 1 \in Nat /\ m + 1 \in Int /\ Whole(u)
  BY <1>1 DEF Puts
<1>3. Whole(t) /\ RecordsIn(t) = RecordsIn(u) /\ t.hdr.nextId = n + 1 /\ t.hdr.numLive = m + 1
  BY <1>2, RecountedWhole
<1>4. RecordsIn(t) = With(RecordsIn(s), n, data)
  BY <1>3 DEF Puts
<1>5. E = D \cup {n}
  BY <1>4 DEF With
<1>6. n > 0
  BY IdsAre
<1> HIDE DEF D, E, n, m
<1>7. Cardinality(E) = Cardinality(D) + 1
  BY <1>1, <1>5, FS_AddElement
<1>8. E \subseteq 1 .. (n + 1) - 1 /\ m + 1 >= Cardinality(E)
  BY <1>1, <1>5, <1>6, <1>7
<1> QED BY <1>3, <1>4, <1>8 DEF Sound, E, n, m

(* As many blocks are taken as there are records.                          *)
LEMMA LiveCount ==
  ASSUME NEW s, Sound(s)
  PROVE  Cardinality(Live(s)) \in Nat /\ Cardinality(Live(s)) <= Cardinality(DOMAIN RecordsIn(s))
<1> DEFINE L == Live(s)
           D == DOMAIN RecordsIn(s)
           f == [o \in L |-> BlockId(s, o)]
<1>1. Whole(s) /\ IsFiniteSet(D)
  BY SoundCounts
<1>2. L = Taken(s, Starts(s)) /\ Named(s, Starts(s)) /\ \A o \in L : BlockId(s, o) \in D
  BY <1>1, RecordIsBlock, WholeIs
<1>3. \A o \in L, p \in L : BlockId(s, o) = BlockId(s, p) => o = p
  BY <1>2 DEF Named, Taken
<1> HIDE DEF L, D
<1>4. f \in Injection(L, D)
  <2>1. f \in [L -> D]
    BY <1>2
  <2>2. \A o \in L, p \in L : f[o] = f[p] => o = p
    BY <1>3
  <2> QED BY <2>1, <2>2 DEF Injection, IsInjective
<1>5. IsFiniteSet(L) /\ Cardinality(L) <= Cardinality(D)
  BY <1>1, <1>4, FS_Injection
<1>6. Cardinality(L) \in Nat
  BY <1>5, FS_CardinalityType
<1> QED BY <1>5, <1>6 DEF L, D

-----------------------------------------------------------------------------
(* The invariant, and the step of the map that each method is.             *)

(* A new store: no block, no record.                                       *)
LEMMA InitStep ==
  ASSUME Init
  PROVE  StoreInv /\ Map!Init
<1>1. /\ rs.file = << >> /\ rs.hdr = NewHeader /\ rs.saved = NewHeader /\ rs.offsets = Null
      /\ rs.lastSeen = NO_OFFSET
  BY DEF Init
<1>2. NewHeader \in Headers /\ NewHeader.dataSize = 0 /\ NewHeader.freeSize = 0
      /\ NewHeader.nextId = 1 /\ NewHeader.numLive = 0
  BY DEF NewHeader, Headers
<1>3. rs \in Stores
  <2>1. NO_OFFSET \in Int /\ << >> \in Seq(Int)
    BY DEF NO_OFFSET
  <2> QED BY <1>2, <2>1 DEF Init, Stores
<1>4. End(rs) = DB_HEADER_SIZE /\ Len(rs.file) = 0
  BY <1>1, FirstAligned DEF End
<1>5. Tiled(rs, {})
  BY <1>1, <1>2, <1>4, FirstAligned DEF Tiled
<1>6. Named(rs, {})
  <2>1. DB_HEADER_SIZE .. End(rs) - 1 = {}
    BY <1>4, FirstAligned
  <2> QED BY <2>1 DEF Named
<1>7. Indexed(rs, {})
  BY <1>1 DEF Indexed
<1>8. Good(rs, {})
  BY <1>1, <1>3, <1>5, <1>6, <1>7 DEF Good
<1>9. Free(rs) = {} /\ Holds(rs, {}, RecordsIn(rs))
  <2>1. FreeIn(rs, {}) = {}
    BY DEF FreeIn
  <2> QED BY <1>3, <1>5, <1>6, <2>1, FreeAre, RecordsAre
<1>10. Cardinality({}) = 0
  BY FS_EmptySet
<1>11. Whole(rs)
  <2>1. rs.hdr.freeSize >= Cardinality(Free(rs))
    BY <1>1, <1>2, <1>9, <1>10
  <2> QED BY <1>8, <2>1, WholeIs
<1>12. DOMAIN RecordsIn(rs) = {} /\ RecordsIn(rs) = [id \in {} |-> << >>]
  <2>1. Taken(rs, {}) = {}
    BY DEF Taken
  <2>2. DOMAIN RecordsIn(rs) = {}
    BY <1>9, <2>1 DEF Holds
  <2>3. RecordsIn(rs) = [id \in DOMAIN RecordsIn(rs) |-> RecordsIn(rs)[id]]
    BY <1>9 DEF Holds
  <2> QED BY <2>2, <2>3
<1>13. StoreInv
  BY <1>1, <1>2, <1>10, <1>11, <1>12 DEF StoreInv, Sound
<1>14. Map!Init
  <2>1. out = Closed
    BY DEF Init
  <2> QED BY <1>1, <1>2, <1>12, <2>1 DEF Map!Init, Records
<1> QED BY <1>13, <1>14

(* What a step of the model says to the map.                               *)
LEMMA StoreSays ==
  ASSUME StoreInv
  PROVE  /\ Sound(rs) /\ Whole(rs) /\ Records = RecordsIn(rs) /\ rs.saved = rs.hdr
         /\ rs.hdr.nextId = rs.saved.nextId /\ rs.hdr.numLive = rs.saved.numLive
BY SoundCounts DEF StoreInv, Records

(* And after it.                                                           *)
LEMMA StoreSaysNext ==
  ASSUME Sound(rs')
  PROVE  /\ StoreInv' /\ Records' = RecordsIn(rs')
         /\ rs'.hdr.nextId = rs'.saved.nextId /\ rs'.hdr.numLive = rs'.saved.numLive
BY SoundCounts DEF StoreInv, Records

(* A method that keeps the records.                                        *)
LEMMA KeepsStep ==
  ASSUME StoreInv, Keeps(rs', rs)
  PROVE  /\ StoreInv' /\ Records' = Records
         /\ rs'.saved.nextId = rs.saved.nextId /\ rs'.saved.numLive = rs.saved.numLive
<1>1. Sound(rs')
  BY KeepsSound DEF StoreInv
<1> QED BY <1>1, StoreSays, StoreSaysNext DEF Keeps

(* Opening a store reads the header that is in memory already.             *)
LEMMA OpenStep ==
  ASSUME StoreInv, Open
  PROVE  StoreInv' /\ Map!Open
<1>1. Keeps(rs', rs)
  BY StoreSays, ForgottenKeeps DEF Open
<1> QED BY <1>1, KeepsStep DEF Open, Map!Open, Map!IsOpen, IsOpen, Map!Answer, Answer

(* Two methods that keep the records, one after the other.                 *)
LEMMA KeepsOfKeeps ==
  ASSUME NEW s, NEW u, NEW t, Keeps(u, s), Keeps(t, u)
  PROVE  Keeps(t, s)
BY DEF Keeps

(* Closing compacts the store; one that is left as it is keeps as much.    *)
LEMMA CloseStep ==
  ASSUME StoreInv, CloseRecordStore \/ IsolateEnds
  PROVE  StoreInv' /\ Map!Close
<1>1. Keeps(rs', rs)
  <2>1. CASE CloseRecordStore
    <3>1. Keeps(CompactRecords(rs), rs)
      BY StoreSays, CompactKeeps
    <3>2. Keeps(Forgotten(CompactRecords(rs)), CompactRecords(rs))
      BY <3>1, ForgottenKeeps DEF Keeps
    <3>3. rs' = Forgotten(CompactRecords(rs))
      BY <2>1 DEF CloseRecordStore
    <3> QED BY <3>1, <3>2, <3>3, KeepsOfKeeps
  <2>2. CASE IsolateEnds
    BY <2>2, StoreSays, ForgottenKeeps DEF IsolateEnds
  <2> QED BY <2>1, <2>2
<1> QED BY <1>1, KeepsStep DEF CloseRecordStore, IsolateEnds, Map!Close, Map!IsOpen, IsOpen

(* A record is added under the next id.                                    *)
LEMMA AddRecordStep ==
  ASSUME PlainData, StoreInv, NEW data \in Data, AddRecord(data)
  PROVE  StoreInv' /\ Map!Add(data)
<1> DEFINE id == rs.hdr.nextId
           u == AddBlock(rs, id, data)
<1>1. Sound(rs) /\ Whole(rs) /\ id \notin DOMAIN RecordsIn(rs) /\ id \in Ids
  BY StoreSays, SoundCounts DEF AddRecord
<1>2. Puts(u, rs, id, data)
  BY <1>1, AddBlockPuts
<1>3. Recounted(rs', u, id + 1, rs.hdr.numLive + 1)
  BY DEF AddRecord, Recounted
<1> HIDE DEF u
<1>4. /\ Sound(rs') /\ RecordsIn(rs') = With(RecordsIn(rs), id, data)
      /\ rs'.hdr.nextId = id + 1 /\ rs'.hdr.numLive = rs.hdr.numLive + 1
  BY <1>1, <1>2, <1>3, AddSound
<1>5. IsOpen /\ out' = Answer("added", id)
  BY DEF AddRecord
<1> QED BY <1>4, <1>5, StoreSays, StoreSaysNext
        DEF Map!Add, Map!IsOpen, IsOpen, Map!Answer, Answer, With

(* A record that is refused changes nothing.                               *)
LEMMA AddRecordFullStep ==
  ASSUME StoreInv, NEW data \in Data, AddRecordFull(data)
  PROVE  StoreInv' /\ Map!AddFull
<1>1. Keeps(rs', rs)
  BY StoreSays DEF AddRecordFull, Keeps
<1> QED BY <1>1, KeepsStep DEF AddRecordFull, Map!AddFull, Map!IsOpen, IsOpen, Map!Answer, Answer

(* An id is not found only when no record has it; the index may have       *)
(* learnt where other records are.                                         *)
LEMMA InvalidStep ==
  ASSUME StoreInv, NEW id \in Ids, InvalidRecordID(id)
  PROVE  StoreInv' /\ Map!Invalid(id)
<1> DEFINE h == GetRecordHeader(rs, id)
<1>1. Finds(h, rs, id)
  BY StoreSays, GetRecordHeaderOf
<1>2. h.at = INVALID_OFFSET /\ rs' = h.rs /\ IsOpen /\ out' = Answer("invalid", id)
  BY DEF InvalidRecordID
<1> HIDE DEF h
<1>3. Keeps(rs', rs) /\ id \notin DOMAIN RecordsIn(rs)
  BY <1>1, <1>2 DEF Finds
<1> QED BY <1>2, <1>3, KeepsStep, StoreSays
        DEF Map!Invalid, Map!Exists, Map!IsOpen, IsOpen, Map!Answer, Answer

(* What is read is the record's data.                                      *)
LEMMA GetRecordStep ==
  ASSUME StoreInv, NEW id \in Ids, GetRecord(id)
  PROVE  StoreInv' /\ Map!Get(id)
<1> DEFINE h == GetRecordHeader(rs, id)
<1>1. Finds(h, rs, id)
  BY StoreSays, GetRecordHeaderOf
<1>2. h.at # INVALID_OFFSET /\ rs' = h.rs /\ IsOpen /\ out' = Answer("data", BlockData(h.rs, h.at))
  BY DEF GetRecord
<1> HIDE DEF h
<1>3. /\ Keeps(rs', rs) /\ h.at \in Taken(h.rs, Starts(h.rs)) /\ BlockId(h.rs, h.at) = id
      /\ Whole(h.rs) /\ RecordsIn(h.rs) = RecordsIn(rs)
  BY <1>1, <1>2 DEF Finds, Keeps
<1>4. id \in DOMAIN RecordsIn(rs) /\ RecordsIn(rs)[id] = BlockData(h.rs, h.at)
  BY <1>3, RecordIsBlock
<1> QED BY <1>2, <1>3, <1>4, KeepsStep, StoreSays
        DEF Map!Get, Map!Exists, Map!IsOpen, IsOpen, Map!Answer, Answer

(* The block that getRecordHeader finds, freed.                            *)
LEMMA FreedIs ==
  ASSUME NEW s, Sound(s), NEW id \in Ids, NEW h, Finds(h, s, id), h.at # INVALID_OFFSET,
         NEW u, u = FreeBlock(h.rs, h.at, DataLen(h.rs, h.at))
  PROVE  /\ id \in DOMAIN RecordsIn(s) /\ Drops(u, s, id) /\ u.offsets \in [Ids -> Int]
<1>1. /\ Keeps(h.rs, s) /\ h.at \in Taken(h.rs, Starts(h.rs)) /\ BlockId(h.rs, h.at) = id
      /\ h.rs.offsets \in [Ids -> Int]
  BY DEF Finds
<1>2. Whole(h.rs) /\ RecordsIn(h.rs) = RecordsIn(s)
  BY <1>1 DEF Keeps
<1>3. id \in DOMAIN RecordsIn(s)
  BY <1>1, <1>2, RecordIsBlock
<1>4. Drops(u, h.rs, id) /\ u.offsets = h.rs.offsets
  BY <1>1, <1>2, FreeBlockDrops
<1>5. Drops(u, s, id)
  BY <1>1, <1>4 DEF Drops, Keeps
<1> QED BY <1>1, <1>3, <1>4, <1>5

(* The block that a record had is freed; the record does not count any     *)
(* more, and the index is told.                                            *)
LEMMA DeleteRecordStep ==
  ASSUME StoreInv, NEW id \in Ids, DeleteRecord(id)
  PROVE  StoreInv' /\ Map!Delete(id)
<1> DEFINE h == GetRecordHeader(rs, id)
           u == FreeBlock(h.rs, h.at, DataLen(h.rs, h.at))
           m == rs.hdr.numLive
           D == DOMAIN RecordsIn(rs)
<1>1. Finds(h, rs, id) /\ Sound(rs)
  BY StoreSays, GetRecordHeaderOf
<1>2. h.at # INVALID_OFFSET /\ IsOpen /\ out' = Answer("deleted", id)
  BY DEF DeleteRecord
<1>3. Untold(rs', u, id, m - 1)
  BY DEF DeleteRecord, Untold
<1>4. id \in D /\ Drops(u, rs, id) /\ u.offsets \in [Ids -> Int]
  <2> HIDE DEF h
  <2> QED BY <1>1, <1>2, FreedIs
<1> HIDE DEF h, u
<1>5. /\ Sound(u) /\ DOMAIN RecordsIn(u) = D \ {id}
      /\ Cardinality(DOMAIN RecordsIn(u)) = Cardinality(D) - 1
  BY <1>1, <1>4, DropsSound
<1>6. m \in Int /\ Cardinality(D) \in Nat /\ m >= Cardinality(D)
  BY <1>1, SoundCounts
<1>7. /\ Whole(rs') /\ RecordsIn(rs') = RecordsIn(u)
      /\ rs'.hdr.nextId = u.hdr.nextId /\ rs'.hdr.numLive = m - 1
  <2>1. Whole(u) /\ m - 1 \in Int
    BY <1>5, <1>6, SoundCounts
  <2> QED BY <1>3, <1>4, <2>1, UntoldWhole
<1>8. Sound(rs')
  <2>1. m - 1 >= Cardinality(D) - 1
    BY <1>6
  <2>2. DOMAIN RecordsIn(u) \subseteq 1 .. u.hdr.nextId - 1
    BY <1>5, SoundCounts
  <2> QED BY <1>5, <1>7, <2>1, <2>2 DEF Sound
<1>9. /\ RecordsIn(rs') = Without(RecordsIn(rs), id)
      /\ rs'.hdr.nextId = rs.hdr.nextId
  BY <1>4, <1>7 DEF Drops
<1> QED BY <1>2, <1>4, <1>7, <1>8, <1>9, StoreSays, StoreSaysNext
        DEF Map!Delete, Map!Exists, Map!IsOpen, IsOpen, Map!Answer, Answer, Without

(* The record is replaced: in its block, or in another one after that is   *)
(* freed; or it is lost with its block.                                    *)
LEMMA SetRecordStep ==
  ASSUME PlainData, StoreInv, NEW id \in Ids, NEW data \in Data, SetRecord(id, data)
  PROVE  StoreInv' /\ (Map!Set(id, data) \/ Map!SetFull(id))
<1> DEFINE h == GetRecordHeader(rs, id)
           len == DataLen(h.rs, h.at)
           u == FreeBlock(h.rs, h.at, len)
           D == DOMAIN RecordsIn(rs)
<1>1. Finds(h, rs, id) /\ Sound(rs)
  BY StoreSays, GetRecordHeaderOf
<1>2. h.at # INVALID_OFFSET /\ IsOpen
  BY DEF SetRecord
<1>3. \/ /\ CalculateBlockSize(Len(data)) <= CalculateBlockSize(len)
         /\ rs' = SplitBlock(h.rs, h.at, id, len, data) /\ out' = Answer("set", id)
      \/ rs' = u /\ out' = Answer("full", {id})
      \/ rs' = AddBlock(u, id, data) /\ out' = Answer("set", id)
  BY DEF SetRecord
<1>4. id \in D /\ Drops(u, rs, id)
  <2> HIDE DEF h
  <2> QED BY <1>1, <1>2, FreedIs
<1>5. ASSUME Puts(rs', rs, id, data), out' = Answer("set", id)
      PROVE  StoreInv' /\ Map!Set(id, data)
  <2> HIDE DEF h, u
  <2>1. Sound(rs') /\ RecordsIn(rs') = [RecordsIn(rs) EXCEPT ![id] = data]
    <3>1. Sound(rs) /\ id \in DOMAIN RecordsIn(rs)
      BY <1>1, <1>4
    <3>2. Puts(rs', rs, id, data)
      BY <1>5
    <3>3. Replaces(rs', rs, id, data)
      BY <3>1, <3>2, SetSound
    <3> QED BY <3>3 DEF Replaces
  <2>2. rs'.hdr.nextId = rs.hdr.nextId /\ rs'.hdr.numLive = rs.hdr.numLive
    BY <1>5 DEF Puts
  <2> QED BY <1>2, <1>4, <1>5, <2>1, <2>2, StoreSays, StoreSaysNext
          DEF Map!Set, Map!Exists, Map!IsOpen, IsOpen, Map!Answer, Answer
<1>6. CASE /\ CalculateBlockSize(Len(data)) <= CalculateBlockSize(len)
           /\ rs' = SplitBlock(h.rs, h.at, id, len, data) /\ out' = Answer("set", id)
  <2>1. CalculateBlockSize(Len(data)) <= BlockSize(h.rs, h.at)
    BY <1>6 DEF BlockSize
  <2>2. rs' = SplitBlock(h.rs, h.at, id, DataLen(h.rs, h.at), data)
    BY <1>6
  <2> HIDE DEF h, u
  <2>3. /\ Keeps(h.rs, rs) /\ h.at \in Taken(h.rs, Starts(h.rs)) /\ BlockId(h.rs, h.at) = id
    BY <1>1, <1>2 DEF Finds
  <2>4. Whole(h.rs) /\ h.at \in Starts(h.rs)
    BY <2>3 DEF Keeps, Taken
  <2>5. Puts(rs', h.rs, id, data)
    BY <2>1, <2>2, <2>3, <2>4, SplitBlockPuts
  <2>6. Puts(rs', rs, id, data)
    BY <2>3, <2>5 DEF Puts, Keeps
  <2> QED BY <1>5, <1>6, <2>6
<1>7. CASE rs' = u /\ out' = Answer("full", {id})
  <2> HIDE DEF h, u
  <2>1. Drops(rs', rs, id)
    BY <1>4, <1>7
  <2>2. Sound(rs')
    BY <1>1, <1>4, <2>1, DropsSound
  <2>3. /\ RecordsIn(rs') = Without(RecordsIn(rs), id)
        /\ rs'.hdr.nextId = rs.hdr.nextId /\ rs'.hdr.numLive = rs.hdr.numLive
    BY <2>1 DEF Drops
  <2>4. StoreInv' /\ Map!SetFull(id)
    BY <1>2, <1>4, <1>7, <2>2, <2>3, StoreSays, StoreSaysNext
       DEF Map!SetFull, Map!Exists, Map!IsOpen, IsOpen, Map!Answer, Answer, Without
  <2> QED BY <2>4
<1>8. CASE rs' = AddBlock(u, id, data) /\ out' = Answer("set", id)
  <2> HIDE DEF h, u
  <2>1. Whole(u) /\ id \notin DOMAIN RecordsIn(u)
    BY <1>4 DEF Drops, Without
  <2>2. Puts(rs', u, id, data)
    BY <1>8, <2>1, AddBlockPuts
  <2>3. Puts(rs', rs, id, data)
    BY <1>4, <2>2, DropThenPut
  <2> QED BY <1>5, <1>8, <2>3
<1> HIDE DEF h, u
<1> QED BY <1>3, <1>6, <1>7, <1>8

(* The ids that getRecordIDs meets are those of the records, each once.    *)
LEMMA IdsMet ==
  ASSUME NEW s, Sound(s), NEW met,
         met = Among([i \in DOMAIN AllBlocks(s) |-> BlockId(s, AllBlocks(s)[i])], Nat \ {0})
  PROVE  /\ met \in Seq(Int) /\ Elems(met) = DOMAIN RecordsIn(s)
         /\ Len(met) = Cardinality(DOMAIN RecordsIn(s))
<1> DEFINE S == Starts(s)
           all == AllBlocks(s)
           q == [i \in DOMAIN all |-> BlockId(s, all[i])]
           D == DOMAIN RecordsIn(s)
<1>1. Whole(s) /\ s \in Stores /\ Tiled(s, S) /\ Named(s, S)
  BY SoundCounts, WholeIs
<1>2. Lists(all, s, S, DB_HEADER_SIZE)
  BY <1>1, StartsAre
<1>3. D = {BlockId(s, o) : o \in Taken(s, S)}
  BY <1>1, RecordIsBlock
<1>4. met = Among(q, Nat \ {0})
  OBVIOUS
<1> HIDE DEF all, S, D
<1>5. /\ all \in Seq(Int) /\ DOMAIN all = 1 .. Len(all) /\ Len(all) \in Nat
      /\ \A i \in DOMAIN all : all[i] \in S
      /\ \A o \in S : \E i \in DOMAIN all : all[i] = o
      /\ \A i \in DOMAIN all, j \in DOMAIN all : all[i] = all[j] => i = j
  <2>1. all \in Seq(Int) /\ DOMAIN all = 1 .. Len(all) /\ Len(all) \in Nat
    BY <1>2 DEF Lists
  <2>2. \A o \in S : o \in Int /\ o >= DB_HEADER_SIZE
    BY <1>1, FirstAligned DEF Tiled
  <2>3. \A o \in S : \E i \in DOMAIN all : all[i] = o
    BY <1>2, <2>2 DEF Lists
  <2>4. \A i \in DOMAIN all, j \in DOMAIN all : all[i] = all[j] => i = j
    <3> SUFFICES ASSUME NEW i \in DOMAIN all, NEW j \in DOMAIN all, all[i] = all[j], i # j
                 PROVE  FALSE
      OBVIOUS
    <3>1. i \in Int /\ j \in Int /\ all[i] \in Int
      BY <2>1
    <3>2. i < j \/ j < i
      BY <3>1
    <3>3. all[i] < all[j] \/ all[j] < all[i]
      BY <1>2, <3>2 DEF Lists
    <3> QED BY <3>1, <3>3
  <2> QED BY <1>2, <2>1, <2>3, <2>4 DEF Lists
<1>6. \A o \in S : BlockId(s, o) \in Int /\ (BlockId(s, o) \in Nat \ {0} <=> BlockId(s, o) # FREE)
  <2> SUFFICES ASSUME NEW o \in S
               PROVE  BlockId(s, o) \in Int /\ (BlockId(s, o) \in Nat \ {0} <=> BlockId(s, o) # FREE)
    OBVIOUS
  <2>1. BlockId(s, o) = FREE \/ BlockId(s, o) \in Ids
    BY <1>1 DEF Named
  <2>2. \A id \in Ids : id \in Int /\ id \in Nat /\ id # 0 /\ id # FREE
    BY IdsAre
  <2>3. FREE \in Int /\ FREE \notin Nat
    BY DEF FREE
  <2> QED BY <2>1, <2>2, <2>3
<1>7. /\ q \in Seq(Int) /\ DOMAIN q = DOMAIN all
      /\ \A i \in DOMAIN all : q[i] = BlockId(s, all[i])
  BY <1>5, <1>6
<1> HIDE DEF q
<1>8. Elems(q) \cap (Nat \ {0}) = D
  <2>1. \A e : e \in Elems(q) <=> \E o \in S : e = BlockId(s, o)
    BY <1>5, <1>7 DEF Elems
  <2>2. \A e : e \in D <=> \E o \in S : e = BlockId(s, o) /\ BlockId(s, o) # FREE
    BY <1>3 DEF Taken
  <2>3. \A e : e \in Elems(q) \cap (Nat \ {0}) <=> e \in D
    BY <1>6, <2>1, <2>2
  <2> QED BY <2>3
<1>9. OnceAmong(q, Nat \ {0})
  <2> SUFFICES ASSUME NEW i \in DOMAIN q, NEW j \in DOMAIN q, q[i] = q[j], q[i] \in Nat \ {0}
               PROVE  i = j
    BY DEF OnceAmong
  <2>1. all[i] \in S /\ all[j] \in S /\ BlockId(s, all[i]) = BlockId(s, all[j]) /\ BlockId(s, all[i]) # FREE
    BY <1>5, <1>6, <1>7
  <2>2. all[i] = all[j]
    BY <1>1, <2>1 DEF Named
  <2> QED BY <1>5, <1>7, <2>2
<1>10. met \in Seq(Int) /\ Elems(met) = D /\ NoRepeat(met)
  <2> DEFINE xs == Nat \ {0}
  <2> HIDE DEF xs
  <2>1. /\ Among(q, xs) \in Seq(Int) /\ Elems(Among(q, xs)) = Elems(q) \cap xs
        /\ OnceAmong(q, xs) => NoRepeat(Among(q, xs))
    BY <1>7, AmongType, AmongElems
  <2> QED BY <1>4, <1>8, <1>9, <2>1 DEF xs
<1>11. Cardinality(D) = Len(met)
  BY <1>10, NoRepeatCount
<1> QED BY <1>10, <1>11 DEF D

(* A list that is filled up with zeros.                                    *)
LEMMA FilledUp ==
  ASSUME NEW q \in Seq(Int), NEW n \in Int, n >= Len(q)
  PROVE  ToSet([i \in 1 .. n |-> IF i <= Len(q) THEN q[i] ELSE 0])
           = Elems(q) \cup (IF n > Len(q) THEN {0} ELSE {})
<1> DEFINE r == [i \in 1 .. n |-> IF i <= Len(q) THEN q[i] ELSE 0]
<1>1. Len(q) \in Nat /\ DOMAIN q = 1 .. Len(q)
  OBVIOUS
<1>2. /\ DOMAIN r = 1 .. n
      /\ \A i \in 1 .. n : r[i] = IF i <= Len(q) THEN q[i] ELSE 0
  OBVIOUS
<1> HIDE DEF r
<1>3. \A e : e \in ToSet(r) <=> \E i \in 1 .. n : e = r[i]
  BY <1>2 DEF ToSet
<1>4. \A e : e \in Elems(q) <=> \E i \in 1 .. Len(q) : e = q[i]
  BY <1>1 DEF Elems
<1>5. ASSUME NEW e, e \in ToSet(r)
      PROVE  e \in Elems(q) \cup (IF n > Len(q) THEN {0} ELSE {})
  <2>1. PICK i \in 1 .. n : e = r[i]
    BY <1>3, <1>5
  <2>2. CASE i <= Len(q)
    BY <1>1, <1>2, <1>4, <2>1, <2>2
  <2>3. CASE ~ (i <= Len(q))
    BY <1>1, <1>2, <2>1, <2>3
  <2> QED BY <2>2, <2>3
<1>6. ASSUME NEW e, e \in Elems(q)
      PROVE  e \in ToSet(r)
  <2>1. PICK i \in 1 .. Len(q) : e = q[i]
    BY <1>4, <1>6
  <2>2. i \in 1 .. n /\ i <= Len(q)
    BY <1>1
  <2> QED BY <1>2, <1>3, <2>1, <2>2
<1>7. ASSUME n > Len(q)
      PROVE  0 \in ToSet(r)
  <2>1. n \in 1 .. n /\ ~ (n <= Len(q))
    BY <1>1, <1>7
  <2> QED BY <1>2, <1>3, <2>1
<1>8. ToSet(r) = Elems(q) \cup (IF n > Len(q) THEN {0} ELSE {})
  <2>1. CASE n > Len(q)
    BY <1>5, <1>6, <1>7, <2>1
  <2>2. CASE ~ (n > Len(q))
    BY <1>5, <1>6, <2>2
  <2> QED BY <2>1, <2>2
<1> QED BY <1>8 DEF r

(* Every record counts, and its id is told; a zero stands for each that    *)
(* was lost.                                                               *)
LEMMA GetRecordIDsStep ==
  ASSUME StoreInv, GetRecordIDs
  PROVE  StoreInv' /\ Map!GetIDs
<1> DEFINE met == Among([i \in DOMAIN AllBlocks(rs) |-> BlockId(rs, AllBlocks(rs)[i])], Nat \ {0})
           n == rs.hdr.numLive
           ids == ToSet([i \in 1 .. n |-> IF i <= Len(met) THEN met[i] ELSE 0])
           D == DOMAIN RecordsIn(rs)
<1>1. IsOpen /\ rs' = rs /\ out' = Answer("ids", ids)
  BY DEF GetRecordIDs
<1>2. met \in Seq(Int) /\ Elems(met) = D /\ Len(met) = Cardinality(D)
  <2> HIDE DEF D
  <2>1. met = Among([i \in DOMAIN AllBlocks(rs) |-> BlockId(rs, AllBlocks(rs)[i])], Nat \ {0})
    OBVIOUS
  <2> HIDE DEF met
  <2> QED BY <2>1, StoreSays, IdsMet DEF D
<1> HIDE DEF met
<1>3. n \in Int /\ n >= Len(met)
  BY <1>2, StoreSays, SoundCounts
<1>4. ids = D \cup (IF n > Cardinality(D) THEN {0} ELSE {})
  <2> HIDE DEF D, n
  <2> QED BY <1>2, <1>3, FilledUp
<1>5. Keeps(rs', rs)
  BY <1>1, StoreSays DEF Keeps
<1> HIDE DEF ids
<1>6. StoreInv' /\ UNCHANGED <<Records, rs.saved.nextId, rs.saved.numLive>>
  BY <1>5, KeepsStep
<1>7. Records = RecordsIn(rs) /\ rs.saved.numLive = n
  BY StoreSays
<1>8. out' = Answer("ids", DOMAIN Records \cup
                (IF rs.saved.numLive > Cardinality(DOMAIN Records) THEN {0} ELSE {}))
  BY <1>1, <1>4, <1>7
<1>9. Map!Cardinality(DOMAIN Records) = Cardinality(DOMAIN Records)
  BY DEF Map!Cardinality, Cardinality, Map!IsFiniteSet, IsFiniteSet
<1> QED BY <1>1, <1>6, <1>8, <1>9 DEF Map!GetIDs, Map!IsOpen, IsOpen, Map!Answer, Answer

-----------------------------------------------------------------------------
(* The theorems.                                                           *)

(* Every step of the store is one of the map, or none.                     *)
LEMMA NextStep ==
  ASSUME PlainData, StoreInv, [Next]_vars
  PROVE  StoreInv' /\ [Map!Next]_(Map!vars)
<1>1. CASE Open
  BY <1>1, OpenStep DEF Map!Next
<1>2. CASE CloseRecordStore \/ IsolateEnds
  BY <1>2, CloseStep DEF Map!Next
<1>3. CASE GetRecordIDs
  BY <1>3, GetRecordIDsStep DEF Map!Next
<1>4. ASSUME NEW data \in Data, AddRecord(data)
      PROVE  StoreInv' /\ Map!Next
  BY <1>4, AddRecordStep DEF Map!Next
<1>5. ASSUME NEW data \in Data, AddRecordFull(data)
      PROVE  StoreInv' /\ Map!Next
  BY <1>5, AddRecordFullStep DEF Map!Next
<1>6. ASSUME NEW id \in Ids, InvalidRecordID(id)
      PROVE  StoreInv' /\ Map!Next
  BY <1>6, InvalidStep DEF Map!Next
<1>7. ASSUME NEW id \in Ids, DeleteRecord(id)
      PROVE  StoreInv' /\ Map!Next
  BY <1>7, DeleteRecordStep DEF Map!Next
<1>8. ASSUME NEW id \in Ids, GetRecord(id)
      PROVE  StoreInv' /\ Map!Next
  BY <1>8, GetRecordStep DEF Map!Next
<1>9. ASSUME NEW id \in Ids, NEW data \in Data, SetRecord(id, data)
      PROVE  StoreInv' /\ Map!Next
  BY <1>9, SetRecordStep DEF Map!Next
<1>10. CASE UNCHANGED vars
  <2>1. rs' = rs /\ out' = out
    BY <1>10 DEF vars
  <2>2. StoreInv' /\ Records' = Records
    BY <2>1 DEF StoreInv, Records
  <2> QED BY <2>1, <2>2 DEF Map!vars
<1> QED BY <1>1, <1>2, <1>3, <1>4, <1>5, <1>6, <1>7, <1>8, <1>9, <1>10 DEF Next

(* The blocks tile the file and carry ids that were given out, each once;  *)
(* the index, the header and the counts agree with them: the invariant     *)
(* that the theorems below rest on.                                        *)
THEOREM StoreStaysSound ==
  ASSUME PlainData
  PROVE  Spec => []StoreInv
<1>1. Init => StoreInv
  BY InitStep
<1>2. StoreInv /\ [Next]_vars => StoreInv'
  BY NextStep
<1> QED BY <1>1, <1>2, PTL DEF Spec

(* The file is what its header says it is, block behind block, whatever    *)
(* splitting, freeing, appending and compacting did to it.                 *)
THEOREM FileIsBlocks ==
  ASSUME PlainData
  PROVE  Spec => []BlocksTile
<1>1. StoreInv => BlocksTile
  <2> SUFFICES ASSUME StoreInv PROVE BlocksTile
    OBVIOUS
  <2> DEFINE S == Starts(rs)
             all == AllBlocks(rs)
             D == DOMAIN RecordsIn(rs)
  <2>1. /\ Whole(rs) /\ rs \in Stores /\ Tiled(rs, S) /\ Named(rs, S) /\ rs.saved = rs.hdr
        /\ D \subseteq 1 .. rs.hdr.nextId - 1
    BY StoreSays, SoundCounts, WholeIs
  <2>2. Lists(all, rs, S, DB_HEADER_SIZE)
    BY <2>1, StartsAre
  <2>3. \A o \in Taken(rs, S) : BlockId(rs, o) \in D
    BY <2>1, RecordIsBlock
  <2>4. BlocksTile <=>
          /\ Len(rs.file) = rs.saved.dataSize
          /\ \A i \in DOMAIN all :
               /\ all[i] + BlockSize(rs, all[i]) =
                    IF i < Len(all) THEN all[i + 1] ELSE DB_HEADER_SIZE + rs.saved.dataSize
               /\ BlockId(rs, all[i]) \in {FREE} \cup 1 .. rs.saved.nextId - 1
               /\ \A j \in DOMAIN all :
                    BlockId(rs, all[i]) = BlockId(rs, all[j]) /\ BlockId(rs, all[i]) # FREE => i = j
    BY DEF BlocksTile
  <2> HIDE DEF S, all, D
  <2>5. Len(rs.file) = rs.saved.dataSize /\ End(rs) = DB_HEADER_SIZE + rs.saved.dataSize
    BY <2>1 DEF Tiled, End
  <2> SUFFICES ASSUME NEW i \in DOMAIN all
               PROVE  /\ all[i] + BlockSize(rs, all[i]) =
                           IF i < Len(all) THEN all[i + 1] ELSE DB_HEADER_SIZE + rs.saved.dataSize
                      /\ BlockId(rs, all[i]) \in {FREE} \cup 1 .. rs.saved.nextId - 1
                      /\ \A j \in DOMAIN all :
                           BlockId(rs, all[i]) = BlockId(rs, all[j]) /\ BlockId(rs, all[i]) # FREE => i = j
    BY <2>4, <2>5
  <2>6. all[i] + BlockSize(rs, all[i]) =
          IF i < Len(all) THEN all[i + 1] ELSE DB_HEADER_SIZE + rs.saved.dataSize
    BY <2>2, <2>5 DEF Lists
  <2>7. all[i] \in S
    BY <2>2 DEF Lists
  <2>8. BlockId(rs, all[i]) # FREE => BlockId(rs, all[i]) \in 1 .. rs.saved.nextId - 1
    BY <2>1, <2>3, <2>7 DEF Taken
  <2>9. ASSUME NEW j \in DOMAIN all,
               BlockId(rs, all[i]) = BlockId(rs, all[j]), BlockId(rs, all[i]) # FREE
        PROVE  i = j
    <3>1. all[j] \in S
      BY <2>2 DEF Lists
    <3>2. all[i] = all[j]
      BY <2>1, <2>7, <2>9, <3>1 DEF Named
    <3>3. i \in Int /\ j \in Int /\ all[i] \in Int /\ all[j] \in Int
      BY <2>2 DEF Lists
    <3>4. (i < j => all[i] < all[j]) /\ (j < i => all[j] < all[i])
      BY <2>2 DEF Lists
    <3> QED BY <3>2, <3>3, <3>4
  <2> QED BY <2>6, <2>8, <2>9
<1> QED BY <1>1, StoreStaysSound, PTL

(* The header in the file is the header in memory whenever a store is      *)
(* open; neither the free words nor the records are ever more than it      *)
(* says.                                                                   *)
THEOREM HeaderInFile ==
  ASSUME PlainData
  PROVE  Spec => []HeaderExact
<1>1. StoreInv => HeaderExact
  <2> SUFFICES ASSUME StoreInv PROVE HeaderExact
    OBVIOUS
  <2> DEFINE l == Cardinality(Live(rs))
             d == Cardinality(DOMAIN RecordsIn(rs))
             m == rs.hdr.numLive
  <2>1. /\ Sound(rs) /\ Whole(rs) /\ rs.saved = rs.hdr /\ rs.hdr.freeSize >= Cardinality(Free(rs))
        /\ m \in Int /\ d \in Nat /\ m >= d
    BY StoreSays, SoundCounts, WholeIs
  <2>2. l <= d /\ l \in Nat
    BY <2>1, LiveCount
  <2>3. rs.saved.freeSize >= FreeWords
    BY <2>1 DEF FreeWords
  <2> HIDE DEF l, d, m
  <2>4. m >= l
    BY <2>1, <2>2
  <2> QED BY <2>1, <2>3, <2>4 DEF HeaderExact, l, m
<1> QED BY <1>1, StoreStaysSound, PTL

(* What RecordStoreIndex remembers is where the record is, or nothing; a   *)
(* search goes on from a block.                                            *)
THEOREM IndexNeverAstray ==
  ASSUME PlainData
  PROVE  Spec => []IndexSound
<1>1. StoreInv => IndexSound
  <2> SUFFICES ASSUME StoreInv PROVE IndexSound
    OBVIOUS
  <2> DEFINE S == Starts(rs)
  <2>1. Whole(rs) /\ Indexed(rs, S) /\ Live(rs) = Taken(rs, S)
    BY StoreSays, WholeIs, RecordIsBlock DEF Good
  <2>2. IndexSound <=>
          (rs.offsets # Null =>
             /\ \A o \in Live(rs) : rs.offsets[BlockId(rs, o)] \in {o, INVALID_OFFSET}
             /\ rs.lastSeen \in {NO_OFFSET} \cup S)
    BY DEF IndexSound, Starts
  <2> HIDE DEF S
  <2> QED BY <2>1, <2>2 DEF Indexed, Taken
<1> QED BY <1>1, StoreStaysSound, PTL

(* A record is refused, or lost, only by a store that would be too large   *)
(* even without its free blocks.                                           *)
THEOREM RefusedOnlyWhenFull ==
  ASSUME PlainData
  PROVE  Spec => []FullOnlyWhenFull
<1>1. StoreInv => FullOnlyWhenFull
  <2> SUFFICES ASSUME StoreInv, NEW data \in Data, TooFull(rs, data)
               PROVE  rs.hdr.dataSize - FreeWords + CalculateBlockSize(Len(data))
                        > STORAGE_SUITE_LIMIT - BLOCK_HEADER_SIZE - DB_HEADER_SIZE
    BY DEF FullOnlyWhenFull
  <2> DEFINE n == CalculateBlockSize(Len(data))
             f == rs.hdr.freeSize
             d == rs.hdr.dataSize
             x == STORAGE_SUITE_LIMIT - d - BLOCK_HEADER_SIZE - DB_HEADER_SIZE
             a == GetSizeAvailable(rs)
             c == FreeWords
  <2>1. /\ f \in Int /\ d \in Int /\ c \in Nat /\ f >= c
    <3>1. Whole(rs) /\ rs.hdr \in Headers
      BY StoreSays, WholeIs
    <3>2. f \in Int /\ d \in Int
      BY <3>1 DEF Headers
    <3> QED BY <3>1, <3>2, WholeIs DEF FreeWords
  <2>2. n \in Int
    <3>1. Len(data) \in Nat
      BY Layout
    <3> QED BY <3>1, SizeIs
  <2>3. x \in Int /\ x = STORAGE_SUITE_LIMIT - d - 2 - DB_HEADER_SIZE
        /\ STORAGE_SUITE_LIMIT \in Int /\ DB_HEADER_SIZE \in Int
    BY <2>1, Layout DEF BLOCK_HEADER_SIZE
  <2>4. a \in Int /\ a >= x
    <3>1. a = Max({0, x})
      BY DEF GetSizeAvailable
    <3> HIDE DEF x, a
    <3>2. CASE x >= 0
      <4>1. Max({0, x}) = x
        <5>1. {0, x} \in SUBSET Int /\ x \in {0, x} /\ \A y \in {0, x} : x >= y
          BY <2>3, <3>2
        <5> QED BY <5>1, MaxIs
      <4> QED BY <2>3, <3>1, <4>1
    <3>3. CASE ~ (x >= 0)
      <4>1. Max({0, x}) = 0
        <5>1. {0, x} \in SUBSET Int /\ 0 \in {0, x} /\ \A y \in {0, x} : 0 >= y
          BY <2>3, <3>3
        <5> QED BY <5>1, MaxIs
      <4> QED BY <2>3, <3>1, <3>3, <4>1
    <3> QED BY <3>2, <3>3
  <2>5. a + f < n
    BY DEF TooFull
  <2> HIDE DEF n, f, d, x, a, c
  <2>6. d - c + n > STORAGE_SUITE_LIMIT - 2 - DB_HEADER_SIZE
    BY <2>1, <2>2, <2>3, <2>4, <2>5
  <2> QED BY <2>6 DEF n, d, c, BLOCK_HEADER_SIZE
<1> QED BY <1>1, StoreStaysSound, PTL

(* An id that no record has is not found, when no data looks like a        *)
(* record's header: the run that shows it is found otherwise has such      *)
(* data.                                                                   *)
THEOREM NoPhantoms ==
  ASSUME PlainData
  PROVE  Spec => []NoPhantomRecord
<1>1. StoreInv => NoPhantomRecord
  <2> SUFFICES ASSUME StoreInv, NEW id \in Ids, GetRecordHeader(rs, id).at # INVALID_OFFSET
               PROVE  id \in DOMAIN Records
    BY DEF NoPhantomRecord
  <2> DEFINE h == GetRecordHeader(rs, id)
  <2>1. Finds(h, rs, id) /\ Records = RecordsIn(rs)
    BY StoreSays, GetRecordHeaderOf
  <2>2. h.at # INVALID_OFFSET
    OBVIOUS
  <2> HIDE DEF h
  <2>3. /\ Keeps(h.rs, rs) /\ h.at \in Taken(h.rs, Starts(h.rs)) /\ BlockId(h.rs, h.at) = id
    BY <2>1, <2>2 DEF Finds
  <2> QED BY <2>1, <2>3, RecordIsBlock DEF Keeps
<1> QED BY <1>1, StoreStaysSound, PTL

(* Whatever was added, replaced, deleted and moved, with or without        *)
(* closing the store: a record comes back as it was written.               *)
THEOREM StoreIsMap ==
  ASSUME PlainData
  PROVE  Spec => ImplementsMap
<1>1. Init => Map!Init
  BY InitStep
<1>2. StoreInv /\ [Next]_vars => [Map!Next]_(Map!vars)
  BY NextStep
<1>3. Spec => Map!Spec
  BY <1>1, <1>2, StoreStaysSound, PTL DEF Spec, Map!Spec
<1> QED BY <1>3 DEF ImplementsMap
=============================================================================
