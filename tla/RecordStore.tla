----------------------------- MODULE RecordStore -----------------------------
(***************************************************************************)
(* One record store: RecordStoreImpl, which keeps records in blocks of a   *)
(* file, and RecordStoreIndex (the linear index), which finds them and     *)
(* remembers where.                                                        *)
(*                                                                         *)
(* A word of the model is an int of the file.  A block is a header of two  *)
(* words (the record's id or -1 for a free block, and the length of the    *)
(* data) followed by the data, padded to a multiple of the header's size.  *)
(* Every method holds rsLock, so it is one step; a method that fails is    *)
(* one step too, with whatever it did before it failed.                    *)
(*                                                                         *)
(* The words of the file that hold the database header are kept in saved,  *)
(* which only changes where the code writes them.  Version, time of the    *)
(* last change and authorization mode are left out, and so are errors of   *)
(* the file system; the suite's limit is the only limit on space.          *)
(***************************************************************************)
EXTENDS Integers, Sequences, FiniteSets, FiniteSetsExt, SequencesExt, Lists

CONSTANTS
  Data,                 \* what a record may contain: sequences of words
  Ids,                  \* record ids
  STORAGE_SUITE_LIMIT,
  DB_HEADER_SIZE,
  Pad,                  \* the word blocks are padded with
  MaxFile,              \* bound: words in a file
  Closed, Null

BLOCK_HEADER_SIZE == 2
NO_OFFSET == 0
INVALID_OFFSET == -1
FREE == -1

ASSUME Layout ==
  /\ Ids \subseteq Nat \ {0} /\ DB_HEADER_SIZE \in Nat \ {0} /\ STORAGE_SUITE_LIMIT \in Nat
  /\ MaxFile \in Nat /\ Data \subseteq Seq(Int) /\ Pad \in Int
  /\ Null \notin [Ids -> Int]

VARIABLES
  rs,     \* the store: the blocks of the file, its header, the index
  out     \* the answer to the last call, Closed when no store is open

vars == <<rs, out>>

Answer(call, val) == [call |-> call, val |-> val]

(* The data, what it is padded with to a multiple of the header's size, and the header. *)
CalculateBlockSize(n) == n + ((-n) % BLOCK_HEADER_SIZE) + BLOCK_HEADER_SIZE

GetSize(s) == DB_HEADER_SIZE + s.hdr.dataSize

GetSizeAvailable(s) ==
  Max({0, STORAGE_SUITE_LIMIT - s.hdr.dataSize - BLOCK_HEADER_SIZE - DB_HEADER_SIZE})

-----------------------------------------------------------------------------
(* Reading the file. *)

Word(s, o) == s.file[o - DB_HEADER_SIZE + 1]
Words(s, o, n) == SubSeq(s.file, o - DB_HEADER_SIZE + 1, o - DB_HEADER_SIZE + n)

Readable(s, o) == o - DB_HEADER_SIZE + BLOCK_HEADER_SIZE <= Len(s.file)

BlockId(s, o) == Word(s, o)
DataLen(s, o) == Word(s, o + 1)
BlockSize(s, o) == CalculateBlockSize(DataLen(s, o))
BlockData(s, o) == Words(s, o + BLOCK_HEADER_SIZE, DataLen(s, o))

(* The offsets at which a walk over the blocks, from one of them, reads headers.  A step goes *)
(* from those seen, the last of which is the next to read, to one more; there are no more     *)
(* steps than there is room for headers.                                                      *)
Blocks(s, from) ==
  LET step == [seen \in Seq(Int) |->
                 LET o == Last(seen)
                 IN  IF o < GetSize(s) /\ Readable(s, o) THEN Append(seen, o + BlockSize(s, o))
                     ELSE seen]
      steps == Len(s.file) \div BLOCK_HEADER_SIZE
      walk[n \in 0 .. steps] == IF n = 0 THEN <<from>> ELSE step[walk[n - 1]]
  IN  Front(walk[steps])

AllBlocks(s) == Blocks(s, DB_HEADER_SIZE)

-----------------------------------------------------------------------------
(* RecordStoreIndex. *)

NoOffsets == [id \in Ids |-> INVALID_OFFSET]

\* Faulty: the index is not told which record a block now holds.
UpdateBlockNever(s, o, id) == s

UpdateBlock(s, o, id) ==
  IF s.offsets = Null \/ id = FREE THEN s ELSE [s EXCEPT !.offsets[id] = o]

(* getRecordHeader_SearchFromTo: every block visited is noted as the record's. *)
SearchFrom(s, id, from) ==
  LET visited == Blocks(s, from)
      hits == {i \in DOMAIN visited : BlockId(s, visited[i]) = id}
      seen == IF hits = {} THEN Len(visited) ELSE Min(hits)
  IN  [at |-> IF hits = {} THEN INVALID_OFFSET ELSE visited[seen],
       rs |-> IF seen = 0 THEN s
              ELSE [s EXCEPT !.offsets[id] = visited[seen], !.lastSeen = visited[seen]]]

GetRecordHeaderNoCache(s, id) ==
  LET ahead == SearchFrom(s, id, s.lastSeen)
      early == s.lastSeen # NO_OFFSET
  IN  IF early /\ ahead.at # INVALID_OFFSET THEN ahead
      ELSE SearchFrom(IF early THEN ahead.rs ELSE s, id, DB_HEADER_SIZE)

GetRecordHeader(s, id) ==
  LET cached == s.offsets # Null /\ s.offsets[id] # INVALID_OFFSET
      broken == cached /\ ~ Readable(s, s.offsets[id])
  IN  IF cached /\ ~ broken /\ BlockId(s, s.offsets[id]) = id
      THEN [at |-> s.offsets[id], rs |-> s]
      ELSE GetRecordHeaderNoCache(
             IF s.offsets = Null \/ broken
             THEN [s EXCEPT !.offsets = NoOffsets, !.lastSeen = NO_OFFSET] ELSE s, id)

\* Faulty: any block that is large enough is taken for a free one.
GetFreeBlockAny(s, n) ==
  LET all == AllBlocks(s)
      fit == {i \in DOMAIN all : BlockSize(s, all[i]) >= CalculateBlockSize(n)}
  IN  IF fit = {} THEN 0 ELSE all[Min(fit)]

(* The first free block that can hold n words, or 0. *)
GetFreeBlock(s, n) ==
  LET all == AllBlocks(s)
      fit == {i \in DOMAIN all :
                BlockId(s, all[i]) < 0 /\ BlockSize(s, all[i]) >= CalculateBlockSize(n)}
  IN  IF fit = {} THEN 0 ELSE all[Min(fit)]

-----------------------------------------------------------------------------
(* RecordStoreImpl: each operator gives the store after the method. *)

Padding(n) == [i \in 1 .. CalculateBlockSize(n) - BLOCK_HEADER_SIZE - n |-> Pad]

Overwritten(f, at, words) ==
  SubSeq(f, 1, at) \o words \o SubSeq(f, at + Len(words) + 1, Len(f))

WriteBlock(s, o, id, len, data) ==
  LET words == <<id, len>> \o data \o Padding(Len(data))
  IN  UpdateBlock([s EXCEPT !.file = Overwritten(@, o - DB_HEADER_SIZE, words)], o, id)

\* Faulty: the free size is not written to the file.
FreeBlockUnsaved(s, o, len) ==
  LET size == CalculateBlockSize(len)
      w    == WriteBlock(s, o, FREE, size - BLOCK_HEADER_SIZE, << >>)
  IN  [w EXCEPT !.hdr.freeSize = @ + size]

FreeBlock(s, o, len) ==
  LET size == CalculateBlockSize(len)
      w    == WriteBlock(s, o, FREE, size - BLOCK_HEADER_SIZE, << >>)
      free == s.hdr.freeSize + size
  IN  [w EXCEPT !.hdr.freeSize = free, !.saved.freeSize = free]

\* Faulty: a remainder with room for a header only is not made a block.
SplitBlockDropsHeader(s, o, id, len, data) ==
  LET w    == WriteBlock(s, o, id, Len(data), data)
      size == CalculateBlockSize(Len(data))
      left == CalculateBlockSize(len) - size - BLOCK_HEADER_SIZE
  IN  IF left > 0 THEN FreeBlock(w, o + size, left) ELSE w

(* The block at o, with room for len words, takes the record; what is left over is freed. *)
SplitBlock(s, o, id, len, data) ==
  LET w    == WriteBlock(s, o, id, Len(data), data)
      size == CalculateBlockSize(Len(data))
      left == CalculateBlockSize(len) - size - BLOCK_HEADER_SIZE
  IN  IF left >= 0 THEN FreeBlock(w, o + size, left) ELSE w

(* The blocks that hold records move up over the free ones, and the file is cut. *)
CompactRecords(s) ==
  LET all == AllBlocks(s)
      packed[i \in 0 .. Len(all)] ==
        IF i = 0 THEN << >>
        ELSE packed[i - 1] \o (IF BlockId(s, all[i]) < 0 THEN << >>
                               ELSE Words(s, all[i], BlockSize(s, all[i])))
      To(i) == DB_HEADER_SIZE + Len(packed[i - 1])
      moved == {i \in DOMAIN all : BlockId(s, all[i]) >= 0 /\ To(i) # all[i]}
      size  == Len(packed[Len(all)])
      Moved(id) == {i \in moved : BlockId(s, all[i]) = id}
      offsets == [id \in Ids |-> IF Moved(id) = {} THEN s.offsets[id]
                                 ELSE To(Max(Moved(id)))]
  IN  IF s.hdr.freeSize = 0 \/ size = s.hdr.dataSize THEN s
      ELSE [s EXCEPT !.file = packed[Len(all)], !.lastSeen = NO_OFFSET,
                     !.offsets = IF @ = Null THEN Null ELSE offsets,
                     !.hdr.dataSize = size, !.saved.dataSize = size,
                     !.hdr.freeSize = 0, !.saved.freeSize = 0]

(* A new block at the end of the file. *)
AppendBlock(s, id, data) ==
  LET w    == WriteBlock(s, GetSize(s), id, Len(data), data)
      size == s.hdr.dataSize + CalculateBlockSize(Len(data))
  IN  [w EXCEPT !.hdr.dataSize = size, !.saved.dataSize = size]

Reuses(s, data) ==
  /\ s.hdr.freeSize >= CalculateBlockSize(Len(data))
  /\ GetFreeBlock(s, Len(data)) > 0

\* Faulty: what compacting would gain is not considered.
TooFullUncompacted(s, data) ==
  /\ ~ Reuses(s, data)
  /\ GetSizeAvailable(s) < CalculateBlockSize(Len(data))

TooFull(s, data) ==
  /\ ~ Reuses(s, data)
  /\ GetSizeAvailable(s) + s.hdr.freeSize < CalculateBlockSize(Len(data))

AddBlock(s, id, data) ==
  IF Reuses(s, data)
  THEN LET o == GetFreeBlock(s, Len(data)) IN SplitBlock(s, o, id, DataLen(s, o), data)
  ELSE AppendBlock(IF GetSizeAvailable(s) < CalculateBlockSize(Len(data))
                   THEN CompactRecords(s) ELSE s, id, data)

-----------------------------------------------------------------------------
(* The operations, one step each. *)

IsOpen == out # Closed

NewHeader == [nextId |-> 1, numLive |-> 0, dataSize |-> 0, freeSize |-> 0]

Init ==
  /\ rs = [file |-> << >>, hdr |-> NewHeader, saved |-> NewHeader,
           offsets |-> Null, lastSeen |-> NO_OFFSET]
  /\ out = Closed

(* What is left of the store when the object is gone: the file. *)
Forgotten(s) == [s EXCEPT !.hdr = s.saved, !.offsets = Null, !.lastSeen = NO_OFFSET]

(* The header is loaded from the file; the index starts with nothing in it. *)
Open ==
  /\ ~ IsOpen
  /\ rs' = Forgotten(rs)
  /\ out' = Answer("open", rs.saved.numLive)

CloseRecordStore == IsOpen /\ rs' = Forgotten(CompactRecords(rs)) /\ out' = Closed

(* The isolate ends with the store open: the finalizer closes the file, nothing compacts it. *)
IsolateEnds == IsOpen /\ rs' = Forgotten(rs) /\ out' = Closed

AddRecord(data) ==
  LET id    == rs.hdr.nextId
      added == AddBlock(rs, id, data)
      num   == rs.hdr.numLive + 1
  IN  /\ IsOpen /\ id \in Ids
      /\ ~ TooFull(rs, data)
      /\ Len(added.file) <= MaxFile
      /\ rs' = [added EXCEPT !.hdr.nextId = id + 1, !.saved.nextId = id + 1,
                             !.hdr.numLive = num, !.saved.numLive = num]
      /\ out' = Answer("added", id)

AddRecordFull(data) ==
  /\ IsOpen /\ TooFull(rs, data)
  /\ out' = Answer("full", {})
  /\ UNCHANGED rs

(* getRecord, setRecord or deleteRecord of an id that is not found. *)
InvalidRecordID(id) ==
  LET h == GetRecordHeader(rs, id)
  IN  /\ IsOpen /\ h.at = INVALID_OFFSET
      /\ rs' = h.rs
      /\ out' = Answer("invalid", id)

DeleteRecord(id) ==
  LET h     == GetRecordHeader(rs, id)
      freed == FreeBlock(h.rs, h.at, DataLen(h.rs, h.at))
      num   == rs.hdr.numLive - 1
  IN  /\ IsOpen /\ h.at # INVALID_OFFSET
      /\ rs' = [freed EXCEPT !.offsets[id] = INVALID_OFFSET,
                             !.hdr.numLive = num, !.saved.numLive = num]
      /\ out' = Answer("deleted", id)

GetRecord(id) ==
  LET h == GetRecordHeader(rs, id)
  IN  /\ IsOpen /\ h.at # INVALID_OFFSET
      /\ rs' = h.rs
      /\ out' = Answer("data", BlockData(h.rs, h.at))

(* The old block is used again when the data fits; otherwise it is freed before it is known *)
(* that there is room for another.                                                          *)
SetRecord(id, data) ==
  LET h     == GetRecordHeader(rs, id)
      len   == DataLen(h.rs, h.at)
      freed == FreeBlock(h.rs, h.at, len)
      fits  == CalculateBlockSize(Len(data)) <= CalculateBlockSize(len)
  IN  /\ IsOpen /\ h.at # INVALID_OFFSET
      /\ \/ /\ fits
            /\ rs' = SplitBlock(h.rs, h.at, id, len, data)
            /\ out' = Answer("set", id)
         \/ /\ ~ fits /\ TooFull(freed, data)
            /\ rs' = freed
            /\ out' = Answer("full", {id})
         \/ /\ ~ fits /\ ~ TooFull(freed, data)
            /\ LET added == AddBlock(freed, id, data)
               IN  Len(added.file) <= MaxFile /\ rs' = added
            /\ out' = Answer("set", id)

(* An array of numLive ids: those of the records met, and zeros. *)
GetRecordIDs ==
  LET all == AllBlocks(rs)
      met == Among([i \in DOMAIN all |-> BlockId(rs, all[i])], Nat \ {0})
      num == rs.hdr.numLive
      ids == [i \in 1 .. num |-> IF i <= Len(met) THEN met[i] ELSE 0]
  IN  /\ IsOpen
      /\ out' = Answer("ids", ToSet(ids))
      /\ UNCHANGED rs

Next ==
  \/ Open \/ CloseRecordStore \/ IsolateEnds \/ GetRecordIDs
  \/ \E data \in Data : AddRecord(data) \/ AddRecordFull(data)
  \/ \E id \in Ids :
       \/ InvalidRecordID(id) \/ DeleteRecord(id) \/ GetRecord(id)
       \/ \E data \in Data : SetRecord(id, data)

Spec == Init /\ [][Next]_vars

-----------------------------------------------------------------------------
(* Properties. *)

Live(s) == {o \in ToSet(AllBlocks(s)) : BlockId(s, o) > 0}

(* The words of the free blocks, their headers included. *)
Free(s) == UNION {o .. o + BlockSize(s, o) - 1 : o \in ToSet(AllBlocks(s)) \ Live(s)}
FreeWords == Cardinality(Free(rs))

RecordsIn(s) ==
  LET of == [live \in SUBSET Int |->
               [id \in {BlockId(s, o) : o \in live} |->
                  BlockData(s, CHOOSE o \in live : BlockId(s, o) = id)]]
  IN  of[Live(s)]

Records == RecordsIn(rs)

(* The blocks tile the file from the header to its end; no id is there twice, and the ids *)
(* that are there were given out.                                                         *)
BlocksTile ==
  LET all == AllBlocks(rs) IN
  /\ Len(rs.file) = rs.saved.dataSize
  /\ \A i \in DOMAIN all :
       /\ all[i] + BlockSize(rs, all[i]) =
            IF i < Len(all) THEN all[i + 1] ELSE DB_HEADER_SIZE + rs.saved.dataSize
       /\ BlockId(rs, all[i]) \in {FREE} \cup 1 .. rs.saved.nextId - 1
       /\ \A j \in DOMAIN all :
            BlockId(rs, all[i]) = BlockId(rs, all[j]) /\ BlockId(rs, all[i]) # FREE => i = j

(* What reopening the store would read is what is in memory, though every method writes its *)
(* own part of the header; and the free size, never reduced when a free block is used       *)
(* again, is never less than what is free.                                                  *)
HeaderExact ==
  /\ IsOpen => rs.saved = rs.hdr
  /\ rs.saved.freeSize >= FreeWords
  /\ rs.saved.numLive >= Cardinality(Live(rs))

(* The index never leads a search astray: it knows a record's block or nothing of it, and a *)
(* search that goes on from the last block seen goes on from a block.                       *)
IndexSound ==
  rs.offsets # Null =>
    /\ \A o \in Live(rs) : LET known == rs.offsets[BlockId(rs, o)] IN known \in {o, INVALID_OFFSET}
    /\ rs.lastSeen \in {NO_OFFSET} \cup ToSet(AllBlocks(rs))

(* Whatever the free size claims, a record is refused, or lost when it is replaced, only *)
(* when the store would be too large even without its free blocks.                       *)
FullOnlyWhenFull ==
  \A data \in Data :
    IsOpen /\ TooFull(rs, data) =>
      rs.hdr.dataSize - FreeWords + CalculateBlockSize(Len(data))
        > STORAGE_SUITE_LIMIT - BLOCK_HEADER_SIZE - DB_HEADER_SIZE

(* Data without a word that is a record id where the header of a block could be: the size *)
(* of a block is a multiple of the header's, which is two words.                          *)
LooksPlain(data) == \A i \in DOMAIN data : i % BLOCK_HEADER_SIZE = 1 => data[i] \notin Ids
PlainData == \A data \in Data : LooksPlain(data)

(* What RecordStore says of an invalid id, and OffsetCache of what it caches: an id that no *)
(* record has is not found.  It holds with PlainData, where no record contains what looks   *)
(* like the header of another one.                                                          *)
NoPhantomRecord ==
  IsOpen => \A id \in Ids : GetRecordHeader(rs, id).at # INVALID_OFFSET => id \in DOMAIN Records

Map == INSTANCE RecordMap WITH
         recs <- Records, nextId <- rs.saved.nextId, num <- rs.saved.numLive

(* Records come back as they were written, whatever was added, replaced, deleted and moved *)
(* around them, with or without closing the store; ids are not reused; only a replacement  *)
(* that does not fit loses a record.                                                       *)
ImplementsMap == Map!Spec
=============================================================================
