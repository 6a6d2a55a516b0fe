------------------------------ MODULE FileCache ------------------------------
(***************************************************************************)
(* The files of the record stores: rms.c, which locks a store for the      *)
(* isolate that opened it, and midp_file_cache.c, which caches the writes  *)
(* to one file.  All of it is native code called by one native thread, so  *)
(* every call is one step.                                                 *)
(*                                                                         *)
(* There is one cache.  It belongs to the file opened while no cache       *)
(* existed and is dropped, after a flush, when that file is closed or any  *)
(* other file is opened; from then on both are written directly.  The      *)
(* cache is a list of blocks sorted by position which replace what the     *)
(* file has there, and it keeps the position the file would have.          *)
(*                                                                         *)
(* Left out: errors of the underlying storage, and the cached file size    *)
(* and free space, which only answer a question and steer nothing here.    *)
(***************************************************************************)
EXTENDS Integers, Sequences, SequencesExt

CONSTANTS
  Files, Handles, Data, ReadSizes, None,
  MaxSize,          \* bounds: no file grows past its own
  RMS_CACHE_LIMIT,  \* bytes the cache may take
  Overhead          \* sizeof(MidpFileCacheBlock)

ASSUME Sizes ==
  /\ RMS_CACHE_LIMIT \in Nat /\ Overhead \in Nat \ {0} /\ MaxSize \in [Files -> Nat]
  /\ Data \subseteq Seq(Nat) \ {<< >>} /\ ReadSizes \subseteq Nat \ {0}

Filler == 0           \* what the storage puts into a hole

Positions == 0 .. Max({MaxSize[f] : f \in Files})

Block == [position : Nat, data : Seq(Nat)]
Cache == [handle : Handles, size : Nat, position : Nat, blocks : Seq(Block)]

ASSUME NoneIsNothing == None \notin Files /\ None \notin Cache

VARIABLES
  disk,     \* the bytes the storage has for every file
  open,     \* the file every handle stands for, or None
  ospos,    \* the position the storage keeps for every handle that is not cached (the cache
            \* sets the position before every access)
  cache,    \* mFileCache, or None
  locks,    \* lockFileListPtr: the stores that are in use
  out       \* the last call and what it returned

vars == <<disk, open, ospos, cache, locks, out>>

Result(call, val) == [call |-> call, val |-> val]
Done == Result("done", None)

(* The storage, as rms.c and midp_file_cache.c use it. *)
StorageWrite(s, at, data) ==
  [i \in 1 .. Max({Len(s), at + Len(data)}) |->
     IF i \in at + 1 .. at + Len(data) THEN data[i - at]
     ELSE IF i <= Len(s) THEN s[i] ELSE Filler]

StorageRead(s, at, n) == SubSeq(s, at + 1, Min({at + n, Len(s)}))

-----------------------------------------------------------------------------
(* Blocks of the cache. *)

IsOverlap(x1, s1, x2, s2) == IF x1 <= x2 THEN x2 < x1 + s1 ELSE x1 < x2 + s2
IsInclude(x1, s1, x2, s2) == x1 <= x2 /\ x1 + s1 >= x2 + s2

Overlaps(b, p, n) == IsOverlap(b.position, Len(b.data), p, n)
Includes(b, p, n) == IsInclude(b.position, Len(b.data), p, n)
Cost(data) == Overhead + Len(data)

\* Faulty: only blocks behind the region end the search, so overlaps go unseen.
ScanPast(blocks, p, n) ==
  Min({Len(blocks) + 1} \cup {i \in DOMAIN blocks : p + n <= blocks[i].position})

(* Where the search for the n bytes at p ends: at the first block that overlaps them or *)
(* lies behind them, or behind the last block.                                          *)
Scan(blocks, p, n) ==
  Min({Len(blocks) + 1}
      \cup {i \in DOMAIN blocks : Overlaps(blocks[i], p, n) \/ p + n <= blocks[i].position})

Hits(c, n) ==
  LET i == Scan(c.blocks, c.position, n)
  IN  i \in DOMAIN c.blocks /\ Overlaps(c.blocks[i], c.position, n)

HitIncludes(c, n) ==
  Hits(c, n) /\ Includes(c.blocks[Scan(c.blocks, c.position, n)], c.position, n)

(* The storage's bytes once all blocks are written, first to last. *)
Written(s, blocks) ==
  LET End(k) == blocks[k].position + Len(blocks[k].data)
      Covering(i) == {k \in DOMAIN blocks : blocks[k].position < i /\ i <= End(k)}
  IN  [i \in 1 .. Max({Len(s)} \cup {End(k) : k \in DOMAIN blocks}) |->
         IF Covering(i) # {} THEN LET b == blocks[Max(Covering(i))] IN b.data[i - b.position]
         ELSE IF i <= Len(s) THEN s[i] ELSE Filler]

Empty(c) == [c EXCEPT !.blocks = << >>, !.size = 0]

Cached(h) == cache # None /\ cache.handle = h

CachedFile == open[cache.handle]

FlushedDisk == [disk EXCEPT ![CachedFile] = Written(@, cache.blocks)]

(* What the files contain as seen through the cache, and the positions they are at. *)
Content == [f \in Files |-> IF cache # None /\ CachedFile = f THEN FlushedDisk[f] ELSE disk[f]]
Position == [h \in Handles |-> IF Cached(h) THEN cache.position ELSE ospos[h]]

(* updateCachedSizes, after n bytes were written. *)
Advanced(c, n) == [c EXCEPT !.position = @ + n]

-----------------------------------------------------------------------------
Init ==
  /\ disk = [f \in Files |-> << >>]
  /\ open = [h \in Handles |-> None]
  /\ ospos = [h \in Handles |-> 0]
  /\ cache = None
  /\ locks = << >>
  /\ out = Done

IsLocked(f) == \E i \in DOMAIN locks : locks[i].file = f

(* midp_file_cache_finalize for a file that stays open: the storage gets the position too. *)
Finalize ==
  /\ disk' = FlushedDisk
  /\ ospos' = [ospos EXCEPT ![cache.handle] = cache.position]
  /\ cache' = None

NewCache(h) == [handle |-> h, size |-> 0, position |-> 0, blocks |-> << >>]

\* Faulty: the file that loses its cache is not told the position it is at.
OpenForgetsPosition(f, h) ==
  /\ ~ IsLocked(f)
  /\ open[h] = None
  /\ open' = [open EXCEPT ![h] = f]
  /\ disk' = IF cache = None THEN disk ELSE FlushedDisk
  /\ cache' = IF cache = None THEN NewCache(h) ELSE None
  /\ ospos' = [ospos EXCEPT ![h] = 0]
  /\ locks' = <<[file |-> f, handle |-> h]>> \o locks
  /\ out' = Done

Open(f, h) ==
  /\ ~ IsLocked(f)
  /\ open[h] = None
  /\ open' = [open EXCEPT ![h] = f]
  /\ \/ /\ cache = None
        /\ cache' = NewCache(h)
        /\ ospos' = [ospos EXCEPT ![h] = 0]
        /\ UNCHANGED disk
     \/ /\ cache # None
        /\ disk' = FlushedDisk
        /\ ospos' = [ospos EXCEPT ![h] = 0, ![cache.handle] = cache.position]
        /\ cache' = None
  /\ locks' = <<[file |-> f, handle |-> h]>> \o locks
  /\ out' = Done

(* rmsdb_record_store_open and rmsdb_record_store_delete refuse a store that is in use. *)
Locked(f) ==
  /\ IsLocked(f)
  /\ out' = Result("locked", f)
  /\ UNCHANGED <<disk, open, ospos, cache, locks>>

\* Faulty: the first lock of the list is dropped, whoever holds it.
UnlockedFirst(h) == Tail(locks)

(* recordStoreDeleteLock: the first lock that was taken with the handle is dropped. *)
Unlocked(h) == RemoveFirstMatch(locks, LAMBDA l : l.handle = h)

(* recordStoreClose, called by close() or by the finalizer of the RecordStoreFile. *)
Close(h) ==
  /\ open[h] # None
  /\ \/ /\ Cached(h)
        /\ disk' = FlushedDisk
        /\ cache' = None
     \/ /\ ~ Cached(h)
        /\ UNCHANGED <<disk, cache>>
  /\ open' = [open EXCEPT ![h] = None]
  /\ locks' = Unlocked(h)
  /\ out' = Done
  /\ ospos' = [ospos EXCEPT ![h] = 0]

(* A record store writes only inside its file or at its end.  It may seek   *)
(* past the end with a stale offset of its index, but to read, and nothing  *)
(* is read there: such calls are left out.                                  *)
Seek(h, p) ==
  /\ open[h] # None
  /\ p <= Len(Content[open[h]])
  /\ \/ /\ Cached(h)
        /\ cache' = [cache EXCEPT !.position = p]
        /\ UNCHANGED ospos
     \/ /\ ~ Cached(h)
        /\ ospos' = [ospos EXCEPT ![h] = p]
        /\ UNCHANGED cache
  /\ out' = Done
  /\ UNCHANGED <<disk, open, locks>>

(* midp_file_cache_write to a file that is not cached. *)
WriteDirect(h, data) ==
  /\ ~ Cached(h)
  /\ disk' = [disk EXCEPT ![open[h]] = StorageWrite(@, ospos[h], data)]
  /\ ospos' = [ospos EXCEPT ![h] = @ + Len(data)]
  /\ UNCHANGED cache

(* ... that lies inside a cached block. *)
WriteInBlock(h, data) ==
  LET i == Scan(cache.blocks, cache.position, Len(data))
      b == cache.blocks[i]
  IN  /\ Cached(h)
      /\ HitIncludes(cache, Len(data))
      /\ cache' = Advanced([cache EXCEPT !.blocks[i].data =
                              StorageWrite(b.data, cache.position - b.position, data)],
                           Len(data))
      /\ UNCHANGED <<disk, ospos>>

(* uncachedWrite, with the cache c and the storage d that a flush may have left. *)
UncachedWrite(h, data, c, d) ==
  /\ disk' = [d EXCEPT ![open[h]] = StorageWrite(@, c.position, data)]
  /\ cache' = Advanced(c, Len(data))
  /\ UNCHANGED ospos

(* ... that becomes a block of its own behind the block p, or in front of all if p is 0. *)
InsertBlock(h, data, c, d, p) ==
  LET b == [position |-> c.position, data |-> data]
  IN  /\ disk' = d
      /\ cache' = Advanced([c EXCEPT !.blocks = InsertAt(@, p + 1, b), !.size = @ + Cost(data)],
                           Len(data))
      /\ UNCHANGED ospos

(* ... and does not lie inside a block.  A block that it overlaps, and a cache that would  *)
(* become too large, are flushed; a write too large for any cache, or one for which there  *)
(* is no memory, goes to the storage past the blocks that are cached.                      *)
WriteNewBlock(h, data) ==
  /\ Cached(h)
  /\ ~ HitIncludes(cache, Len(data))
  /\ LET hit  == Hits(cache, Len(data))
         c    == IF hit THEN Empty(cache) ELSE cache
         d    == IF hit THEN FlushedDisk ELSE disk
         p    == IF hit THEN 0 ELSE Scan(cache.blocks, cache.position, Len(data)) - 1
         full == c.size + Cost(data) > RMS_CACHE_LIMIT
         c2   == IF full THEN Empty(cache) ELSE c
         d2   == IF full THEN FlushedDisk ELSE d
         p2   == IF full THEN 0 ELSE p
     IN  IF Cost(data) > RMS_CACHE_LIMIT
         THEN UncachedWrite(h, data, c, d)
         ELSE InsertBlock(h, data, c2, d2, p2) \/ UncachedWrite(h, data, c2, d2)

Write(h, data) ==
  /\ open[h] # None
  /\ LET at == Position[h] IN at <= Len(Content[open[h]]) /\ at + Len(data) <= MaxSize[open[h]]
  /\ WriteDirect(h, data) \/ WriteInBlock(h, data) \/ WriteNewBlock(h, data)
  /\ out' = Done
  /\ UNCHANGED <<open, locks>>

ReadDirect(h, n) ==
  /\ ~ Cached(h)
  /\ LET got == StorageRead(disk[open[h]], ospos[h], n)
     IN  /\ out' = Result("read", got)
         /\ ospos' = [ospos EXCEPT ![h] = @ + Len(got)]
  /\ UNCHANGED <<disk, cache>>

ReadInBlock(h, n) ==
  /\ Cached(h)
  /\ HitIncludes(cache, n)
  /\ LET b == cache.blocks[Scan(cache.blocks, cache.position, n)]
     IN  out' = Result("read", StorageRead(b.data, cache.position - b.position, n))
  /\ cache' = [cache EXCEPT !.position = @ + n]
  /\ UNCHANGED <<disk, ospos>>

(* A read that is not inside a block is served by the storage, after a flush if it overlaps *)
(* a block.  The position advances by n even when the file has less.                        *)
ReadFromFile(h, n) ==
  /\ Cached(h)
  /\ ~ HitIncludes(cache, n)
  /\ LET hit == Hits(cache, n)
         d   == IF hit THEN FlushedDisk ELSE disk
         got == StorageRead(d[open[h]], cache.position, n)
     IN  /\ disk' = d
         /\ out' = Result("read", got)
         /\ cache' = [(IF hit THEN Empty(cache) ELSE cache) EXCEPT !.position = @ + n]
  /\ UNCHANGED ospos

Read(h, n) ==
  /\ open[h] # None
  /\ Position[h] <= MaxSize[open[h]]
  /\ ReadDirect(h, n) \/ ReadInBlock(h, n) \/ ReadFromFile(h, n)
  /\ UNCHANGED <<open, locks>>

Truncate(h, n) ==
  /\ open[h] # None
  /\ n <= Len(Content[open[h]])
  /\ \/ /\ Cached(h)
        /\ disk' = [FlushedDisk EXCEPT ![open[h]] = SubSeq(@, 1, n)]
        /\ cache' = Empty(cache)
     \/ /\ ~ Cached(h)
        /\ disk' = [disk EXCEPT ![open[h]] = SubSeq(@, 1, n)]
        /\ UNCHANGED cache
  /\ out' = Done
  /\ UNCHANGED <<open, ospos, locks>>

CommitWrite(h) ==
  /\ open[h] # None
  /\ \/ /\ Cached(h)
        /\ disk' = FlushedDisk
        /\ cache' = Empty(cache)
     \/ /\ ~ Cached(h)
        /\ UNCHANGED <<disk, cache>>
  /\ out' = Done
  /\ UNCHANGED <<open, ospos, locks>>

(* Asking for the free space, through an open file or with None for a store that is still *)
(* to be created, flushes the cache if it is another file's.                              *)
AvailableSpace(h) ==
  /\ h \in Handles => open[h] # None
  /\ \/ /\ cache # None /\ cache.handle # h
        /\ disk' = FlushedDisk
        /\ cache' = Empty(cache)
     \/ /\ cache = None \/ Cached(h)
        /\ UNCHANGED <<disk, cache>>
  /\ out' = Done
  /\ UNCHANGED <<open, ospos, locks>>

(* rmsdb_get_rms_storage_size of a suite that has a store: the store is opened, which ends *)
(* all caching, measured and closed again.                                                 *)
StorageSize(f) ==
  /\ ~ IsLocked(f) /\ disk[f] # << >>
  /\ \E h \in Handles : open[h] = None
  /\ out' = Result("size", Len(disk[f]))
  /\ \/ cache = None /\ UNCHANGED <<disk, ospos, cache>>
     \/ cache # None /\ Finalize
  /\ UNCHANGED <<open, locks>>

Delete(f) ==
  /\ ~ IsLocked(f)
  /\ disk' = [disk EXCEPT ![f] = << >>]
  /\ out' = Done
  /\ UNCHANGED <<open, ospos, cache, locks>>

Next ==
  \/ \E f \in Files : Locked(f) \/ StorageSize(f) \/ Delete(f)
  \/ \E f \in Files, h \in Handles : Open(f, h)
  \/ \E h \in Handles \cup {None} : AvailableSpace(h)
  \/ \E h \in Handles :
       \/ Close(h) \/ CommitWrite(h)
       \/ \E p \in Positions : Seek(h, p) \/ Truncate(h, p)
       \/ \E data \in Data : Write(h, data)
       \/ \E n \in ReadSizes : Read(h, n)

Spec == Init /\ [][Next]_vars

-----------------------------------------------------------------------------
CostOf(blocks) ==
  LET upTo[n \in 0 .. Len(blocks)] ==
        IF n = 0 THEN 0 ELSE upTo[n - 1] + Cost(blocks[n].data)
  IN  upTo[Len(blocks)]

(* The blocks never take more than the limit and are accounted for exactly; they are in the *)
(* order of their positions and apart, which is what lets both searches stop early and the  *)
(* flush write them in any grouping.                                                        *)
BlocksSortedApart ==
  cache # None =>
    /\ cache.size <= RMS_CACHE_LIMIT
    /\ cache.size = CostOf(cache.blocks)
    /\ \A i, j \in DOMAIN cache.blocks :
         i < j => cache.blocks[i].position + Len(cache.blocks[i].data) <= cache.blocks[j].position

(* A store is locked exactly while it is open, by the handle it is open with, and no store *)
(* is open twice: whatever order stores are opened and closed in, nobody is locked out and  *)
(* nobody shares a file.                                                                   *)
LockedWhileOpen ==
  /\ \A h \in Handles : open[h] # None => [file |-> open[h], handle |-> h] \in ToSet(locks)
  /\ \A i \in DOMAIN locks : open[locks[i].handle] = locks[i].file
  /\ \A i, j \in DOMAIN locks : locks[i].file = locks[j].file => i = j

File == INSTANCE PlainFile WITH content <- Content, opened <- open, pos <- Position

(* The cache is invisible: reads return what was written last, wherever it is, writes that *)
(* bypass the cache included, and nothing is lost when caching stops or the file is closed. *)
ImplementsFile == File!Spec

=============================================================================
