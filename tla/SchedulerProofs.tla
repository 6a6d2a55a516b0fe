--------------------------- MODULE SchedulerProofs ---------------------------
(***************************************************************************)
(* Proofs about Scheduler, for any number of threads, tasks and objects.   *)
(***************************************************************************)
EXTENDS Scheduler, ListFacts

(* The monitors, with lists wq and sq, owners lk and wait_obj wo: a thread *)
(* is once on the lists of the object it waits for and on no other, the    *)
(* owner is not among them, nobody wants a monitor without an owner, and   *)
(* who waits for a monitor or owns it belongs to the task of the object.   *)
Lists(wq, sq) ==
  \A o \in Objects : /\ NoRepeat(wq[o]) /\ NoRepeat(sq[o])
                     /\ Elems(wq[o]) \cap Elems(sq[o]) = {}

WaitObjs(wq, sq, wo) ==
  \A o \in Objects, t \in Threads : wo[t] = o <=> t \in Elems(wq[o]) \cup Elems(sq[o])

Owners(sq, lk, wo) ==
  \A o \in Objects : IF lk[o] = Null THEN sq[o] = << >>
                     ELSE TaskOf[lk[o]] = HomeOf[o] /\ wo[lk[o]] # o

AtHome(wo) ==
  \A o \in Objects, t \in Threads : wo[t] = o => TaskOf[t] = HomeOf[o]

MonitorTypes(wq, sq, lk, wo) ==
  /\ wq \in [Objects -> Seq(Threads)] /\ sq \in [Objects -> Seq(Threads)]
  /\ lk \in [Objects -> Threads \cup {Null}] /\ wo \in [Threads -> Objects \cup {Null}]

MonitorsOK(wq, sq, lk, wo) ==
  /\ MonitorTypes(wq, sq, lk, wo) /\ Lists(wq, sq) /\ WaitObjs(wq, sq, wo)
  /\ Owners(sq, lk, wo) /\ AtHome(wo)

(* A thread lives iff it is on one of the four lists or waits for an       *)
(* object, and those are exclusive.                                        *)
Placed ==
  /\ active \cap (async \cup suspendQ \cup sleeping) = {}
  /\ async \cap (suspendQ \cup sleeping) = {} /\ suspendQ \cap sleeping = {}
  /\ \A t \in Threads :
       /\ t \in alive <=> t \in active \cup async \cup suspendQ \cup sleeping \/ waitObj[t] # Null
       /\ t \in active \cup async \cup suspendQ \cup sleeping => waitObj[t] = Null

LockersLive == \A o \in Objects : locker[o] # Null => locker[o] \in alive

(* Only threads in wait() and sleeping ones have a time to wake up at.     *)
TimedInWait ==
  \A o \in Objects, t \in timed : waitObj[t] = o => t \in Elems(waitQ[o])

NothingEntered == \A t \in Threads \ alive, o \in Objects : reentry[t][o] = 0

IInv ==
  /\ TypeOK /\ MonitorsOK(waitQ, syncQ, locker, waitObj) /\ Placed
  /\ LockersLive /\ TimedInWait /\ NothingEntered
  /\ OwnsWhatItEntered /\ SuspendedStaysOff

USE NullIsNothing

-----------------------------------------------------------------------------
(* What happens to the monitors.                                           *)

(* A thread t that waits for nothing joins a list of o.                    *)
LEMMA JoinsWait ==
  ASSUME NEW wq, NEW sq, NEW lk, NEW wo, MonitorsOK(wq, sq, lk, wo),
         NEW t \in Threads, NEW o \in Objects,
         wo[t] = Null, TaskOf[t] = HomeOf[o], lk[o] # t
  PROVE  MonitorsOK([wq EXCEPT ![o] = Append(@, t)], sq, lk, [wo EXCEPT ![t] = o])
<1> DEFINE wq2 == [wq EXCEPT ![o] = Append(@, t)]
           wo2 == [wo EXCEPT ![t] = o]
<1>1. /\ wq[o] \in Seq(Threads) /\ t \notin Elems(wq[o]) /\ t \notin Elems(sq[o])
      /\ NoRepeat(wq[o]) /\ Elems(wq[o]) \cap Elems(sq[o]) = {}
  BY DEF MonitorsOK, MonitorTypes, Lists, WaitObjs
<1>2. /\ wq2[o] \in Seq(Threads) /\ Elems(wq2[o]) = Elems(wq[o]) \cup {t} /\ NoRepeat(wq2[o])
  BY <1>1, Appended DEF MonitorsOK, MonitorTypes
<1>3. \A p \in Objects \ {o} : wq2[p] = wq[p]
  BY DEF MonitorsOK, MonitorTypes
<1>4. \A u \in Threads : wo2[u] = IF u = t THEN o ELSE wo[u]
  BY DEF MonitorsOK, MonitorTypes
<1>5. MonitorTypes(wq2, sq, lk, wo2)
  BY <1>2 DEF MonitorsOK, MonitorTypes
<1> HIDE DEF wq2, wo2
<1>6. Lists(wq2, sq)
  BY <1>1, <1>2, <1>3 DEF MonitorsOK, Lists
<1>7. WaitObjs(wq2, sq, wo2)
  BY <1>1, <1>2, <1>3, <1>4 DEF MonitorsOK, WaitObjs
<1>8. Owners(sq, lk, wo2)
  BY <1>4 DEF MonitorsOK, MonitorTypes, Owners
<1>9. AtHome(wo2)
  BY <1>4 DEF MonitorsOK, AtHome
<1> QED BY <1>5, <1>6, <1>7, <1>8, <1>9 DEF MonitorsOK, wq2, wo2

\* A thread that queues up for a monitor another thread owns.
LEMMA JoinsSync ==
  ASSUME NEW wq, NEW sq, NEW lk, NEW wo, MonitorsOK(wq, sq, lk, wo),
         NEW t \in Threads, NEW o \in Objects,
         wo[t] = Null, TaskOf[t] = HomeOf[o], lk[o] \notin {t, Null}
  PROVE  MonitorsOK(wq, [sq EXCEPT ![o] = Append(@, t)], lk, [wo EXCEPT ![t] = o])
<1> DEFINE sq2 == [sq EXCEPT ![o] = Append(@, t)]
           wo2 == [wo EXCEPT ![t] = o]
<1>1. /\ sq[o] \in Seq(Threads) /\ t \notin Elems(wq[o]) /\ t \notin Elems(sq[o])
      /\ NoRepeat(sq[o]) /\ Elems(wq[o]) \cap Elems(sq[o]) = {}
  BY DEF MonitorsOK, MonitorTypes, Lists, WaitObjs
<1>2. /\ sq2[o] \in Seq(Threads) /\ Elems(sq2[o]) = Elems(sq[o]) \cup {t} /\ NoRepeat(sq2[o])
  BY <1>1, Appended DEF MonitorsOK, MonitorTypes
<1>3. \A p \in Objects \ {o} : sq2[p] = sq[p]
  BY DEF MonitorsOK, MonitorTypes
<1>4. \A u \in Threads : wo2[u] = IF u = t THEN o ELSE wo[u]
  BY DEF MonitorsOK, MonitorTypes
<1>5. MonitorTypes(wq, sq2, lk, wo2)
  BY <1>2 DEF MonitorsOK, MonitorTypes
<1> HIDE DEF sq2, wo2
<1>6. Lists(wq, sq2)
  BY <1>1, <1>2, <1>3 DEF MonitorsOK, Lists
<1>7. WaitObjs(wq, sq2, wo2)
  BY <1>1, <1>2, <1>3, <1>4 DEF MonitorsOK, WaitObjs
<1>8. Owners(sq2, lk, wo2)
  BY <1>3, <1>4 DEF MonitorsOK, MonitorTypes, Owners
<1>9. AtHome(wo2)
  BY <1>4 DEF MonitorsOK, AtHome
<1> QED BY <1>5, <1>6, <1>7, <1>8, <1>9 DEF MonitorsOK, sq2, wo2

(* The owner of the monitors os hands them over.                           *)
HandedWaitObj(os) == [u \in Threads |-> IF u \in Heirs(os) THEN Null ELSE waitObj[u]]

\* signal_waiters: a monitor that is given up goes to the first who waits for
\* it.
LEMMA HandOverOne ==
  ASSUME MonitorsOK(waitQ, syncQ, locker, waitObj),
         NEW os \in SUBSET Objects, NEW o \in os
  PROVE  /\ SyncAfter(os)[o] \in Seq(Threads) /\ NoRepeat(SyncAfter(os)[o])
         /\ LockerAfter(os)[o] = HandedTo(o)
         /\ \/ syncQ[o] = << >> /\ SyncAfter(os)[o] = << >> /\ HandedTo(o) = Null
            \/ /\ HandedTo(o) \in Elems(syncQ[o]) /\ HandedTo(o) \in Threads
               /\ HandedTo(o) = Head(syncQ[o]) /\ waitObj[HandedTo(o)] = o
               /\ Elems(SyncAfter(os)[o]) = Elems(syncQ[o]) \ {HandedTo(o)}
<1>1. o \in Objects /\ syncQ[o] \in Seq(Threads) /\ NoRepeat(syncQ[o])
  BY DEF MonitorsOK, MonitorTypes, Lists
<1>2. LockerAfter(os)[o] = HandedTo(o)
  BY <1>1 DEF LockerAfter
<1>3. SyncAfter(os)[o] = IF syncQ[o] # << >> THEN Tail(syncQ[o]) ELSE syncQ[o]
  BY <1>1 DEF SyncAfter
<1>4. CASE syncQ[o] = << >>
  BY <1>1, <1>2, <1>3, <1>4 DEF HandedTo
<1>5. CASE syncQ[o] # << >>
  <2>1. HandedTo(o) = Head(syncQ[o])
    BY <1>5 DEF HandedTo
  <2>2. waitObj[Head(syncQ[o])] = o
    BY <1>1, <1>5, HeadTail DEF MonitorsOK, WaitObjs
  <2> QED BY <1>1, <1>2, <1>3, <1>5, <2>1, <2>2, HeadTail
<1> QED BY <1>4, <1>5

\* The same for all monitors a thread gives up at once.
LEMMA HandOver ==
  ASSUME MonitorsOK(waitQ, syncQ, locker, waitObj),
         NEW os \in SUBSET Objects
  PROVE  /\ MonitorsOK(waitQ, SyncAfter(os), LockerAfter(os), HandedWaitObj(os))
         /\ Heirs(os) \subseteq Threads
         /\ \A t \in Threads : t \in Heirs(os) <=> \E o \in os : LockerAfter(os)[o] = t
         /\ \A t \in Heirs(os) : \E o \in os : waitObj[t] = o /\ t \in Elems(syncQ[o])
         /\ \A o \in Objects \ os : LockerAfter(os)[o] = locker[o]
<1> DEFINE sq == SyncAfter(os)
           lk == LockerAfter(os)
           wo == HandedWaitObj(os)
<1>1. \A o \in os : /\ sq[o] \in Seq(Threads) /\ NoRepeat(sq[o]) /\ lk[o] = HandedTo(o)
                    /\ \/ syncQ[o] = << >> /\ sq[o] = << >> /\ lk[o] = Null
                       \/ /\ lk[o] \in Elems(syncQ[o]) /\ lk[o] \in Threads /\ waitObj[lk[o]] = o
                          /\ Elems(sq[o]) = Elems(syncQ[o]) \ {lk[o]}
  BY HandOverOne
<1>2. \A o \in Objects \ os : sq[o] = syncQ[o] /\ lk[o] = locker[o]
  BY DEF SyncAfter, LockerAfter
<1>3. Heirs(os) \subseteq Threads
  BY <1>1 DEF Heirs
<1>4. \A t \in Threads : t \in Heirs(os) <=> \E o \in os : lk[o] = t
  BY <1>1 DEF Heirs
<1>5. \A u \in Threads : wo[u] = IF u \in Heirs(os) THEN Null ELSE waitObj[u]
  BY DEF HandedWaitObj
<1>6. MonitorTypes(waitQ, sq, lk, wo)
  <2>1. sq \in [Objects -> Seq(Threads)]
    <3>1. \A o \in Objects : sq[o] \in Seq(Threads)
      BY <1>1, <1>2 DEF MonitorsOK, MonitorTypes
    <3> QED BY <3>1 DEF SyncAfter
  <2>2. lk \in [Objects -> Threads \cup {Null}]
    <3>1. \A o \in Objects : lk[o] \in Threads \cup {Null}
      BY <1>1, <1>2 DEF MonitorsOK, MonitorTypes
    <3> QED BY <3>1 DEF LockerAfter
  <2> QED BY <2>1, <2>2 DEF MonitorsOK, MonitorTypes, HandedWaitObj
<1> HIDE DEF sq, lk, wo
<1>7. \A o \in Objects : Elems(sq[o]) = Elems(syncQ[o]) \ Heirs(os)
  <2> SUFFICES ASSUME NEW o \in Objects
               PROVE  Elems(sq[o]) = Elems(syncQ[o]) \ Heirs(os)
    OBVIOUS
  <2>1. \A t \in Elems(syncQ[o]) : t \in Threads /\ waitObj[t] = o
    BY ElemsType DEF MonitorsOK, MonitorTypes, WaitObjs
  <2>2. CASE o \in os
    <3>1. \A t \in Elems(syncQ[o]) : t \in Heirs(os) <=> lk[o] = t
      BY <1>1, <1>4, <2>1, <2>2
    <3>2. CASE syncQ[o] = << >>
      BY <1>1, <2>2, <3>2, EmptyList
    <3>3. CASE syncQ[o] # << >>
      BY <1>1, <2>2, <3>1, <3>3
    <3> QED BY <3>2, <3>3
  <2>3. CASE o \notin os
    <3>1. \A t \in Elems(syncQ[o]) : t \notin Heirs(os)
      BY <1>1, <1>4, <2>1, <2>3
    <3> QED BY <1>2, <2>3, <3>1
  <2> QED BY <2>2, <2>3
<1>8. \A t \in Heirs(os) : \E o \in os : waitObj[t] = o /\ t \in Elems(syncQ[o])
  <2> SUFFICES ASSUME NEW t \in Heirs(os)
               PROVE  \E o \in os : waitObj[t] = o /\ t \in Elems(syncQ[o])
    OBVIOUS
  <2>1. PICK o \in os : lk[o] = t /\ t \in Threads
    BY <1>3, <1>4
  <2> QED BY <1>1, <2>1
<1>9. Lists(waitQ, sq)
  BY <1>1, <1>2, <1>7 DEF MonitorsOK, Lists
<1>10. WaitObjs(waitQ, sq, wo)
  <2>1. \A o \in Objects : \A t \in Elems(waitQ[o]) : t \notin Heirs(os)
    <3>1. \A o \in Objects : \A t \in Elems(waitQ[o]) : waitObj[t] = o /\ t \notin Elems(syncQ[o])
      BY ElemsType DEF MonitorsOK, MonitorTypes, WaitObjs, Lists
    <3> QED BY <1>8, <3>1
  <2> QED BY <1>5, <1>7, <2>1 DEF MonitorsOK, WaitObjs
<1>11. Owners(sq, lk, wo)
  <2> SUFFICES ASSUME NEW o \in Objects
               PROVE  IF lk[o] = Null THEN sq[o] = << >>
                      ELSE TaskOf[lk[o]] = HomeOf[o] /\ wo[lk[o]] # o
    BY DEF Owners
  <2>1. CASE o \in os /\ lk[o] # Null
    <3>1. lk[o] \in Threads /\ waitObj[lk[o]] = o /\ lk[o] \in Heirs(os)
      BY <1>1, <1>4, <2>1
    <3>2. wo[lk[o]] = Null
      BY <1>5, <3>1
    <3>3. TaskOf[lk[o]] = HomeOf[o]
      BY <3>1 DEF MonitorsOK, AtHome
    <3> QED BY <2>1, <3>2, <3>3
  <2>2. CASE o \in os /\ lk[o] = Null
    BY <1>1, <2>2
  <2>3. CASE o \notin os
    BY <1>2, <1>5, <2>3 DEF MonitorsOK, MonitorTypes, Owners
  <2> QED BY <2>1, <2>2, <2>3
<1>12. AtHome(wo)
  BY <1>5 DEF MonitorsOK, AtHome
<1> QED BY <1>2, <1>3, <1>4, <1>6, <1>8, <1>9, <1>10, <1>11, <1>12 DEF MonitorsOK, sq, lk, wo

(* The threads ws leave the list of those in wait() for o.                 *)
LEMMA GotLockIs ==
  ASSUME NEW ws \in Seq(Threads), NoRepeat(ws), NEW h
  PROVE  \/ /\ GotLock(ws, h) = {} /\ MustSync(ws, h) = ws /\ (h # Null \/ ws = << >>)
         \/ /\ GotLock(ws, h) = {Head(ws)} /\ Head(ws) \in Elems(ws) /\ Head(ws) \in Threads
            /\ h = Null /\ MustSync(ws, h) \in Seq(Threads) /\ NoRepeat(MustSync(ws, h))
            /\ Elems(MustSync(ws, h)) = Elems(ws) \ {Head(ws)}
<1>1. CASE h = Null /\ ws # << >>
  BY <1>1, HeadTail DEF GotLock, MustSync
<1>2. CASE ~(h = Null /\ ws # << >>)
  BY <1>2 DEF GotLock, MustSync
<1> QED BY <1>1, <1>2

Splits(ws, rest, q) ==
  /\ ws \in Seq(Threads) /\ rest \in Seq(Threads) /\ NoRepeat(ws) /\ NoRepeat(rest)
  /\ Elems(ws) \cap Elems(rest) = {} /\ Elems(ws) \cup Elems(rest) = Elems(q)

WokenOK(wq, sq, lk, wo, o, ws, rest) ==
  MonitorsOK([wq EXCEPT ![o] = rest], [sq EXCEPT ![o] = sq[o] \o MustSync(ws, lk[o])],
             [lk EXCEPT ![o] = IF GotLock(ws, lk[o]) = {} THEN lk[o] ELSE Head(ws)],
             [u \in Threads |-> IF u \in GotLock(ws, lk[o]) THEN Null ELSE wo[u]])

GotOK(lk, wo, o, ws) ==
  \A t \in GotLock(ws, lk[o]) : t \in Threads /\ t = Head(ws) /\ wo[t] = o /\ t \in Elems(ws) /\ lk[o] = Null

\* notify_wakeup: the waiters that leave wait() get the monitor or queue up
\* for it.
LEMMA Woken ==
  ASSUME NEW wq, NEW sq, NEW lk, NEW wo, MonitorsOK(wq, sq, lk, wo), NEW o \in Objects,
         NEW ws, NEW rest, Splits(ws, rest, wq[o])
  PROVE  /\ WokenOK(wq, sq, lk, wo, o, ws, rest)
         /\ GotOK(lk, wo, o, ws)
<1> DEFINE got == GotLock(ws, lk[o])
           must == MustSync(ws, lk[o])
           wq2 == [wq EXCEPT ![o] = rest]
           sq2 == [sq EXCEPT ![o] = sq[o] \o must]
           lk2 == [lk EXCEPT ![o] = IF got = {} THEN lk[o] ELSE Head(ws)]
           wo2 == [u \in Threads |-> IF u \in got THEN Null ELSE wo[u]]
<1>0. /\ ws \in Seq(Threads) /\ rest \in Seq(Threads) /\ NoRepeat(ws) /\ NoRepeat(rest)
      /\ Elems(ws) \cap Elems(rest) = {} /\ Elems(ws) \cup Elems(rest) = Elems(wq[o])
  BY DEF Splits
<1>1. /\ sq[o] \in Seq(Threads) /\ NoRepeat(sq[o]) /\ Elems(wq[o]) \cap Elems(sq[o]) = {}
      /\ \A t \in Threads : wo[t] = o <=> t \in Elems(wq[o]) \cup Elems(sq[o])
      /\ lk[o] \in Threads \cup {Null} /\ Elems(ws) \subseteq Threads
  BY <1>0, ElemsType DEF MonitorsOK, MonitorTypes, Lists, WaitObjs
<1>2. \/ /\ got = {} /\ must = ws /\ (lk[o] # Null \/ ws = << >>)
      \/ /\ got = {Head(ws)} /\ Head(ws) \in Elems(ws) /\ Head(ws) \in Threads /\ lk[o] = Null
         /\ must \in Seq(Threads) /\ NoRepeat(must) /\ Elems(must) = Elems(ws) \ {Head(ws)}
  BY <1>0, GotLockIs
<1> HIDE DEF got, must
<1>3. /\ must \in Seq(Threads) /\ NoRepeat(must) /\ Elems(must) = Elems(ws) \ got
      /\ got \subseteq Threads
      /\ \A t \in got : t = Head(ws) /\ wo[t] = o /\ t \in Elems(ws) /\ lk[o] = Null
  BY <1>0, <1>1, <1>2
<1>4. /\ wq2[o] = rest /\ \A p \in Objects \ {o} : wq2[p] = wq[p]
  BY DEF MonitorsOK, MonitorTypes
<1>5. /\ sq2[o] = sq[o] \o must /\ \A p \in Objects \ {o} : sq2[p] = sq[p]
  BY DEF MonitorsOK, MonitorTypes
<1>6. /\ sq2[o] \in Seq(Threads) /\ NoRepeat(sq2[o]) /\ Elems(sq2[o]) = Elems(sq[o]) \cup (Elems(ws) \ got)
  <2>1. Elems(sq[o]) \cap Elems(must) = {}
    BY <1>0, <1>1, <1>3
  <2>2. /\ sq[o] \o must \in Seq(Threads) /\ NoRepeat(sq[o] \o must)
        /\ Elems(sq[o] \o must) = Elems(sq[o]) \cup Elems(must)
    BY <1>1, <1>3, <2>1, Joined
  <2> QED BY <1>3, <1>5, <2>2
<1>7. /\ lk2[o] = IF got = {} THEN lk[o] ELSE Head(ws)
      /\ \A p \in Objects \ {o} : lk2[p] = lk[p]
  BY DEF MonitorsOK, MonitorTypes
<1>8. \A u \in Threads : wo2[u] = IF u \in got THEN Null ELSE wo[u]
  OBVIOUS
<1>9. MonitorTypes(wq2, sq2, lk2, wo2)
  <2>1. wq2 \in [Objects -> Seq(Threads)] /\ wo2 \in [Threads -> Objects \cup {Null}]
    BY <1>0 DEF MonitorsOK, MonitorTypes
  <2>2. sq2 \in [Objects -> Seq(Threads)]
    BY <1>5, <1>6 DEF MonitorsOK, MonitorTypes
  <2>3. lk2 \in [Objects -> Threads \cup {Null}]
    BY <1>2 DEF MonitorsOK, MonitorTypes
  <2> QED BY <2>1, <2>2, <2>3 DEF MonitorTypes
<1> HIDE DEF wq2, sq2, lk2, wo2
<1>10. Lists(wq2, sq2)
  <2>1. Elems(rest) \cap (Elems(sq[o]) \cup (Elems(ws) \ got)) = {}
    BY <1>0, <1>1
  <2> QED BY <1>0, <1>4, <1>5, <1>6, <2>1 DEF MonitorsOK, Lists
<1>11. WaitObjs(wq2, sq2, wo2)
  <2> SUFFICES ASSUME NEW p \in Objects, NEW t \in Threads
               PROVE  wo2[t] = p <=> t \in Elems(wq2[p]) \cup Elems(sq2[p])
    BY DEF WaitObjs
  <2>1. CASE p = o
    <3>1. t \in got => t \notin Elems(rest) /\ t \notin Elems(sq[o])
      BY <1>0, <1>1, <1>3
    <3> QED BY <1>0, <1>1, <1>3, <1>4, <1>6, <1>8, <2>1, <3>1
  <2>2. CASE p # o
    BY <1>3, <1>4, <1>5, <1>8, <2>2 DEF MonitorsOK, WaitObjs
  <2> QED BY <2>1, <2>2
<1>12. Owners(sq2, lk2, wo2)
  <2> SUFFICES ASSUME NEW p \in Objects
               PROVE  IF lk2[p] = Null THEN sq2[p] = << >>
                      ELSE TaskOf[lk2[p]] = HomeOf[p] /\ wo2[lk2[p]] # p
    BY DEF Owners
  <2>1. CASE p # o
    BY <1>5, <1>7, <1>8, <2>1 DEF MonitorsOK, MonitorTypes, Owners
  <2>2. CASE p = o /\ got # {}
    <3>1. lk2[o] = Head(ws) /\ Head(ws) \in got /\ Head(ws) \in Threads /\ wo[Head(ws)] = o
      BY <1>2, <1>3, <1>7, <2>2
    <3>2. wo2[Head(ws)] = Null /\ TaskOf[Head(ws)] = HomeOf[o]
      BY <1>8, <3>1 DEF MonitorsOK, AtHome
    <3> QED BY <2>2, <3>1, <3>2
  <2>3. CASE p = o /\ got = {} /\ lk[o] = Null
    <3>1. must = << >> /\ sq[o] = << >> /\ lk2[o] = Null
      BY <1>2, <1>7, <2>3 DEF MonitorsOK, Owners
    <3> QED BY <1>5, <2>3, <3>1
  <2>4. CASE p = o /\ got = {} /\ lk[o] # Null
    BY <1>1, <1>7, <1>8, <2>4 DEF MonitorsOK, Owners
  <2> QED BY <2>1, <2>2, <2>3, <2>4
<1>13. AtHome(wo2)
  BY <1>8 DEF MonitorsOK, AtHome
<1> QED BY <1>3, <1>9, <1>10, <1>11, <1>12, <1>13 DEF MonitorsOK, WokenOK, GotOK, got, must, wq2, sq2, lk2, wo2

-----------------------------------------------------------------------------
(* Every step preserves the invariant.                                     *)

\* Steps that touch no monitor.
LEMMA MonitorsKept ==
  ASSUME IInv, UNCHANGED <<waitQ, syncQ, locker, waitObj>>
  PROVE  MonitorsOK(waitQ, syncQ, locker, waitObj)'
BY DEF IInv, MonitorsOK, MonitorTypes, Lists, WaitObjs, Owners, AtHome

(* Steps that move threads between the lists of those that wait for no     *)
(* object.                                                                 *)
LEMMA ListsStep ==
  ASSUME IInv, UNCHANGED <<waitQ, syncQ, locks, interrupt, alive, ended, stopping>>,
         TypeOK', Placed',
         timed' \subseteq timed \cup {t \in Threads : waitObj[t] = Null},
         SuspendedStaysOff'
  PROVE  IInv'
<1>1. MonitorsOK(waitQ, syncQ, locker, waitObj)'
  BY MonitorsKept DEF locks
<1>2. LockersLive' /\ NothingEntered'
  BY DEF IInv, LockersLive, NothingEntered, locks
<1>3. TimedInWait'
  BY DEF IInv, TimedInWait, locks
<1>4. OwnsWhatItEntered'
  BY DEF IInv, OwnsWhatItEntered, Dying, locks
<1> QED BY <1>1, <1>2, <1>3, <1>4 DEF IInv

\* Synchronizer::enter on a free object.
LEMMA LockStep ==
  ASSUME IInv, NEW t \in Threads, NEW o \in Objects, Lock(t, o)
  PROVE  IInv'
<1> USE DEF Lock, Runs, queues, lives
<1>1. waitObj[t] = Null /\ t \in alive /\ locker'[o] = t
      /\ \A p \in Objects \ {o} : locker'[p] = locker[p]
  BY DEF IInv, Placed, TypeOK
<1>2. TypeOK'
  BY DEF IInv, TypeOK
<1>3. MonitorsOK(waitQ, syncQ, locker, waitObj)'
  <2>1. Owners(syncQ, locker, waitObj)'
    BY <1>1 DEF IInv, MonitorsOK, Owners
  <2> QED BY <1>2, <2>1 DEF IInv, TypeOK, MonitorsOK, MonitorTypes, Lists, WaitObjs, AtHome
<1>4. Placed' /\ TimedInWait' /\ NothingEntered' /\ SuspendedStaysOff'
  BY DEF IInv, Placed, TimedInWait, NothingEntered, SuspendedStaysOff
<1>5. LockersLive'
  BY <1>1 DEF IInv, LockersLive
<1>6. OwnsWhatItEntered'
  BY <1>1 DEF IInv, OwnsWhatItEntered, Dying, TypeOK
<1> QED BY <1>2, <1>3, <1>4, <1>5, <1>6 DEF IInv

\* A reentrant lock is counted up or down.
LEMMA CountStep ==
  ASSUME IInv, NEW t \in Threads, NEW o \in Objects,
         Relock(t, o) \/ UnlockReentrant(t, o)
  PROVE  IInv'
<1> USE DEF Relock, UnlockReentrant, Runs, queues, lives, Reentrant
<1>1. t \in alive /\ locker[o] = t
  BY DEF IInv, Placed
<1>2. /\ reentry' \in [Threads -> [Objects -> 0..MaxReentry]]
      /\ \A u \in Threads, p \in Objects : u # t \/ p # o => reentry'[u][p] = reentry[u][p]
  <2>1. reentry \in [Threads -> [Objects -> 0..MaxReentry]] /\ reentry[t][o] \in 0 .. MaxReentry
    BY DEF IInv, TypeOK
  <2>2. PICK n \in 0 .. MaxReentry : reentry' = [reentry EXCEPT ![t][o] = n]
    <3>1. CASE Relock(t, o)
      <4>1. reentry[t][o] + 1 \in 0 .. MaxReentry
        BY <2>1, <3>1, Placement
      <4> QED BY <3>1, <4>1
    <3>2. CASE UnlockReentrant(t, o)
      <4>1. reentry[t][o] - 1 \in 0 .. MaxReentry
        BY <2>1, <3>2, Placement
      <4> QED BY <3>2, <4>1
    <3> QED BY <3>1, <3>2
  <2> QED BY <2>1, <2>2
<1>3. TypeOK'
  BY <1>2 DEF IInv, TypeOK
<1>4. MonitorsOK(waitQ, syncQ, locker, waitObj)'
  BY MonitorsKept
<1>5. Placed' /\ TimedInWait' /\ SuspendedStaysOff' /\ LockersLive'
  BY DEF IInv, Placed, TimedInWait, SuspendedStaysOff, LockersLive
<1>6. NothingEntered'
  BY <1>1, <1>2 DEF IInv, NothingEntered
<1>7. OwnsWhatItEntered'
  <2>1. alive' = alive /\ locker' = locker /\ waitObj' = waitObj /\ stopping' = stopping
    OBVIOUS
  <2>2. ASSUME NEW u \in alive, NEW p \in Objects, reentry'[u][p] > 0, ~Dying(u)
        PROVE  locker[p] = u \/ waitObj[u] = p
    <3>1. u \in Threads
      BY DEF IInv, TypeOK
    <3> QED BY <1>1, <1>2, <2>2, <3>1 DEF IInv, OwnsWhatItEntered
  <2> QED BY <2>1, <2>2 DEF OwnsWhatItEntered, Dying
<1> QED BY <1>3, <1>4, <1>5, <1>6, <1>7 DEF IInv

\* Synchronizer::enter on an object another thread owns.
LEMMA EnterWaitsStep ==
  ASSUME IInv, NEW t \in Threads, NEW o \in Objects, EnterWaits(t, o)
  PROVE  IInv'
<1> USE DEF EnterWaits, Runs, lives
<1>1. /\ waitObj[t] = Null /\ t \in alive
      /\ \A u \in Threads : waitObj'[u] = IF u = t THEN o ELSE waitObj[u]
  BY DEF IInv, Placed, TypeOK
<1>2. MonitorsOK(waitQ, syncQ, locker, waitObj)'
  BY <1>1, JoinsSync DEF IInv
<1>3. TypeOK'
  BY <1>2 DEF IInv, TypeOK, MonitorsOK, MonitorTypes
<1>4. Placed'
  BY <1>1 DEF IInv, Placed
<1>5. TimedInWait'
  BY <1>1 DEF IInv, TypeOK, TimedInWait
<1>6. NothingEntered' /\ SuspendedStaysOff' /\ LockersLive'
  BY DEF IInv, NothingEntered, SuspendedStaysOff, LockersLive
<1>7. OwnsWhatItEntered'
  BY <1>1 DEF IInv, OwnsWhatItEntered, Dying, TypeOK
<1> QED BY <1>2, <1>3, <1>4, <1>5, <1>6, <1>7 DEF IInv

\* Only the pending interrupts change.
LEMMA InterruptStep ==
  ASSUME IInv, UNCHANGED <<queues, locks, timed, lives>>, interrupt' \subseteq Threads
  PROVE  IInv'
<1> USE DEF queues, locks, lives
<1>1. MonitorsOK(waitQ, syncQ, locker, waitObj)'
  BY MonitorsKept
<1>2. TypeOK'
  BY DEF IInv, TypeOK
<1> QED BY <1>1, <1>2 DEF IInv, Placed, TimedInWait, NothingEntered, SuspendedStaysOff,
                           LockersLive, OwnsWhatItEntered, Dying

\* Sleeping, blocking natives, and their ends.
LEMMA SleepStep ==
  ASSUME IInv, NEW t \in Threads, Sleep(t) \/ SleepEnds(t) \/ Block(t) \/ Unblock(t)
  PROVE  IInv'
<1> USE DEF lives
<1>1. CASE Sleep(t)
  BY <1>1, ListsStep DEF Sleep, IInv, TypeOK, Placed, SuspendedStaysOff, Runs, locks
<1>2. CASE SleepEnds(t)
  BY <1>2, ListsStep DEF SleepEnds, Ready, Held, IInv, TypeOK, Placed, SuspendedStaysOff, locks
<1>3. CASE Block(t)
  BY <1>3, ListsStep DEF Block, IInv, TypeOK, Placed, SuspendedStaysOff, Runs, locks
<1>4. CASE Unblock(t)
  BY <1>4, ListsStep DEF Unblock, Ready, Held, IInv, TypeOK, Placed, SuspendedStaysOff, locks
<1> QED BY <1>1, <1>2, <1>3, <1>4

\* suspend_threads and resume_threads.
LEMMA SuspendStep ==
  ASSUME IInv, NEW k \in Tasks, SuspendTask(k) \/ ResumeTask(k)
  PROVE  IInv'
<1>1. CASE SuspendTask(k)
  <2>1. SuspendedStaysOff'
    BY <1>1 DEF SuspendTask, ThreadsOf, IInv, TypeOK, Placed, SuspendedStaysOff
  <2> QED BY <1>1, <2>1, ListsStep DEF SuspendTask, ThreadsOf, IInv, TypeOK, Placed, locks
<1>2. CASE ResumeTask(k)
  <2>1. SuspendedStaysOff'
    BY <1>2 DEF ResumeTask, ThreadsOf, IInv, SuspendedStaysOff
  <2> QED BY <1>2, <2>1, ListsStep DEF ResumeTask, ThreadsOf, IInv, TypeOK, Placed, locks
<1> QED BY <1>1, <1>2

\* Scheduler::start.
LEMMA StartStep ==
  ASSUME IInv, NEW u \in Threads, NEW t \in Threads, StartThread(u, t)
  PROVE  IInv'
<1> USE DEF StartThread, Runs, locks
<1>1. MonitorsOK(waitQ, syncQ, locker, waitObj)'
  BY MonitorsKept
<1>2. TypeOK' /\ Placed'
  BY DEF IInv, TypeOK, Placed
<1>3. LockersLive' /\ NothingEntered' /\ TimedInWait' /\ SuspendedStaysOff'
  BY DEF IInv, LockersLive, NothingEntered, TimedInWait, SuspendedStaysOff
<1>4. OwnsWhatItEntered'
  BY DEF IInv, OwnsWhatItEntered, NothingEntered, Dying
<1> QED BY <1>1, <1>2, <1>3, <1>4 DEF IInv

\* is_in_list, by either name.
LEMMA MembersAreElems == \A q : Members(q) = Elems(q)
BY DEF Members, Elems

(* Threads that are queued live, and wait for that object.                 *)
LEMMA QueuedWait ==
  ASSUME IInv
  PROVE  /\ \A o \in Objects : \A t \in Elems(waitQ[o]) \cup Elems(syncQ[o]) :
              t \in Threads /\ waitObj[t] = o /\ t \in alive /\ TaskOf[t] = HomeOf[o]
         /\ \A o \in Objects : locker[o] # Null => TaskOf[locker[o]] = HomeOf[o]
<1>1. \A o \in Objects : Elems(waitQ[o]) \cup Elems(syncQ[o]) \subseteq Threads
  BY ElemsType DEF IInv, TypeOK
<1>2. \A o \in Objects : \A t \in Elems(waitQ[o]) \cup Elems(syncQ[o]) : waitObj[t] = o
  BY <1>1 DEF IInv, MonitorsOK, WaitObjs
<1>3. \A t \in Threads, o \in Objects : waitObj[t] = o => t \in alive /\ TaskOf[t] = HomeOf[o]
  BY DEF IInv, Placed, MonitorsOK, AtHome
<1>4. \A o \in Objects : locker[o] # Null => TaskOf[locker[o]] = HomeOf[o]
  BY DEF IInv, MonitorsOK, Owners
<1> QED BY <1>1, <1>2, <1>3, <1>4

\* Synchronizer::exit with a hand-over.
LEMMA UnlockStep ==
  ASSUME IInv, NEW t \in Threads, NEW o \in Objects, Unlock(t, o)
  PROVE  IInv'
<1> USE DEF Unlock, Runs, Reentrant, lives
<1> DEFINE heirs == Heirs({o})
<1>1. /\ MonitorsOK(waitQ, syncQ, locker, waitObj)' /\ heirs \subseteq Threads
      /\ \A u \in Threads : u \in heirs <=> locker'[o] = u
      /\ \A u \in heirs : waitObj[u] = o /\ u \in Elems(syncQ[o])
      /\ \A p \in Objects \ {o} : locker'[p] = locker[p]
  <2>1. /\ MonitorsOK(waitQ, SyncAfter({o}), LockerAfter({o}), HandedWaitObj({o}))
        /\ heirs \subseteq Threads
        /\ \A u \in Threads : u \in heirs <=> \E p \in {o} : LockerAfter({o})[p] = u
        /\ \A u \in heirs : \E p \in {o} : waitObj[u] = p /\ u \in Elems(syncQ[p])
        /\ \A p \in Objects \ {o} : LockerAfter({o})[p] = locker[p]
    <3>1. {o} \in SUBSET Objects
      OBVIOUS
    <3> QED BY <3>1, HandOver, Zenon DEF IInv
  <2>2. waitObj' = HandedWaitObj({o}) /\ locker' = LockerAfter({o}) /\ syncQ' = SyncAfter({o})
        /\ waitQ' = waitQ
    BY DEF HandedWaitObj
  <2>3. MonitorsOK(waitQ, syncQ, locker, waitObj)'
    BY <2>1, <2>2, Zenon
  <2> HIDE DEF heirs
  <2> QED BY <2>1, <2>2, <2>3
<1>2. \A u \in Threads : waitObj'[u] = IF u \in heirs THEN Null ELSE waitObj[u]
  OBVIOUS
<1>3. active' = active \cup heirs
  OBVIOUS
<1>4. \A u \in heirs : u \in Threads /\ u \in alive /\ TaskOf[u] = TaskOf[t] /\ waitObj[u] = o
  <2>1. \A u \in Elems(syncQ[o]) : u \in Threads /\ u \in alive /\ TaskOf[u] = HomeOf[o]
    BY QueuedWait
  <2>2. TaskOf[t] = HomeOf[o]
    BY QueuedWait
  <2> HIDE DEF heirs
  <2> QED BY <1>1, <2>1, <2>2
<1> HIDE DEF heirs
<1>5. TypeOK'
  BY <1>1, <1>3 DEF IInv, TypeOK, MonitorsOK, MonitorTypes
<1>6. Placed'
  BY <1>2, <1>3, <1>4 DEF IInv, Placed
<1>7. LockersLive'
  <2>1. ASSUME NEW p \in Objects, locker'[p] # Null PROVE locker'[p] \in alive'
    <3>1. locker'[p] \in Threads
      BY <1>1, <2>1 DEF MonitorsOK, MonitorTypes
    <3>2. CASE p = o
      BY <1>1, <1>4, <3>1, <3>2
    <3>3. CASE p # o
      BY <1>1, <2>1, <3>3 DEF IInv, LockersLive
    <3> QED BY <3>2, <3>3
  <2> QED BY <2>1 DEF LockersLive
<1>8. TimedInWait' /\ NothingEntered'
  BY <1>2 DEF IInv, TypeOK, TimedInWait, NothingEntered
<1>9. SuspendedStaysOff'
  BY <1>3, <1>4 DEF IInv, SuspendedStaysOff
<1>10. OwnsWhatItEntered'
  <2> SUFFICES ASSUME NEW u \in alive, NEW p \in Objects, reentry[u][p] > 0, ~Dying(u)
               PROVE  locker'[p] = u \/ waitObj'[u] = p
    BY DEF OwnsWhatItEntered, Dying
  <2>1. u \in Threads /\ (locker[p] = u \/ waitObj[u] = p)
    BY DEF IInv, TypeOK, OwnsWhatItEntered
  <2>2. ~(p = o /\ locker[p] = u)
    <3> SUFFICES ASSUME p = o, u = t PROVE FALSE
      OBVIOUS
    <3>1. reentry[t][o] > 0 /\ ~(reentry[t][o] > 0)
      OBVIOUS
    <3> QED BY <3>1
  <2>3. CASE waitObj[u] = p
    <3>1. u \in heirs => p = o
      BY <1>4, <2>3
    <3>2. u \in heirs => locker'[o] = u
      BY <1>1, <2>1
    <3> QED BY <1>2, <2>1, <2>3, <3>1, <3>2
  <2>4. CASE locker[p] = u /\ p # o
    BY <1>1, <2>4
  <2> QED BY <2>1, <2>2, <2>3, <2>4
<1> QED BY <1>1, <1>5, <1>6, <1>7, <1>8, <1>9, <1>10 DEF IInv

\* Scheduler::wait gives the monitor up and joins the waiters.
LEMMA WaitStep ==
  ASSUME IInv, NEW t \in Threads, NEW o \in Objects, NEW withTimeout \in BOOLEAN,
         Wait(t, o, withTimeout)
  PROVE  IInv'
<1> USE DEF Wait, Runs, lives
<1> DEFINE heirs == Heirs({o})
           mid == HandedWaitObj({o})
<1>1. /\ MonitorsOK(waitQ, SyncAfter({o}), LockerAfter({o}), mid) /\ heirs \subseteq Threads
      /\ \A u \in Threads : u \in heirs <=> locker'[o] = u
      /\ \A u \in heirs : waitObj[u] = o /\ u \in Elems(syncQ[o])
      /\ \A p \in Objects \ {o} : locker'[p] = locker[p]
  <2>1. {o} \in SUBSET Objects /\ MonitorsOK(waitQ, syncQ, locker, waitObj)
    BY DEF IInv
  <2> QED BY <2>1, HandOver
<1>2. /\ t \in alive /\ waitObj[t] = Null /\ TaskOf[t] = HomeOf[o] /\ locker[o] = t
  BY QueuedWait DEF IInv, Placed
<1>3. t \notin heirs /\ mid[t] = Null /\ locker'[o] # t
  BY <1>1, <1>2 DEF HandedWaitObj
<1>4. \A u \in Threads : waitObj'[u] = IF u = t THEN o ELSE IF u \in heirs THEN Null ELSE waitObj[u]
  OBVIOUS
<1>5. MonitorsOK(waitQ, syncQ, locker, waitObj)'
  <2>1. waitObj' = [mid EXCEPT ![t] = o]
    BY <1>4 DEF HandedWaitObj
  <2>2. MonitorsOK([waitQ EXCEPT ![o] = Append(@, t)], syncQ', locker', [mid EXCEPT ![t] = o])
    BY <1>1, <1>2, <1>3, JoinsWait
  <2> QED BY <2>1, <2>2
<1>6. active' = (active \ {t}) \cup heirs /\ timed' \subseteq timed \cup {t} /\ t \in active
      /\ UNCHANGED <<async, suspendQ, sleeping, reentry, interrupt, alive, ended, stopping, suspended>>
  OBVIOUS
<1>7. \A u \in heirs : u \in Threads /\ u \in alive /\ TaskOf[u] = TaskOf[t] /\ waitObj[u] = o
  <2>1. \A u \in Elems(syncQ[o]) : u \in Threads /\ u \in alive /\ TaskOf[u] = HomeOf[o]
    BY QueuedWait
  <2> HIDE DEF heirs
  <2> QED BY <1>1, <1>2, <2>1
<1>8. /\ t \in Elems(waitQ'[o]) /\ \A p \in Objects : Elems(waitQ[p]) \subseteq Elems(waitQ'[p])
  <2>1. waitQ[o] \in Seq(Threads) /\ waitQ'[o] = Append(waitQ[o], t)
        /\ \A p \in Objects \ {o} : waitQ'[p] = waitQ[p]
    BY DEF IInv, TypeOK
  <2>2. Elems(waitQ'[o]) = Elems(waitQ[o]) \cup {t}
    BY <2>1, Appended
  <2> QED BY <2>1, <2>2
<1> HIDE DEF heirs, mid, Wait, Runs
<1>9. TypeOK'
  BY <1>1, <1>5, <1>6 DEF IInv, TypeOK, MonitorsOK, MonitorTypes
<1>10. Placed'
  BY <1>2, <1>3, <1>4, <1>6, <1>7 DEF IInv, Placed
<1>11. LockersLive'
  <2>1. ASSUME NEW p \in Objects, locker'[p] # Null PROVE locker'[p] \in alive'
    <3>1. locker'[p] \in Threads /\ alive' = alive
      BY <1>5, <1>6, <2>1 DEF MonitorsOK, MonitorTypes
    <3>2. CASE p = o
      BY <1>1, <1>7, <3>1, <3>2
    <3>3. CASE p # o
      BY <1>1, <2>1, <3>1, <3>3 DEF IInv, LockersLive
    <3> QED BY <3>2, <3>3
  <2> QED BY <2>1 DEF LockersLive
<1>12. TimedInWait'
  <2>1. ASSUME NEW p \in Objects, NEW u \in timed', waitObj'[u] = p PROVE u \in Elems(waitQ'[p])
    <3>1. u = t \/ u \in timed
      BY <1>6
    <3>2. CASE u = t
      <4>1. waitObj'[t] = o
        BY <1>4
      <4> QED BY <1>8, <2>1, <3>2, <4>1
    <3>3. CASE u # t
      <4>1. u \in timed /\ u \in Threads
        BY <3>1, <3>3 DEF IInv, TypeOK
      <4>2. waitObj[u] = p
        BY <1>4, <2>1, <3>3, <4>1
      <4> QED BY <1>8, <4>1, <4>2 DEF IInv, TimedInWait
    <3> QED BY <3>2, <3>3
  <2> QED BY <2>1 DEF TimedInWait
<1>13. NothingEntered'
  BY <1>6 DEF IInv, NothingEntered
<1>14. SuspendedStaysOff'
  BY <1>6, <1>7 DEF IInv, SuspendedStaysOff
<1>15. OwnsWhatItEntered'
  <2> SUFFICES ASSUME NEW u \in alive, NEW p \in Objects, reentry[u][p] > 0, ~Dying(u)
               PROVE  locker'[p] = u \/ waitObj'[u] = p
    BY <1>6 DEF OwnsWhatItEntered, Dying
  <2>1. u \in Threads /\ (locker[p] = u \/ waitObj[u] = p)
    BY DEF IInv, TypeOK, OwnsWhatItEntered
  <2> QED BY <1>1, <1>2, <1>4, <1>7, <2>1
<1> QED BY <1>5, <1>9, <1>10, <1>11, <1>12, <1>13, <1>14, <1>15 DEF IInv

(* notify_wakeup.                                                          *)
LEMMA WakeStep ==
  ASSUME IInv, NEW o \in Objects, NEW ws, NEW rest, Splits(ws, rest, waitQ[o]),
         WakeWaiters(o, ws, rest), UNCHANGED <<interrupt, lives>>
  PROVE  IInv'
<1> USE DEF lives
<1> DEFINE got == GotLock(ws, locker[o])
<1>1. /\ active' = active \cup (got \ Held(got)) /\ suspendQ' = suspendQ \cup Held(got)
      /\ locker' = [locker EXCEPT ![o] = IF got = {} THEN locker[o] ELSE Head(ws)]
      /\ waitQ' = [waitQ EXCEPT ![o] = rest]
      /\ waitObj' = [u \in Threads |-> IF u \in got THEN Null ELSE waitObj[u]]
      /\ timed' = timed \ Elems(ws)
      /\ UNCHANGED <<async, sleeping, reentry>>
  BY MembersAreElems DEF WakeWaiters
<1>2. /\ MonitorsOK(waitQ, syncQ, locker, waitObj)'
      /\ \A t \in got : /\ t \in Threads /\ t = Head(ws) /\ waitObj[t] = o
                        /\ t \in Elems(ws) /\ locker[o] = Null
  <2>1. MonitorsOK(waitQ, syncQ, locker, waitObj)
    BY DEF IInv
  <2>2. /\ WokenOK(waitQ, syncQ, locker, waitObj, o, ws, rest)
        /\ \A t \in got : /\ t \in Threads /\ t = Head(ws) /\ waitObj[t] = o
                          /\ t \in Elems(ws) /\ locker[o] = Null
    <3>1. WokenOK(waitQ, syncQ, locker, waitObj, o, ws, rest)
      BY <2>1, Woken, Zenon
    <3>2. GotOK(locker, waitObj, o, ws)
      BY <2>1, Woken, Zenon
    <3> QED BY <3>1, <3>2 DEF GotOK
  <2>3. syncQ' = [syncQ EXCEPT ![o] = syncQ[o] \o MustSync(ws, locker[o])]
    BY DEF WakeWaiters
  <2> QED BY <1>1, <2>2, <2>3 DEF WokenOK
<1> HIDE DEF got
<1>3. \A u \in Threads : waitObj'[u] = IF u \in got THEN Null ELSE waitObj[u]
  BY <1>1
<1>4. \A u \in got : u \in Threads /\ u \in alive /\ waitObj[u] = o
  BY <1>2, QueuedWait DEF Splits
<1>5. /\ \A p \in Objects \ {o} : locker'[p] = locker[p] /\ waitQ'[p] = waitQ[p]
      /\ waitQ'[o] = rest
      /\ IF got = {} THEN locker'[o] = locker[o] ELSE locker'[o] \in got /\ got = {locker'[o]}
  BY <1>1, <1>2 DEF IInv, TypeOK
<1>6. Held(got) = {t \in got : TaskOf[t] \in suspended}
  BY DEF Held
<1>7. TypeOK'
  BY <1>1, <1>2, <1>6 DEF IInv, TypeOK, MonitorsOK, MonitorTypes
<1>8. Placed'
  BY <1>1, <1>3, <1>4, <1>6 DEF IInv, Placed
<1>9. LockersLive'
  BY <1>4, <1>5 DEF IInv, LockersLive
<1>10. TimedInWait'
  BY <1>1, <1>3, <1>5 DEF Splits, IInv, TypeOK, TimedInWait
<1>11. NothingEntered'
  BY <1>1 DEF IInv, NothingEntered
<1>12. SuspendedStaysOff'
  BY <1>1, <1>6 DEF IInv, SuspendedStaysOff
<1>13. OwnsWhatItEntered'
  <2> SUFFICES ASSUME NEW u \in alive, NEW p \in Objects, reentry[u][p] > 0, ~Dying(u)
               PROVE  locker'[p] = u \/ waitObj'[u] = p
    BY <1>1 DEF OwnsWhatItEntered, Dying
  <2>1. u \in Threads /\ (locker[p] = u \/ waitObj[u] = p)
    BY DEF IInv, TypeOK, OwnsWhatItEntered
  <2> QED BY <1>2, <1>3, <1>4, <1>5, <2>1
<1> QED BY <1>2, <1>7, <1>8, <1>9, <1>10, <1>11, <1>12, <1>13 DEF IInv

\* The waiters that one, all or a certain one is to leave.
LEMMA SplitsOff ==
  ASSUME IInv, NEW o \in Objects
  PROVE  /\ waitQ[o] # << >> => Splits(<<Head(waitQ[o])>>, Tail(waitQ[o]), waitQ[o])
         /\ Splits(waitQ[o], << >>, waitQ[o])
         /\ \A t \in Elems(waitQ[o]) : Splits(<<t>>, Without(waitQ[o], t), waitQ[o])
<1> DEFINE q == waitQ[o]
<1>1. q \in Seq(Threads) /\ NoRepeat(q)
  BY DEF IInv, TypeOK, MonitorsOK, Lists
<1> HIDE DEF q
<1>2. ASSUME q # << >>
      PROVE  Splits(<<Head(q)>>, Tail(q), q)
  <2>1. /\ Head(q) \in Threads /\ Head(q) \in Elems(q) /\ Tail(q) \in Seq(Threads)
        /\ NoRepeat(Tail(q)) /\ Elems(Tail(q)) = Elems(q) \ {Head(q)}
    BY <1>1, <1>2, HeadTail
  <2>2. <<Head(q)>> \in Seq(Threads) /\ Elems(<<Head(q)>>) = {Head(q)} /\ NoRepeat(<<Head(q)>>)
    BY <2>1, Single
  <2> QED BY <2>1, <2>2 DEF Splits
<1>3. Splits(q, << >>, q)
  <2>1. << >> \in Seq(Threads) /\ Elems(<< >>) = {} /\ NoRepeat(<< >>)
    BY EmptyList
  <2> QED BY <1>1, <2>1 DEF Splits
<1>4. ASSUME NEW t \in Elems(q)
      PROVE  Splits(<<t>>, Without(q, t), q)
  <2>1. t \in Threads
    BY <1>1, ElemsType
  <2>2. <<t>> \in Seq(Threads) /\ Elems(<<t>>) = {t} /\ NoRepeat(<<t>>)
    BY <2>1, Single
  <2>3. /\ Without(q, t) \in Seq(Threads) /\ NoRepeat(Without(q, t))
        /\ Elems(Without(q, t)) = Elems(q) \ {t}
    BY <1>1, Removed DEF Without
  <2> QED BY <2>2, <2>3 DEF Splits
<1> QED BY <1>2, <1>3, <1>4 DEF q

\* Scheduler::notify, of one or all, by this task or another.
LEMMA NotifyStep ==
  ASSUME IInv, NEW t \in Threads, NEW o \in Objects,
         Notify(t, o) \/ NotifyAll(t, o) \/ NotifyIsolate(o)
  PROVE  IInv'
<1>1. CASE Notify(t, o)
  BY <1>1, SplitsOff, WakeStep DEF Notify
<1>2. CASE NotifyAll(t, o)
  BY <1>2, SplitsOff, WakeStep DEF NotifyAll
<1>3. CASE NotifyIsolate(o)
  BY <1>3, SplitsOff, WakeStep DEF NotifyIsolate
<1> QED BY <1>1, <1>2, <1>3

\* A timeout or an interrupt takes one thread out of wait().
LEMMA WakeOneStep ==
  ASSUME IInv, NEW t \in Threads,
         WaitTimesOut(t) \/ \E u \in Threads : InterruptWaiting(u, t)
  PROVE  IInv'
<1>1. /\ waitObj[t] # Null /\ UNCHANGED <<interrupt, lives>>
      /\ WakeWaiters(waitObj[t], <<t>>, Without(waitQ[waitObj[t]], t))
      /\ t \in timed \/ t \in Elems(waitQ[waitObj[t]])
  BY MembersAreElems DEF WaitTimesOut, InterruptWaiting
<1>2. waitObj[t] \in Objects
  BY <1>1 DEF IInv, TypeOK
<1>3. t \in Elems(waitQ[waitObj[t]])
  BY <1>1, <1>2 DEF IInv, TimedInWait
<1> QED BY <1>1, <1>2, <1>3, SplitsOff, WakeStep

\* Scheduler::terminate: all locks are handed over, and those who join are
\* woken.
LEMMA EndStep ==
  ASSUME IInv, NEW t \in Threads, ThreadEnds(t)
  PROVE  IInv'
<1> DEFINE os == Unwound(t)
           j == ThreadObj[t]
           lk == LockerAfter(os)
           sq == SyncAfter(os)
           mid == HandedWaitObj(os)
           ws == IF j = Null THEN << >> ELSE waitQ[j]
           got == IF j = Null THEN {} ELSE GotLock(ws, lk[j])
           heirs == Heirs(os)
<1>1. /\ t \in active
      /\ active' = ((active \ {t}) \cup heirs) \cup (got \ Held(got))
      /\ suspendQ' = suspendQ \cup Held(got)
      /\ locker' = [o \in Objects |-> IF o = j /\ got # {} THEN Head(ws) ELSE lk[o]]
      /\ syncQ' = [o \in Objects |-> IF o = j THEN sq[o] \o MustSync(ws, lk[o]) ELSE sq[o]]
      /\ waitQ' = [o \in Objects |-> IF o = j THEN << >> ELSE waitQ[o]]
      /\ waitObj' = [u \in Threads |-> IF u \in heirs \cup got THEN Null ELSE waitObj[u]]
      /\ reentry' = [reentry EXCEPT ![t] = [o \in Objects |-> 0]]
      /\ timed' = timed \ (Elems(ws) \cup {t})
      /\ interrupt' = interrupt \ {t}
      /\ alive' = alive \ {t} /\ ended' = ended \cup {t}
      /\ UNCHANGED <<async, sleeping, stopping, suspended>>
  BY MembersAreElems DEF ThreadEnds
<1>2. os \subseteq Objects /\ \A o \in Objects : o \in os <=> locker[o] = t
  BY DEF Unwound, OwnedBy
<1> HIDE DEF os
<1>3. t \in alive /\ waitObj[t] = Null
  BY <1>1 DEF IInv, Placed
<1>4. /\ MonitorsOK(waitQ, sq, lk, mid) /\ heirs \subseteq Threads
      /\ \A u \in Threads : u \in heirs <=> \E o \in os : lk[o] = u
      /\ \A u \in heirs : \E o \in os : waitObj[u] = o /\ u \in Elems(syncQ[o])
      /\ \A o \in Objects \ os : lk[o] = locker[o]
  <2>1. MonitorsOK(waitQ, syncQ, locker, waitObj) /\ os \in SUBSET Objects
    BY <1>2 DEF IInv
  <2> QED BY <2>1, HandOver
<1>5. \A u \in Threads : mid[u] = IF u \in heirs THEN Null ELSE waitObj[u]
  BY DEF HandedWaitObj
<1>6. \A u \in heirs : /\ u \in Threads /\ u \in alive /\ u # t /\ TaskOf[u] = TaskOf[t]
                       /\ waitObj[u] # Null
  <2> SUFFICES ASSUME NEW u \in heirs
               PROVE  u \in Threads /\ u \in alive /\ u # t /\ TaskOf[u] = TaskOf[t] /\ waitObj[u] # Null
    OBVIOUS
  <2>1. PICK o \in os : waitObj[u] = o /\ u \in Elems(syncQ[o])
    BY <1>4
  <2>2. o \in Objects /\ locker[o] = t
    BY <1>2
  <2>3. u \in Threads /\ u \in alive /\ TaskOf[u] = HomeOf[o] /\ TaskOf[t] = HomeOf[o]
    BY <2>1, <2>2, QueuedWait
  <2> QED BY <1>3, <2>1, <2>2, <2>3
<1> HIDE DEF lk, sq, mid, heirs
<1>7. /\ MonitorsOK(waitQ, syncQ, locker, waitObj)'
      /\ \A u \in got : /\ u \in Threads /\ mid[u] = j /\ u \in Elems(waitQ[j])
                        /\ j \in Objects /\ lk[j] = Null /\ u = Head(ws)
  <2>1. CASE j = Null
    <3>1. \A o \in Objects : o # j
      BY <2>1
    <3>2. /\ lk = [o \in Objects |-> lk[o]] /\ sq = [o \in Objects |-> sq[o]]
          /\ waitQ = [o \in Objects |-> waitQ[o]]
      BY <1>4 DEF MonitorsOK, MonitorTypes
    <3>3. mid = [u \in Threads |-> IF u \in heirs THEN Null ELSE waitObj[u]]
      BY DEF mid, HandedWaitObj, heirs
    <3>4. locker' = lk /\ syncQ' = sq /\ waitQ' = waitQ /\ waitObj' = mid
      BY <1>1, <2>1, <3>1, <3>2, <3>3
    <3> QED BY <1>4, <2>1, <3>4
  <2>2. CASE j # Null
    <3>1. j \in Objects /\ ws = waitQ[j] /\ got = GotLock(ws, lk[j])
      BY <2>2, Placement
    <3>2. Splits(ws, << >>, waitQ[j])
      BY <3>1, SplitsOff
    <3> HIDE DEF j, ws
    <3>3. WokenOK(waitQ, sq, lk, mid, j, ws, << >>) /\ GotOK(lk, mid, j, ws)
      BY <1>4, <3>1, <3>2, Woken
    <3>4. \A u \in got : /\ u \in Threads /\ mid[u] = j /\ u \in Elems(waitQ[j])
                         /\ lk[j] = Null /\ u = Head(ws)
      BY <3>1, <3>3 DEF GotOK
    <3> HIDE DEF got
    <3>5. /\ waitQ' = [waitQ EXCEPT ![j] = << >>]
          /\ syncQ' = [sq EXCEPT ![j] = sq[j] \o MustSync(ws, lk[j])]
          /\ locker' = [lk EXCEPT ![j] = IF got = {} THEN lk[j] ELSE Head(ws)]
      BY <1>1, <1>4, <3>1 DEF MonitorsOK, MonitorTypes
    <3>6. waitObj' = [u \in Threads |-> IF u \in got THEN Null ELSE mid[u]]
      BY <1>1, <1>5
    <3> QED BY <3>1, <3>3, <3>4, <3>5, <3>6 DEF WokenOK
  <2> QED BY <2>1, <2>2
<1>8. \A u \in got : /\ u \in Threads /\ u \in alive /\ u # t /\ waitObj[u] = j /\ u \notin heirs
                     /\ got = {u} /\ locker'[j] = u
  <2> SUFFICES ASSUME NEW u \in got
               PROVE  /\ u \in Threads /\ u \in alive /\ u # t /\ waitObj[u] = j /\ u \notin heirs
                      /\ got = {u} /\ locker'[j] = u
    OBVIOUS
  <2>1. u \in Threads /\ mid[u] = j /\ j \in Objects /\ got = {u} /\ u = Head(ws) /\ got # {}
    BY <1>7
  <2> HIDE DEF got
  <2>2. u \notin heirs /\ waitObj[u] = j
    BY <1>5, <2>1
  <2>3. u \in alive
    BY <2>1, <2>2 DEF IInv, Placed
  <2>4. locker'[j] = u
    BY <1>1, <2>1
  <2> QED BY <1>3, <2>1, <2>2, <2>3, <2>4
<1>9. \A o \in Objects : lk[o] # Null \/ got = {} => locker'[o] = lk[o]
  <2>1. ASSUME NEW o \in Objects, lk[o] # Null \/ got = {}
        PROVE  ~(o = j /\ got # {})
    BY <1>7, <2>1
  <2> HIDE DEF got
  <2> QED BY <1>1, <2>1
<1>10. \A o \in Objects : locker'[o] = lk[o] \/ (locker'[o] \in got /\ o = j)
  <2>1. \A u \in got : u = Head(ws)
    BY <1>7
  <2> HIDE DEF got
  <2> QED BY <1>1, <2>1
<1>11. \A u \in Threads : waitObj'[u] = IF u \in heirs \cup got THEN Null ELSE waitObj[u]
  BY <1>1
<1>12. Held(got) = {u \in got : TaskOf[u] \in suspended}
  BY DEF Held
<1>13. \A o \in Objects : o # j => waitQ'[o] = waitQ[o]
  BY <1>1
<1>14. j \in Objects => ws = waitQ[j]
  OBVIOUS
<1> HIDE DEF got, ws, j
<1>15. TypeOK'
  BY <1>1, <1>4, <1>7, <1>8, <1>12, Placement DEF IInv, TypeOK, MonitorsOK, MonitorTypes
<1>16. Placed'
  <2>1. \A u \in got \cup heirs : u \in Threads /\ u \in alive /\ u # t /\ waitObj[u] # Null
    BY <1>6, <1>7, <1>8
  <2>2. \A u \in got \cup heirs : u \notin active \cup async \cup suspendQ \cup sleeping
    BY <2>1 DEF IInv, Placed
  <2>3. /\ active' \cap (async' \cup suspendQ' \cup sleeping') = {}
        /\ async' \cap (suspendQ' \cup sleeping') = {} /\ suspendQ' \cap sleeping' = {}
    <3>1. heirs \cap Held(got) = {}
      BY <1>8, <1>12
    <3> QED BY <1>1, <1>12, <2>2, <3>1 DEF IInv, Placed
  <2>4. ASSUME NEW u \in Threads
        PROVE  /\ u \in alive' <=> u \in active' \cup async' \cup suspendQ' \cup sleeping'
                                    \/ waitObj'[u] # Null
               /\ u \in active' \cup async' \cup suspendQ' \cup sleeping' => waitObj'[u] = Null
    <3>1. CASE u = t
      <4>1. t \notin heirs \cup got /\ t \notin async \cup suspendQ \cup sleeping
        BY <1>1, <2>1 DEF IInv, Placed
      <4> QED BY <1>1, <1>3, <1>11, <1>12, <3>1, <4>1
    <3>2. CASE u \in heirs \cup got
      BY <1>1, <1>11, <1>12, <2>1, <3>2
    <3>3. CASE u # t /\ u \notin heirs \cup got
      BY <1>1, <1>11, <1>12, <3>3 DEF IInv, Placed
    <3> QED BY <3>1, <3>2, <3>3
  <2> QED BY <2>3, <2>4 DEF Placed
<1>17. LockersLive'
  <2> SUFFICES ASSUME NEW o \in Objects, locker'[o] # Null
               PROVE  locker'[o] \in alive /\ locker'[o] # t
    BY <1>1 DEF LockersLive
  <2>1. CASE locker'[o] \in got
    BY <1>8, <2>1
  <2>2. CASE locker'[o] = lk[o] /\ o \in os
    <3>1. lk[o] \in heirs
      BY <1>2, <1>4, <2>2 DEF MonitorsOK, MonitorTypes
    <3> QED BY <1>6, <2>2, <3>1
  <2>3. CASE locker'[o] = lk[o] /\ o \notin os
    BY <1>2, <1>4, <2>3 DEF IInv, LockersLive
  <2> QED BY <1>10, <2>1, <2>2, <2>3
<1>18. TimedInWait'
  <2> SUFFICES ASSUME NEW o \in Objects, NEW u \in timed', waitObj'[u] = o
               PROVE  u \in Elems(waitQ'[o])
    BY DEF TimedInWait
  <2>1. u \in timed /\ u \in Threads /\ u \notin Elems(ws)
    BY <1>1 DEF IInv, TypeOK
  <2>2. waitObj[u] = o
    BY <1>11, <2>1
  <2>3. u \in Elems(waitQ[o])
    BY <2>1, <2>2 DEF IInv, TimedInWait
  <2> QED BY <1>13, <1>14, <2>1, <2>3
<1>19. NothingEntered'
  BY <1>1 DEF IInv, TypeOK, NothingEntered
<1>20. SuspendedStaysOff'
  BY <1>1, <1>6, <1>12 DEF IInv, SuspendedStaysOff
<1>21. OwnsWhatItEntered'
  <2> SUFFICES ASSUME NEW u \in alive, u # t, NEW p \in Objects, reentry[u][p] > 0, ~Dying(u)
               PROVE  locker'[p] = u \/ waitObj'[u] = p
    <3>1. \A u \in Threads \ {t} : reentry'[u] = reentry[u]
      BY <1>1 DEF IInv, TypeOK
    <3>2. alive \subseteq Threads
      BY DEF IInv, TypeOK
    <3> QED BY <1>1, <3>1, <3>2 DEF OwnsWhatItEntered, Dying
  <2>1. u \in Threads /\ u # Null /\ (locker[p] = u \/ waitObj[u] = p)
    BY DEF IInv, TypeOK, OwnsWhatItEntered
  <2>2. CASE locker[p] = u
    <3>1. lk[p] = u
      BY <1>2, <1>4, <2>2
    <3> QED BY <1>9, <2>1, <3>1
  <2>3. CASE waitObj[u] = p /\ u \in heirs
    <3>1. PICK o \in os : lk[o] = u
      BY <1>4, <2>1, <2>3
    <3>2. PICK o2 \in os : waitObj[u] = o2
      BY <1>4, <2>3
    <3>3. o \in Objects /\ lk[o] # Null /\ locker'[o] = u
      BY <1>2, <1>9, <2>1, <3>1
    <3>4. mid[u] = Null /\ waitObj'[u] = Null
      BY <1>5, <1>11, <2>1, <2>3
    <3>5. o = p
      BY <2>1, <2>3, <3>1, HandOverOne, <1>2, <1>4 DEF lk, IInv
    <3> QED BY <3>3, <3>5
  <2>4. CASE waitObj[u] = p /\ u \in got
    BY <1>8, <2>4
  <2>5. CASE waitObj[u] = p /\ u \notin heirs \cup got
    BY <1>11, <2>1, <2>5
  <2> QED BY <2>1, <2>2, <2>3, <2>4, <2>5
<1> QED BY <1>7, <1>15, <1>16, <1>17, <1>18, <1>19, <1>20, <1>21 DEF IInv

(* Task::stop finds all threads of the task on the lists of objects of the *)
(* task, and no others there.                                              *)
LEMMA StopFinds ==
  ASSUME IInv, NEW k \in Tasks, NEW o \in Objects
  PROVE  /\ HomeOf[o] = k => /\ WaitersOf(k, o) = waitQ[o]
                             /\ Among(waitQ[o], Threads \ InTask(k)) = << >>
         /\ HomeOf[o] # k => /\ WaitersOf(k, o) = << >> /\ SyncedOnStop(k, o) = syncQ[o]
                             /\ Among(waitQ[o], Threads \ InTask(k)) = waitQ[o]
         /\ SyncedOnStop(k, o) \in Seq(Threads)
         /\ Elems(SyncedOnStop(k, o)) \subseteq Elems(waitQ[o]) \cup Elems(syncQ[o])
<1>1. /\ waitQ[o] \in Seq(Threads) /\ syncQ[o] \in Seq(Threads)
      /\ NoRepeat(waitQ[o])
      /\ \A t \in Elems(waitQ[o]) : t \in Threads /\ TaskOf[t] = HomeOf[o]
  BY QueuedWait DEF IInv, TypeOK, MonitorsOK, Lists
<1>2. CASE HomeOf[o] = k
  <2>1. Elems(waitQ[o]) \subseteq InTask(k) /\ Elems(waitQ[o]) \cap (Threads \ InTask(k)) = {}
    BY <1>1, <1>2 DEF InTask
  <2>2. WaitersOf(k, o) = waitQ[o] /\ Among(waitQ[o], Threads \ InTask(k)) = << >>
    BY <1>1, <2>1, AmongAll, AmongNone DEF WaitersOf
  <2>3. MustSync(waitQ[o], locker[o]) \in Seq(Threads)
        /\ Elems(MustSync(waitQ[o], locker[o])) \subseteq Elems(waitQ[o])
    BY <1>1, GotLockIs
  <2>4. /\ syncQ[o] \o MustSync(waitQ[o], locker[o]) \in Seq(Threads)
        /\ Elems(syncQ[o] \o MustSync(waitQ[o], locker[o]))
             = Elems(syncQ[o]) \cup Elems(MustSync(waitQ[o], locker[o]))
    BY <1>1, <2>3, Joined
  <2> QED BY <1>2, <2>2, <2>3, <2>4 DEF SyncedOnStop
<1>3. CASE HomeOf[o] # k
  <2>1. Elems(waitQ[o]) \cap InTask(k) = {} /\ Elems(waitQ[o]) \subseteq Threads \ InTask(k)
    BY <1>1, <1>3 DEF InTask
  <2>2. WaitersOf(k, o) = << >> /\ Among(waitQ[o], Threads \ InTask(k)) = waitQ[o]
    BY <1>1, <2>1, AmongAll, AmongNone DEF WaitersOf
  <2>3. SyncedOnStop(k, o) = syncQ[o]
    <3>1. MustSync(<< >>, locker[o]) = << >>
      BY DEF MustSync
    <3> QED BY <1>1, <2>2, <3>1, Joined DEF SyncedOnStop
  <2> QED BY <1>1, <1>3, <2>2, <2>3
<1> QED BY <1>2, <1>3

\* wake_up_terminated_sleepers: every thread of the task is ready or owns
\* what it waited for.
LEMMA StopStep ==
  ASSUME IInv, NEW k \in Tasks, StopTask(k)
  PROVE  IInv'
<1> DEFINE ours == ThreadsOf(k)
<1>1. \A t \in Threads : t \in ours <=> t \in alive /\ TaskOf[t] = k
  BY DEF ThreadsOf
<1>2. {t \in ours : ~StillWants(k, t)} \cup Freed(k) = ours
  BY DEF IInv, TypeOK, Freed, StillWants, ThreadsOf
<1>3. /\ stopping' = stopping \cup {k} /\ suspended' = suspended \ {k}
      /\ active' = active \cup ours
      /\ async' = async \ ours /\ suspendQ' = suspendQ \ ours /\ sleeping' = sleeping \ ours
      /\ waitObj' = [t \in Threads |-> IF t \in ours THEN Null ELSE waitObj[t]]
      /\ timed' = timed \ ours
      /\ UNCHANGED <<reentry, interrupt, alive, ended>>
  BY <1>2 DEF StopTask
<1>4. \A o \in Objects :
        /\ waitQ'[o] = Among(waitQ[o], Threads \ InTask(k))
        /\ locker'[o] = IF locker[o] = Null /\ WaitersOf(k, o) # << >>
                        THEN Head(WaitersOf(k, o)) ELSE locker[o]
        /\ syncQ'[o] = IF Elems(SyncedOnStop(k, o)) \cap Freed(k) # {}
                       THEN << >> ELSE SyncedOnStop(k, o)
  BY MembersAreElems DEF StopTask
<1>5. /\ waitQ' = [o \in Objects |-> waitQ'[o]] /\ locker' = [o \in Objects |-> locker'[o]]
      /\ syncQ' = [o \in Objects |-> syncQ'[o]]
  BY DEF StopTask
<1>6. \A o \in Objects : HomeOf[o] = k =>
        /\ waitQ'[o] = << >> /\ syncQ'[o] = << >>
        /\ \/ locker'[o] = locker[o]
           \/ locker'[o] \in Threads /\ locker'[o] \in ours
  <2> SUFFICES ASSUME NEW o \in Objects, HomeOf[o] = k
               PROVE  /\ waitQ'[o] = << >> /\ syncQ'[o] = << >>
                      /\ \/ locker'[o] = locker[o]
                         \/ locker'[o] \in Threads /\ locker'[o] \in ours
    OBVIOUS
  <2>1. /\ WaitersOf(k, o) = waitQ[o] /\ Among(waitQ[o], Threads \ InTask(k)) = << >>
        /\ SyncedOnStop(k, o) \in Seq(Threads)
        /\ Elems(SyncedOnStop(k, o)) \subseteq Elems(waitQ[o]) \cup Elems(syncQ[o])
    BY StopFinds
  <2>2. \A t \in Elems(waitQ[o]) \cup Elems(syncQ[o]) : t \in Threads /\ t \in ours
    BY <1>1, QueuedWait
  <2>3. locker'[o] = locker[o] \/ (locker'[o] \in Threads /\ locker'[o] \in ours)
    <3>1. waitQ[o] # << >> => Head(waitQ[o]) \in Elems(waitQ[o])
      BY HeadTail DEF IInv, TypeOK
    <3> QED BY <1>4, <2>1, <2>2, <3>1
  <2>4. syncQ'[o] = << >>
    <3>1. Elems(SyncedOnStop(k, o)) = {} => SyncedOnStop(k, o) = << >>
      BY <2>1, EmptyList
    <3>2. Elems(SyncedOnStop(k, o)) \subseteq Freed(k)
      BY <2>1, <2>2, MembersAreElems DEF Freed, StillWants
    <3> QED BY <1>4, <3>1, <3>2
  <2> QED BY <1>4, <2>1, <2>3, <2>4
<1>7. \A o \in Objects : HomeOf[o] # k =>
        waitQ'[o] = waitQ[o] /\ syncQ'[o] = syncQ[o] /\ locker'[o] = locker[o]
  <2> SUFFICES ASSUME NEW o \in Objects, HomeOf[o] # k
               PROVE  waitQ'[o] = waitQ[o] /\ syncQ'[o] = syncQ[o] /\ locker'[o] = locker[o]
    OBVIOUS
  <2>1. /\ WaitersOf(k, o) = << >> /\ SyncedOnStop(k, o) = syncQ[o]
        /\ Among(waitQ[o], Threads \ InTask(k)) = waitQ[o]
    BY StopFinds
  <2>2. \A t \in Elems(syncQ[o]) : TaskOf[t] # k
    BY QueuedWait
  <2>3. Elems(syncQ[o]) \cap Freed(k) = {}
    BY <2>2 DEF Freed, StillWants, ThreadsOf
  <2> QED BY <1>4, <2>1, <2>3
<1>8. \A t \in Threads : waitObj'[t] = IF t \in ours THEN Null ELSE waitObj[t]
  BY <1>3
<1> HIDE DEF ours
<1>9. MonitorTypes(waitQ, syncQ, locker, waitObj)'
  <2>1. \A o \in Objects : /\ waitQ'[o] \in Seq(Threads) /\ syncQ'[o] \in Seq(Threads)
                           /\ locker'[o] \in Threads \cup {Null}
    <3> SUFFICES ASSUME NEW o \in Objects
                 PROVE  /\ waitQ'[o] \in Seq(Threads) /\ syncQ'[o] \in Seq(Threads)
                        /\ locker'[o] \in Threads \cup {Null}
      OBVIOUS
    <3>1. /\ waitQ[o] \in Seq(Threads) /\ syncQ[o] \in Seq(Threads)
          /\ locker[o] \in Threads \cup {Null} /\ << >> \in Seq(Threads)
      BY DEF IInv, TypeOK
    <3>2. CASE HomeOf[o] = k
      BY <1>6, <3>1, <3>2
    <3>3. CASE HomeOf[o] # k
      BY <1>7, <3>1, <3>3
    <3> QED BY <3>2, <3>3
  <2>2. waitObj' \in [Threads -> Objects \cup {Null}]
    BY <1>3 DEF IInv, TypeOK
  <2> QED BY <1>5, <2>1, <2>2 DEF MonitorTypes
<1>10. Lists(waitQ, syncQ)'
  BY <1>6, <1>7, EmptyList DEF IInv, MonitorsOK, Lists
<1>11. WaitObjs(waitQ, syncQ, waitObj)'
  <2> SUFFICES ASSUME NEW o \in Objects, NEW t \in Threads
               PROVE  waitObj'[t] = o <=> t \in Elems(waitQ'[o]) \cup Elems(syncQ'[o])
    BY DEF WaitObjs
  <2>1. waitObj[t] = o => t \in alive /\ TaskOf[t] = HomeOf[o]
    BY DEF IInv, Placed, MonitorsOK, AtHome
  <2>2. CASE HomeOf[o] = k
    BY <1>1, <1>6, <1>8, <2>1, <2>2, EmptyList
  <2>3. CASE HomeOf[o] # k
    BY <1>1, <1>7, <1>8, <2>1, <2>3 DEF IInv, MonitorsOK, WaitObjs
  <2> QED BY <2>2, <2>3
<1>12. Owners(syncQ, locker, waitObj)'
  <2> SUFFICES ASSUME NEW o \in Objects
               PROVE  IF locker'[o] = Null THEN syncQ'[o] = << >>
                      ELSE TaskOf[locker'[o]] = HomeOf[o] /\ waitObj'[locker'[o]] # o
    BY DEF Owners
  <2>1. locker[o] # Null => locker[o] \in Threads /\ locker[o] \in alive /\ waitObj[locker[o]] # o
                            /\ TaskOf[locker[o]] = HomeOf[o]
    BY DEF IInv, TypeOK, MonitorsOK, Owners, LockersLive
  <2>2. CASE HomeOf[o] = k
    BY <1>1, <1>6, <1>8, <2>1, <2>2
  <2>3. CASE HomeOf[o] # k
    BY <1>7, <1>8, <2>1, <2>3 DEF IInv, MonitorsOK, Owners
  <2> QED BY <2>2, <2>3
<1>13. AtHome(waitObj)'
  BY <1>8 DEF IInv, MonitorsOK, AtHome
<1>14. TypeOK'
  <2>1. ours \subseteq Threads
    BY DEF ours, ThreadsOf, IInv, TypeOK
  <2> QED BY <1>3, <1>9, <2>1 DEF IInv, TypeOK, MonitorTypes
<1>15. Placed'
  BY <1>1, <1>3, <1>8 DEF IInv, Placed
<1>16. LockersLive'
  BY <1>1, <1>3, <1>6, <1>7 DEF IInv, LockersLive
<1>17. TimedInWait'
  <2> SUFFICES ASSUME NEW o \in Objects, NEW t \in timed', waitObj'[t] = o
               PROVE  t \in Elems(waitQ'[o])
    BY DEF TimedInWait
  <2>1. t \in Threads /\ t \in timed /\ t \notin ours /\ waitObj[t] = o
    BY <1>3, <1>8 DEF IInv, TypeOK
  <2>2. t \in alive /\ TaskOf[t] = HomeOf[o] /\ t \in Elems(waitQ[o])
    BY <2>1 DEF IInv, Placed, MonitorsOK, AtHome, TimedInWait
  <2> QED BY <1>1, <1>7, <2>1, <2>2
<1>18. NothingEntered'
  BY <1>3 DEF IInv, NothingEntered
<1>19. SuspendedStaysOff'
  <2>1. \A t \in ours : TaskOf[t] = k
    BY DEF ours, ThreadsOf
  <2> QED BY <1>3, <2>1 DEF IInv, SuspendedStaysOff
<1>20. OwnsWhatItEntered'
  <2> SUFFICES ASSUME NEW t \in alive, NEW o \in Objects, reentry[t][o] > 0, ~Dying(t), TaskOf[t] # k
               PROVE  locker'[o] = t \/ waitObj'[t] = o
    BY <1>3 DEF OwnsWhatItEntered, Dying
  <2>1. t \in Threads /\ t # Null /\ (locker[o] = t \/ waitObj[t] = o) /\ t \notin ours
    BY <1>1 DEF IInv, TypeOK, OwnsWhatItEntered
  <2>2. HomeOf[o] # k
    BY <2>1 DEF IInv, MonitorsOK, Owners, AtHome
  <2> QED BY <1>7, <1>8, <2>1, <2>2
<1> QED BY <1>9, <1>10, <1>11, <1>12, <1>13, <1>14, <1>15, <1>16, <1>17, <1>18, <1>19, <1>20
        DEF IInv, MonitorsOK

\* One thread runs and nothing is locked.
LEMMA InitIInv == Init => IInv
<1> SUFFICES ASSUME Init PROVE IInv
  OBVIOUS
<1> USE DEF Init
<1>1. TypeOK
  BY Placement DEF TypeOK
<1>2. MonitorsOK(waitQ, syncQ, locker, waitObj)
  BY EmptyList DEF MonitorsOK, MonitorTypes, Lists, WaitObjs, Owners, AtHome
<1>3. Placed /\ LockersLive /\ TimedInWait /\ NothingEntered
  BY DEF Placed, LockersLive, TimedInWait, NothingEntered
<1>4. OwnsWhatItEntered /\ SuspendedStaysOff
  BY Placement DEF OwnsWhatItEntered, SuspendedStaysOff
<1> QED BY <1>1, <1>2, <1>3, <1>4 DEF IInv

\* Every operation of the scheduler keeps the inductive invariant.
LEMMA NextIInv == IInv /\ [Next]_vars => IInv'
<1> SUFFICES ASSUME IInv, [Next]_vars PROVE IInv'
  OBVIOUS
<1>1. ASSUME NEW t \in Threads, NEW o \in Objects, Monitors(t, o)
      PROVE  IInv'
  BY <1>1, LockStep, CountStep, EnterWaitsStep, UnlockStep, WaitStep, NotifyStep DEF Monitors
<1>2. ASSUME NEW o \in Objects, NotifyIsolate(o)
      PROVE  IInv'
  <2>1. PICK t \in Threads : TRUE
    <3>1. waitQ[o] # << >> /\ waitQ[o] \in Seq(Threads)
      BY <1>2 DEF NotifyIsolate, IInv, TypeOK
    <3> QED BY <3>1, HeadTail
  <2> QED BY <1>2, <2>1, NotifyStep
<1>3. ASSUME NEW t \in Threads,
             \/ WaitTimesOut(t) \/ ThrowInterrupted(t) \/ Sleep(t) \/ SleepEnds(t)
             \/ Block(t) \/ Unblock(t) \/ ThreadEnds(t)
      PROVE  IInv'
  <2>1. CASE ThrowInterrupted(t)
    BY <2>1, InterruptStep DEF ThrowInterrupted, IInv, TypeOK
  <2> QED BY <1>3, <2>1, WakeOneStep, SleepStep, EndStep
<1>4. ASSUME NEW u \in Threads, NEW t \in Threads,
             InterruptWaiting(u, t) \/ SetPendingInterrupt(u, t) \/ StartThread(u, t)
      PROVE  IInv'
  <2>1. CASE SetPendingInterrupt(u, t)
    BY <2>1, InterruptStep DEF SetPendingInterrupt, IInv, TypeOK
  <2> QED BY <1>4, <2>1, WakeOneStep, StartStep
<1>5. ASSUME NEW k \in Tasks,
             SuspendIsolate(k) \/ Suspend0(k) \/ ResumeTask(k) \/ StopTask(k)
      PROVE  IInv'
  BY <1>5, SuspendStep, StopStep DEF SuspendIsolate, Suspend0
<1>6. CASE UNCHANGED vars
  BY <1>6, InterruptStep DEF vars, IInv, TypeOK
<1> QED BY <1>1, <1>2, <1>3, <1>4, <1>5, <1>6 DEF Next

\* Scheduler's inductive invariant: types, monitors, lists and who may be
\* ready.
THEOREM InductiveInvariant == Spec => []IInv
BY InitIInv, NextIInv, PTL DEF Spec

-----------------------------------------------------------------------------
(* What follows from it.                                                   *)

(* Scheduler's lists, locks and counters keep their types: the counters of *)
(* reentrant locks never run below zero, no list holds anything but        *)
(* threads.                                                                *)
THEOREM TypeCorrect == Spec => []TypeOK
<1>1. IInv => TypeOK
  BY DEF IInv
<1> QED BY <1>1, InductiveInvariant, PTL

(* Scheduler::add_to_active, add_waiting_thread, add_sync_thread and their *)
(* counterparts: a living thread is on exactly one list, at one place.     *)
LEMMA NoPlace ==
  ASSUME NEW q \in [Objects -> Seq(Threads)], NEW t, \A o \in Objects : t \notin Elems(q[o])
  PROVE  Cardinality(Places(q, t)) = 0
<1>1. Places(q, t) = {}
  BY DEF Places, Elems
<1> QED BY <1>1, FS_EmptySet

\* A thread that is once on one of several lists is in one place.
LEMMA OnePlace ==
  ASSUME NEW q \in [Objects -> Seq(Threads)], NEW t, NEW o \in Objects,
         t \in Elems(q[o]), NoRepeat(q[o]), \A p \in Objects : t \in Elems(q[p]) => p = o
  PROVE  Cardinality(Places(q, t)) = 1
<1>1. PICK i \in DOMAIN q[o] : q[o][i] = t
  BY DEF Elems
<1>2. <<o, i>> \in Places(q, t)
  BY <1>1 DEF Places
<1>3. ASSUME NEW x \in Places(q, t)
      PROVE  x = <<o, i>>
  <2>1. PICK p \in Objects : x \in {p} \X DOMAIN q[p]
    BY DEF Places
  <2>2. x = <<p, x[2]>> /\ x[2] \in DOMAIN q[p] /\ q[p][x[2]] = t
    BY <2>1 DEF Places
  <2>3. p = o
    BY <2>2 DEF Elems
  <2> QED BY <1>1, <2>2, <2>3 DEF NoRepeat
<1>4. Places(q, t) = {<<o, i>>}
  BY <1>2, <1>3
<1> QED BY <1>4, FS_Singleton

\* The lists of the invariant are those OnOneList counts.
LEMMA OnOneListHolds == IInv => OnOneList
<1> SUFFICES ASSUME IInv PROVE OnOneList
  OBVIOUS
<1>1. /\ waitQ \in [Objects -> Seq(Threads)] /\ syncQ \in [Objects -> Seq(Threads)]
      /\ alive \subseteq Threads
      /\ active \cup async \cup suspendQ \cup sleeping \subseteq Threads
  BY DEF IInv, TypeOK
<1>2. \A t \in Threads, o \in Objects : waitObj[t] = o <=> t \in Elems(waitQ[o]) \cup Elems(syncQ[o])
  BY DEF IInv, MonitorsOK, WaitObjs
<1>3. \A o \in Objects : Elems(waitQ[o]) \cup Elems(syncQ[o]) \subseteq Threads
  BY <1>1, ElemsType
<1>4. alive = UNION {active, async, suspendQ, sleeping, Waiting, Syncing}
  <2>1. \A t \in Threads : waitObj[t] # Null <=> t \in Waiting \cup Syncing
    BY <1>2, MembersAreElems DEF Waiting, Syncing, IInv, TypeOK
  <2>2. Waiting \cup Syncing \subseteq Threads
    BY <1>3, MembersAreElems DEF Waiting, Syncing
  <2>3. \A t \in Threads : t \in alive <=> t \in active \cup async \cup suspendQ \cup sleeping
                                               \/ t \in Waiting \cup Syncing
    BY <2>1 DEF IInv, Placed
  <2> QED BY <1>1, <2>2, <2>3
<1>5. ASSUME NEW t \in alive
      PROVE  Cardinality({n \in 1..4 : t \in <<active, async, suspendQ, sleeping>>[n]})
             + Cardinality(Places(waitQ, t)) + Cardinality(Places(syncQ, t)) = 1
  <2> DEFINE ls == {n \in 1..4 : t \in <<active, async, suspendQ, sleeping>>[n]}
  <2>1. CASE waitObj[t] = Null
    <3>1. \A o \in Objects : t \notin Elems(waitQ[o]) /\ t \notin Elems(syncQ[o])
      BY <1>1, <1>2, <2>1
    <3>2. Cardinality(Places(waitQ, t)) = 0 /\ Cardinality(Places(syncQ, t)) = 0
      BY <1>1, <3>1, NoPlace
    <3>3. t \in active \cup async \cup suspendQ \cup sleeping
      BY <1>1, <2>1 DEF IInv, Placed
    <3>4. \E n \in 1..4 : ls = {n}
      <4>1. CASE t \in active
        <5>1. ls = {1}
          BY <4>1 DEF IInv, Placed
        <5> QED BY <5>1
      <4>2. CASE t \in async
        <5>1. ls = {2}
          BY <4>2 DEF IInv, Placed
        <5> QED BY <5>1
      <4>3. CASE t \in suspendQ
        <5>1. ls = {3}
          BY <4>3 DEF IInv, Placed
        <5> QED BY <5>1
      <4>4. CASE t \in sleeping
        <5>1. ls = {4}
          BY <4>4 DEF IInv, Placed
        <5> QED BY <5>1
      <4> QED BY <3>3, <4>1, <4>2, <4>3, <4>4
    <3> HIDE DEF ls
    <3>5. Cardinality(ls) = 1
      BY <3>4, FS_Singleton
    <3> QED BY <3>2, <3>5 DEF ls
  <2>2. CASE waitObj[t] # Null
    <3>1. PICK o \in Objects : waitObj[t] = o
      BY <1>1, <2>2 DEF IInv, TypeOK
    <3>2. ls = {}
      <4>1. t \notin active \cup async \cup suspendQ \cup sleeping
        BY <1>1, <2>2 DEF IInv, Placed
      <4> QED BY <4>1
    <3> HIDE DEF ls
    <3>3. Cardinality(ls) = 0
      BY <3>2, FS_EmptySet
    <3>4. /\ \A p \in Objects : t \in Elems(waitQ[p]) \cup Elems(syncQ[p]) => p = o
          /\ t \in Elems(waitQ[o]) \cup Elems(syncQ[o])
      BY <1>1, <1>2, <3>1
    <3>5. NoRepeat(waitQ[o]) /\ NoRepeat(syncQ[o]) /\ Elems(waitQ[o]) \cap Elems(syncQ[o]) = {}
      BY DEF IInv, MonitorsOK, Lists
    <3>6. CASE t \in Elems(waitQ[o])
      <4>1. \A p \in Objects : t \notin Elems(syncQ[p])
        BY <3>4, <3>5, <3>6
      <4>2. Cardinality(Places(waitQ, t)) = 1
        BY <1>1, <3>4, <3>5, <3>6, OnePlace
      <4>3. Cardinality(Places(syncQ, t)) = 0
        BY <1>1, <4>1, NoPlace
      <4> QED BY <3>3, <4>2, <4>3 DEF ls
    <3>7. CASE t \in Elems(syncQ[o])
      <4>1. \A p \in Objects : t \notin Elems(waitQ[p])
        BY <3>4, <3>5, <3>7
      <4>2. Cardinality(Places(syncQ, t)) = 1
        BY <1>1, <3>4, <3>5, <3>7, OnePlace
      <4>3. Cardinality(Places(waitQ, t)) = 0
        BY <1>1, <4>1, NoPlace
      <4> QED BY <3>3, <4>2, <4>3 DEF ls
    <3> QED BY <3>4, <3>6, <3>7
  <2> QED BY <2>1, <2>2
<1> QED BY <1>4, <1>5 DEF OnOneList

\* remove_waiting_thread, remove_sync_thread, unblock_thread: every live
\* thread is on exactly one list, whatever it waits for and however it is
\* woken.
THEOREM EveryThreadOnOneList == Spec => []OnOneList
BY OnOneListHolds, InductiveInvariant, PTL

(* Synchronizer::enter, signal_waiters: who waits for a monitor waits for  *)
(* one that a living thread owns which does not itself wait for it.        *)
THEOREM WaitersHaveOwner == Spec => []WaitersHaveLocker
<1>1. IInv => WaitersHaveLocker
  <2> SUFFICES ASSUME IInv, NEW o \in Objects
               PROVE  locker[o] \in (alive \ Elems(syncQ[o]))
                                    \cup (IF syncQ[o] = << >> THEN {Null} ELSE {})
    BY MembersAreElems DEF WaitersHaveLocker
  <2>1. CASE locker[o] = Null
    BY <2>1 DEF IInv, MonitorsOK, Owners
  <2>2. CASE locker[o] # Null
    <3>1. locker[o] \in Threads /\ locker[o] \in alive /\ waitObj[locker[o]] # o
      BY <2>2 DEF IInv, TypeOK, LockersLive, MonitorsOK, Owners
    <3>2. locker[o] \notin Elems(syncQ[o])
      BY <3>1, QueuedWait
    <3> QED BY <3>1, <3>2
  <2> QED BY <2>1, <2>2
<1> QED BY <1>1, InductiveInvariant, PTL

(* Scheduler::wait, notify_wakeup: a thread inside a synchronized block is *)
(* the owner of the object whenever it runs.                               *)
THEOREM OwnershipKept == Spec => []OwnsWhatItEntered
<1>1. IInv => OwnsWhatItEntered
  BY DEF IInv
<1> QED BY <1>1, InductiveInvariant, PTL

(* Scheduler::suspend_threads, unblock_thread, notify_wakeup: no thread of *)
(* a suspended task is in the run queues.                                  *)
THEOREM SuspendedTasksStayOff == Spec => []SuspendedStaysOff
<1>1. IInv => SuspendedStaysOff
  BY DEF IInv
<1> QED BY <1>1, InductiveInvariant, PTL

(* StackLock::signal_waiters: a monitor that threads wait for is handed to *)
(* the one that came first.                                                *)
HandedInOrder ==
  \A o \in Objects :
    locker'[o] \notin {locker[o], Null} /\ syncQ[o] # << >> => locker'[o] = Head(syncQ[o])

\* Waking waiters takes no monitor away from its owner.
LEMMA WakeKeepsOwner ==
  ASSUME IInv, NEW o \in Objects, locker[o] # Null, NEW p \in Objects, NEW ws, NEW rest,
         WakeWaiters(p, ws, rest)
  PROVE  locker'[o] = locker[o]
<1>1. p = o => GotLock(ws, locker[p]) = {}
  BY DEF GotLock
<1> QED BY <1>1 DEF WakeWaiters, IInv, TypeOK

\* A step gives a monitor others wait for to the first of them only.
LEMMA NextInOrder == IInv /\ Next => HandedInOrder
<1> SUFFICES ASSUME IInv, Next, NEW o \in Objects,
                    locker'[o] \notin {locker[o], Null}, syncQ[o] # << >>
             PROVE  locker'[o] = Head(syncQ[o])
  BY DEF HandedInOrder
<1>1. locker[o] # Null /\ Head(syncQ[o]) \in Threads /\ locker \in [Objects -> Threads \cup {Null}]
  BY HeadTail DEF IInv, TypeOK, MonitorsOK, Owners
<1>2. ASSUME NEW os \in SUBSET Objects
      PROVE  LockerAfter(os)[o] \in {locker[o], Head(syncQ[o])}
  BY DEF LockerAfter, HandedTo
<1>3. ASSUME NEW t \in Threads, NEW p \in Objects, Monitors(t, p)
      PROVE  locker'[o] = Head(syncQ[o])
  <2>1. CASE Unlock(t, p) \/ \E withTimeout \in BOOLEAN : Wait(t, p, withTimeout)
    <3>1. locker' = LockerAfter({p})
      BY <2>1 DEF Unlock, Wait
    <3> QED BY <1>2, <3>1
  <2>2. CASE Notify(t, p) \/ NotifyAll(t, p)
    BY <1>1, <2>2, WakeKeepsOwner DEF Notify, NotifyAll
  <2>3. CASE Lock(t, p)
    BY <1>1, <2>3 DEF Lock
  <2>4. CASE Relock(t, p) \/ EnterWaits(t, p) \/ UnlockReentrant(t, p)
    BY <2>4 DEF Relock, EnterWaits, UnlockReentrant
  <2> QED BY <1>3, <2>1, <2>2, <2>3, <2>4 DEF Monitors
<1>4. ASSUME NEW p \in Objects, NotifyIsolate(p)
      PROVE  locker'[o] = Head(syncQ[o])
  BY <1>1, <1>4, WakeKeepsOwner DEF NotifyIsolate
<1>5. ASSUME NEW t \in Threads, NEW u \in Threads, WaitTimesOut(t) \/ InterruptWaiting(u, t)
      PROVE  locker'[o] = Head(syncQ[o])
  <2>1. waitObj[t] \in Objects
    BY <1>5 DEF WaitTimesOut, InterruptWaiting, IInv, TypeOK
  <2> QED BY <1>1, <1>5, <2>1, WakeKeepsOwner DEF WaitTimesOut, InterruptWaiting
<1>6. ASSUME NEW t \in Threads, ThreadEnds(t)
      PROVE  locker'[o] = Head(syncQ[o])
  <2> DEFINE os == Unwound(t)
             j == ThreadObj[t]
             lk == LockerAfter(os)
  <2>1. os \in SUBSET Objects
    BY DEF Unwound, OwnedBy
  <2>2. lk[o] \in {locker[o], Head(syncQ[o])} /\ lk[o] # Null
    BY <1>1, <1>2, <2>1
  <2>3. o = j => GotLock(waitQ[j], lk[j]) = {} /\ j # Null
    BY <2>2 DEF GotLock
  <2>4. locker'[o] = lk[o]
    BY <1>6, <2>3 DEF ThreadEnds
  <2> QED BY <2>2, <2>4
<1>7. ASSUME NEW t \in Threads,
             ThrowInterrupted(t) \/ Sleep(t) \/ SleepEnds(t) \/ Block(t) \/ Unblock(t)
      PROVE  locker'[o] = Head(syncQ[o])
  BY <1>7 DEF ThrowInterrupted, Sleep, SleepEnds, Block, Unblock, locks
<1>8. ASSUME NEW u \in Threads, NEW t \in Threads, SetPendingInterrupt(u, t) \/ StartThread(u, t)
      PROVE  locker'[o] = Head(syncQ[o])
  BY <1>8 DEF SetPendingInterrupt, StartThread, locks
<1>9. ASSUME NEW k \in Tasks, SuspendIsolate(k) \/ Suspend0(k) \/ ResumeTask(k) \/ StopTask(k)
      PROVE  locker'[o] = Head(syncQ[o])
  BY <1>1, <1>9 DEF SuspendIsolate, Suspend0, SuspendTask, ResumeTask, StopTask, locks
<1> QED BY <1>3, <1>4, <1>5, <1>6, <1>7, <1>8, <1>9 DEF Next

\* signal_waiters: monitors are handed over in the order of the requests.
THEOREM FirstComeFirstServedHolds == Spec => FirstComeFirstServed
<1>1. IInv /\ [Next]_vars => [HandedInOrder]_vars
  BY NextInOrder
<1>2. Spec => [][HandedInOrder]_vars
  BY <1>1, InductiveInvariant, PTL DEF Spec
<1> QED BY <1>2 DEF FirstComeFirstServed, HandedInOrder
=============================================================================
