--------------------------- MODULE EventQueueProofs ---------------------------
(***************************************************************************)
(* Proofs about the native ring and the monitor thread of EventQueue, for  *)
(* any number of isolates, events and callers and any capacity.            *)
(***************************************************************************)
EXTENDS EventQueue, TLAPS

(* A window of n positions that starts at o: its members, and the position behind it, without *)
(* the modulus.                                                                                *)
Inside(o, n, p) == (o <= p /\ p < o + n) \/ p + MAX_EVENTS < o + n

Behind(o, n) == IF o + n < MAX_EVENTS THEN o + n ELSE o + n - MAX_EVENTS

\* The position k places behind o, where the C code wraps an index and the
\* model takes a remainder.
LEMMA ModSum ==
  ASSUME NEW o \in Positions, NEW k \in 0 .. MAX_EVENTS
  PROVE  (o + k) % MAX_EVENTS = Behind(o, k)
<1> USE Sizes DEF Positions, Behind
<1>1. CASE o + k < MAX_EVENTS
  BY <1>1
<1>2. CASE o + k >= MAX_EVENTS
  <2>1. (o + k - MAX_EVENTS) \in 0 .. MAX_EVENTS - 1
    BY <1>2
  <2> QED BY <1>2, <2>1
<1> QED BY <1>1, <1>2

\* Which positions of the ring hold pending events, as an inequality.
LEMMA WindowMembers ==
  ASSUME NEW o \in Positions, NEW n \in 0 .. MAX_EVENTS, NEW p \in Positions
  PROVE  p \in {(o + k) % MAX_EVENTS : k \in 0 .. n - 1} <=> Inside(o, n, p)
<1> USE Sizes DEF Positions
<1>1. ASSUME NEW k \in 0 .. n - 1, p = (o + k) % MAX_EVENTS
      PROVE  Inside(o, n, p)
  <2>1. k \in 0 .. MAX_EVENTS
    OBVIOUS
  <2>2. p = Behind(o, k)
    BY <1>1, <2>1, ModSum
  <2> QED BY <2>2 DEF Inside, Behind
<1>2. CASE o <= p /\ p < o + n
  <2>1. p - o \in 0 .. n - 1 /\ p - o \in 0 .. MAX_EVENTS /\ Behind(o, p - o) = p
    BY <1>2 DEF Behind
  <2>2. (o + (p - o)) % MAX_EVENTS = p
    BY <2>1, ModSum
  <2> QED BY <1>2, <2>1, <2>2 DEF Inside
<1>3. CASE p + MAX_EVENTS < o + n
  <2>1. /\ p + MAX_EVENTS - o \in 0 .. n - 1 /\ p + MAX_EVENTS - o \in 0 .. MAX_EVENTS
        /\ Behind(o, p + MAX_EVENTS - o) = p
    BY <1>3 DEF Behind
  <2>2. (o + (p + MAX_EVENTS - o)) % MAX_EVENTS = p
    BY <2>1, ModSum
  <2> QED BY <1>3, <2>1, <2>2 DEF Inside
<1> QED BY <1>1, <1>2, <1>3 DEF Inside

(* One more at the end. *)
LEMMA WindowGrows ==
  ASSUME NEW o \in Positions, NEW n \in 0 .. MAX_EVENTS, n < MAX_EVENTS
  PROVE  /\ Wrap(Behind(o, n) + 1) = Behind(o, n + 1)
         /\ \A p \in Positions : Inside(o, n + 1, p) <=> Inside(o, n, p) \/ p = Behind(o, n)
BY Sizes DEF Positions, Behind, Inside, Wrap

(* One less at the start. *)
LEMMA WindowShrinks ==
  ASSUME NEW o \in Positions, NEW n \in 0 .. MAX_EVENTS, n > 0
  PROVE  /\ Wrap(o + 1) \in Positions
         /\ Behind(Wrap(o + 1), n - 1) = Behind(o, n)
         /\ \A p \in Positions : Inside(Wrap(o + 1), n - 1, p) <=> Inside(o, n, p) /\ p # o
BY Sizes DEF Positions, Behind, Inside, Wrap

(* Nothing in it. *)
LEMMA WindowEmpty ==
  ASSUME NEW o \in Positions, NEW n \in 0 .. MAX_EVENTS
  PROVE  /\ Behind(o, n) \in Positions /\ Behind(o, 0) = o
         /\ \A p \in Positions : ~ Inside(o, 0, p)
BY Sizes DEF Positions, Behind, Inside

-----------------------------------------------------------------------------
(* The ring. *)

InWindow(i, p) == Inside(eventOut[i], numEvents[i], p)

End(i) == Behind(eventOut[i], numEvents[i])

(* RingExact without the modulus. *)
RingLinear ==
  \A i \in Isolates :
    /\ eventIn[i] = End(i)
    /\ \A p \in Positions : ring[i][p] # None <=> InWindow(i, p)

\* The same two facts for the ring of an isolate.
LEMMA NoModulus ==
  ASSUME RingTypes, NEW i \in Isolates
  PROVE  /\ (eventOut[i] + numEvents[i]) % MAX_EVENTS = End(i)
         /\ \A p \in Positions : p \in Window(i) <=> InWindow(i, p)
<1>1. eventOut[i] \in Positions /\ numEvents[i] \in 0 .. MAX_EVENTS
  BY DEF RingTypes
<1>2. (eventOut[i] + numEvents[i]) % MAX_EVENTS = End(i)
  BY <1>1, ModSum, Zenon DEF End
<1>3. \A p \in Positions : p \in Window(i) <=> InWindow(i, p)
  BY <1>1, WindowMembers, Zenon DEF Window, InWindow
<1> QED BY <1>2, <1>3

\* What RingExact says of eventIn, eventOut and numEvents, without
\* remainders.
LEMMA Linear == RingTypes => (RingExact <=> RingLinear)
<1> SUFFICES ASSUME RingTypes PROVE RingExact <=> RingLinear
  OBVIOUS
<1>1. \A i \in Isolates :
        /\ (eventOut[i] + numEvents[i]) % MAX_EVENTS = End(i)
        /\ \A p \in Positions : p \in Window(i) <=> InWindow(i, p)
  BY NoModulus
<1> QED BY <1>1, Zenon DEF RingExact, RingLinear

RingInv == RingTypes /\ RingLinear

(* A store fills the position at the end of the window, which was empty. *)
LEMMA StoreKeepsRing ==
  ASSUME RingInv, NEW S, NEW e \in Events, NEW mon, StoreIn(S, e, mon)
  PROVE  RingInv'
<1> USE DEF RingInv
<1>1. ASSUME NEW i \in Isolates, i \in S, ~ Full(i)
      PROVE  /\ numEvents'[i] \in 0 .. MAX_EVENTS /\ eventIn'[i] \in Positions
             /\ ring'[i] \in [Positions -> Events \cup {None}]
             /\ eventIn'[i] = End(i)'
             /\ \A p \in Positions : ring'[i][p] # None <=> InWindow(i, p)'
  <2>1. /\ ring'[i] = [ring[i] EXCEPT ![eventIn[i]] = e]
        /\ eventIn'[i] = Wrap(eventIn[i] + 1)
        /\ numEvents'[i] = numEvents[i] + 1 /\ eventOut'[i] = eventOut[i]
        /\ numEvents[i] # MAX_EVENTS
    BY <1>1 DEF StoreIn, Full
  <2>2. /\ eventIn[i] \in Positions /\ eventOut[i] \in Positions
        /\ numEvents[i] \in 0 .. MAX_EVENTS /\ ring[i] \in [Positions -> Events \cup {None}]
        /\ eventIn[i] = End(i)
        /\ \A p \in Positions : ring[i][p] # None <=> InWindow(i, p)
    BY DEF RingTypes, RingLinear
  <2>3. numEvents[i] < MAX_EVENTS /\ numEvents'[i] \in 0 .. MAX_EVENTS
    BY <2>1, <2>2, Sizes
  <2>4. eventIn'[i] = End(i)'
    <3>1. Wrap(Behind(eventOut[i], numEvents[i]) + 1) = Behind(eventOut[i], numEvents[i] + 1)
      BY <2>2, <2>3, WindowGrows
    <3> QED BY <2>1, <2>2, <3>1, Zenon DEF End
  <2>5. ASSUME NEW p \in Positions PROVE ring'[i][p] # None <=> InWindow(i, p)'
    <3>1. InWindow(i, p)' <=> InWindow(i, p) \/ p = eventIn[i]
      <4>1. Inside(eventOut[i], numEvents[i] + 1, p)
              <=> Inside(eventOut[i], numEvents[i], p) \/ p = Behind(eventOut[i], numEvents[i])
        BY <2>2, <2>3, WindowGrows, Zenon
      <4> QED BY <2>1, <2>2, <4>1 DEF End, InWindow
    <3>2. ring'[i][p] = IF p = eventIn[i] THEN e ELSE ring[i][p]
      BY <2>1, <2>2
    <3> QED BY <2>2, <3>1, <3>2, Names
  <2>6. eventIn'[i] \in Positions
    BY <2>1, <2>2, Sizes DEF Wrap, Positions
  <2>7. ring'[i] \in [Positions -> Events \cup {None}]
    BY <2>1, <2>2
  <2> QED BY <2>3, <2>4, <2>5, <2>6, <2>7
<1>2. ASSUME NEW i \in Isolates, ~ (i \in S /\ ~ Full(i))
      PROVE  /\ ring'[i] = ring[i] /\ eventIn'[i] = eventIn[i]
             /\ numEvents'[i] = numEvents[i] /\ eventOut'[i] = eventOut[i]
  BY <1>2 DEF StoreIn
<1>3. RingTypes'
  <2>1. /\ DOMAIN ring' = Isolates /\ ring' = [i \in Isolates |-> ring'[i]]
        /\ DOMAIN numEvents' = Isolates /\ numEvents' = [i \in Isolates |-> numEvents'[i]]
        /\ DOMAIN eventIn' = Isolates /\ eventIn' = [i \in Isolates |-> eventIn'[i]]
    BY DEF StoreIn
  <2>2. isMonitorBlocked' \in [Isolates -> BOOLEAN]
    BY Zenon DEF StoreIn, RingTypes
  <2>3. \A i \in Isolates : /\ numEvents'[i] \in 0 .. MAX_EVENTS /\ eventIn'[i] \in Positions
                            /\ ring'[i] \in [Positions -> Events \cup {None}]
    BY <1>1, <1>2 DEF RingTypes
  <2>4. eventOut' = eventOut /\ special' = special
    BY DEF StoreIn
  <2> QED BY <2>1, <2>2, <2>3, <2>4 DEF RingTypes
<1>4. RingLinear'
  <2>1. ASSUME NEW i \in Isolates, ~ (i \in S /\ ~ Full(i))
        PROVE  /\ eventIn'[i] = End(i)'
               /\ \A p \in Positions : ring'[i][p] # None <=> InWindow(i, p)'
    BY <1>2, <2>1 DEF RingLinear, End, InWindow
  <2> QED BY <1>1, <2>1 DEF RingLinear
<1> QED BY <1>3, <1>4

(* A read empties the first position of the window. *)
LEMMA TakeKeepsRing ==
  ASSUME RingInv, NEW i \in Isolates, Take(i)
  PROVE  RingInv'
<1> USE DEF RingInv
<1>1. /\ eventIn[i] \in Positions /\ eventOut[i] \in Positions
      /\ numEvents[i] \in 0 .. MAX_EVENTS /\ ring[i] \in [Positions -> Events \cup {None}]
      /\ eventIn[i] = End(i)
      /\ \A p \in Positions : ring[i][p] # None <=> InWindow(i, p)
  BY DEF RingTypes, RingLinear
<1>2. /\ ring'[i] = [ring[i] EXCEPT ![eventOut[i]] = None]
      /\ eventIn'[i] = eventIn[i] /\ eventOut'[i] = Wrap(eventOut[i] + 1)
      /\ numEvents'[i] = numEvents[i] - 1 /\ numEvents[i] > 0
  BY DEF Take, RingTypes
<1>3. ASSUME NEW j \in Isolates, j # i
      PROVE  /\ ring'[j] = ring[j] /\ eventIn'[j] = eventIn[j]
             /\ numEvents'[j] = numEvents[j] /\ eventOut'[j] = eventOut[j]
  BY <1>3 DEF Take, RingTypes
<1>4. RingTypes'
  <2>1. Wrap(eventOut[i] + 1) \in Positions /\ numEvents[i] - 1 \in 0 .. MAX_EVENTS
    BY <1>1, <1>2, WindowShrinks, Sizes
  <2> QED BY <1>1, <2>1 DEF Take, RingTypes
<1>5. RingLinear'
  <2>1. eventIn'[i] = End(i)'
    BY <1>1, <1>2, WindowShrinks, Zenon DEF End
  <2>2. ASSUME NEW p \in Positions PROVE ring'[i][p] # None <=> InWindow(i, p)'
    <3>1. InWindow(i, p)' <=> InWindow(i, p) /\ p # eventOut[i]
      <4>1. Inside(Wrap(eventOut[i] + 1), numEvents[i] - 1, p)
              <=> Inside(eventOut[i], numEvents[i], p) /\ p # eventOut[i]
        BY <1>1, <1>2, WindowShrinks, Zenon
      <4> QED BY <1>2, <4>1 DEF InWindow
    <3>2. ring'[i][p] = IF p = eventOut[i] THEN None ELSE ring[i][p]
      BY <1>1, <1>2
    <3> QED BY <1>1, <3>1, <3>2
  <2>3. ASSUME NEW j \in Isolates, j # i
        PROVE  /\ eventIn'[j] = End(j)'
               /\ \A p \in Positions : ring'[j][p] # None <=> InWindow(j, p)'
    BY <1>3, <2>3 DEF RingLinear, End, InWindow
  <2> QED BY <2>1, <2>2, <2>3 DEF RingLinear
<1> QED BY <1>4, <1>5

(* A reset empties the window and leaves both indices at its end. *)
LEMMA ResetKeepsRing ==
  ASSUME RingInv, NEW i \in Isolates, ResetRing(i)
  PROVE  RingInv'
<1> USE DEF RingInv
<1>1. /\ eventOut[i] \in Positions /\ numEvents[i] \in 0 .. MAX_EVENTS
      /\ ring[i] \in [Positions -> Events \cup {None}] /\ eventIn[i] = End(i)
      /\ \A p \in Positions : ring[i][p] # None <=> InWindow(i, p)
  BY DEF RingTypes, RingLinear
<1>2. /\ (eventOut[i] + numEvents[i]) % MAX_EVENTS = End(i) /\ End(i) \in Positions
      /\ \A p \in Positions : p \in Window(i) <=> InWindow(i, p)
  BY <1>1, NoModulus, WindowEmpty, Zenon DEF End
<1>3. /\ ring'[i] = [p \in Positions |-> IF p \in Window(i) THEN None ELSE ring[i][p]]
      /\ eventIn'[i] = eventIn[i] /\ eventOut'[i] = End(i) /\ numEvents'[i] = 0
  BY <1>2 DEF ResetRing, RingTypes
<1>4. ASSUME NEW j \in Isolates, j # i
      PROVE  /\ ring'[j] = ring[j] /\ eventIn'[j] = eventIn[j]
             /\ numEvents'[j] = numEvents[j] /\ eventOut'[j] = eventOut[j]
  BY <1>4 DEF ResetRing, RingTypes
<1>5. RingTypes'
  <2>1. 0 \in 0 .. MAX_EVENTS
    BY Sizes
  <2> QED BY <1>1, <1>2, <2>1 DEF ResetRing, RingTypes
<1>6. RingLinear'
  <2>1. eventIn'[i] = End(i)'
    BY <1>1, <1>2, <1>3, WindowEmpty, <1>5 DEF End, RingTypes
  <2>2. ASSUME NEW p \in Positions PROVE ring'[i][p] # None <=> InWindow(i, p)'
    <3>1. ring'[i][p] = None
      BY <1>1, <1>2, <1>3
    <3>2. ~ InWindow(i, p)'
      BY <1>1, <1>2, <1>3, WindowEmpty DEF InWindow
    <3> QED BY <3>1, <3>2
  <2>3. ASSUME NEW j \in Isolates, j # i
        PROVE  /\ eventIn'[j] = End(j)'
               /\ \A p \in Positions : ring'[j][p] # None <=> InWindow(j, p)'
    BY <1>4, <2>3 DEF RingLinear, End, InWindow
  <2> QED BY <2>1, <2>2, <2>3 DEF RingLinear
<1> QED BY <1>5, <1>6

-----------------------------------------------------------------------------
(* The monitor thread. *)

ThreadPart ==
  /\ phase \in [Isolates -> {"off", "on", "stopping"}]
  /\ monitor \in [Isolates -> {"wait", "blocked", "post", "drain", "dead"}]
  /\ shut \in [Callers -> {"no", "check", "waiting", "reset", "done", "dead"}]

(* An isolate that does not run has no monitor thread. *)
NoStrayMonitor == \A i \in Isolates : phase[i] # "on" => monitor[i] = "dead"

MonitorInv == ThreadPart /\ NoStrayMonitor /\ NoLostNativeWakeup /\ UnblocksBlockedThread

(* What a step may do to the callers of shutdown() without further ado. *)
CallersKeepDone ==
  /\ shut' \in [Callers -> {"no", "check", "waiting", "reset", "done", "dead"}]
  /\ \A c \in Callers : shut[c] = "done" => shut'[c] = "done"

\* notifyAll moves only callers of shutdown() that wait in it.
LEMMA NotifiedKeepDone ==
  ASSUME ThreadPart, NEW i \in Isolates, shut' = CallersNotified(i) \/ shut' = shut
  PROVE  CallersKeepDone
BY DEF ThreadPart, CallersNotified, CallersKeepDone

\* So post() leaves those that have returned alone.
LEMMA PostKeepsDone ==
  ASSUME ThreadPart, NEW i \in Isolates, NEW e, NEW wanted, Post(i, e, wanted)
  PROVE  CallersKeepDone
BY NotifiedKeepDone DEF Post, NotifyAll

(* Nothing happens to the ring and the monitor threads. *)
LEMMA FrameKeepsMonitor ==
  ASSUME MonitorInv, CallersKeepDone, UNCHANGED <<ringVars, monitor, phase>>
  PROVE  MonitorInv'
<1>1. ThreadPart'
  BY DEF MonitorInv, ThreadPart, CallersKeepDone
<1>2. NoStrayMonitor' /\ UnblocksBlockedThread'
  BY DEF MonitorInv, NoStrayMonitor, UnblocksBlockedThread, ringVars
<1>3. NoLostNativeWakeup'
  BY DEF MonitorInv, NoLostNativeWakeup, CallersKeepDone, ringVars
<1> QED BY <1>1, <1>2, <1>3 DEF MonitorInv

(* A store wakes the thread it finds blocked, and only that one. *)
LEMMA StoreKeepsMonitor ==
  ASSUME RingInv, MonitorInv, NEW S, NEW e, NEW mon, StoreIn(S, e, mon),
         CallersKeepDone, phase' = phase,
         \A i \in Isolates : \/ mon[i] = monitor[i]
                             \/ mon[i] = "dead" /\ monitor[i] # "blocked"
  PROVE  MonitorInv'
<1> USE DEF MonitorInv
<1>1. ASSUME NEW i \in Isolates
      PROVE  /\ special'[i] = special[i]
             /\ \/ /\ isMonitorBlocked[i] /\ special[i] /\ monitor[i] = "blocked"
                   /\ ~ isMonitorBlocked'[i] /\ monitor'[i] = "wait"
                \/ /\ isMonitorBlocked'[i] = isMonitorBlocked[i] /\ monitor'[i] = mon[i]
                   /\ \/ numEvents'[i] = numEvents[i]
                      \/ ~ (isMonitorBlocked[i] /\ special[i])
  <2>1. isMonitorBlocked[i] \in BOOLEAN
    BY DEF RingInv, RingTypes
  <2>2. CASE i \in S /\ ~ Full(i) /\ Wakes(i)
    BY <2>2 DEF StoreIn, Wakes, UnblocksBlockedThread
  <2>3. CASE ~ (i \in S /\ ~ Full(i) /\ Wakes(i))
    BY <2>1, <2>3, Zenon DEF StoreIn, Wakes
  <2> QED BY <2>2, <2>3
<1>2. ThreadPart'
  <2>1. monitor' = [i \in Isolates |-> monitor'[i]]
    BY DEF StoreIn
  <2> QED BY <1>1, <2>1 DEF ThreadPart, CallersKeepDone
<1>3. NoStrayMonitor'
  BY <1>1 DEF NoStrayMonitor
<1>4. UnblocksBlockedThread'
  BY <1>1 DEF UnblocksBlockedThread
<1>5. NoLostNativeWakeup'
  BY <1>1 DEF NoLostNativeWakeup, CallersKeepDone
<1> QED BY <1>2, <1>3, <1>4, <1>5

(* A running thread goes on, or ends. *)
LEMMA RunningKeepsMonitor ==
  ASSUME RingInv, MonitorInv, CallersKeepDone, NEW i \in Isolates, phase' = phase,
         phase[i] = "on", monitor[i] \in {"wait", "post", "drain"},
         NEW x \in {"wait", "post", "drain", "dead"}, monitor' = [monitor EXCEPT ![i] = x],
         UNCHANGED <<isMonitorBlocked, special>>,
         \A j \in Isolates \ {i} : numEvents'[j] = numEvents[j]
  PROVE  MonitorInv'
<1> USE DEF MonitorInv
<1>1. /\ monitor'[i] = x
      /\ \A j \in Isolates \ {i} : monitor'[j] = monitor[j]
  BY DEF ThreadPart
<1>2. ThreadPart'
  BY DEF ThreadPart, CallersKeepDone
<1>3. NoStrayMonitor'
  BY <1>1 DEF NoStrayMonitor
<1>4. UnblocksBlockedThread'
  BY <1>1 DEF UnblocksBlockedThread
<1>5. NoLostNativeWakeup'
  BY <1>1 DEF NoLostNativeWakeup, CallersKeepDone
<1> QED BY <1>2, <1>3, <1>4, <1>5

(* A reset clears the flag of an isolate whose monitor thread is not blocked, or whose queue *)
(* is then shut down.                                                                        *)
LEMMA ResetKeepsMonitor ==
  ASSUME RingInv, MonitorInv, NEW i \in Isolates, ResetRing(i),
         ThreadPart', NoStrayMonitor',
         \A j \in Isolates \ {i} : monitor'[j] = monitor[j],
         \A c \in Callers : shut[c] = "done" => shut'[c] = "done",
         monitor'[i] = "blocked" => \E c \in Callers : CallerIso[c] = i /\ shut'[c] = "done"
  PROVE  MonitorInv'
<1> USE DEF MonitorInv
<1>1. /\ ~ isMonitorBlocked'[i] /\ special' = special
      /\ \A j \in Isolates \ {i} : /\ isMonitorBlocked'[j] = isMonitorBlocked[j]
                                   /\ numEvents'[j] = numEvents[j]
  BY DEF ResetRing, RingInv, RingTypes
<1>2. UnblocksBlockedThread'
  BY <1>1 DEF UnblocksBlockedThread
<1>3. NoLostNativeWakeup'
  BY <1>1 DEF NoLostNativeWakeup
<1> QED BY <1>2, <1>3

-----------------------------------------------------------------------------
(* The inductive invariant, and one step for each action. *)

IInv == RingInv /\ MonitorInv

\* The queues before any isolate has started.
LEMMA InitIInv == Init => IInv
<1> SUFFICES ASSUME Init PROVE IInv
  OBVIOUS
<1>1. RingTypes
  <2>1. 0 \in Positions /\ 0 \in 0 .. MAX_EVENTS
    BY Sizes DEF Positions
  <2> QED BY <2>1 DEF Init, RingTypes
<1>2. RingLinear
  <2>1. 0 \in Positions /\ 0 \in 0 .. MAX_EVENTS
    BY Sizes DEF Positions
  <2>2. Behind(0, 0) = 0 /\ \A p \in Positions : ~ Inside(0, 0, p)
    BY <2>1, WindowEmpty
  <2> QED BY <2>2 DEF Init, RingLinear, End, InWindow
<1>3. MonitorInv
  BY DEF Init, MonitorInv, ThreadPart, NoStrayMonitor, NoLostNativeWakeup,
         UnblocksBlockedThread
<1> QED BY <1>1, <1>2, <1>3 DEF IInv, RingInv

\* Steps of Java code that touch neither ring nor monitor thread.
LEMMA FrameKeepsIInv ==
  ASSUME IInv, CallersKeepDone, UNCHANGED <<ringVars, monitor, phase>>
  PROVE  IInv'
<1>1. RingInv'
  BY DEF IInv, RingInv, RingTypes, RingLinear, End, InWindow, ringVars
<1> QED BY <1>1, FrameKeepsMonitor DEF IInv

\* A store by a native, by shutdown() or by a fatal error, to one isolate or
\* all.
LEMMA StoreKeepsIInv ==
  ASSUME IInv, NEW S, NEW e \in Events, NEW mon, StoreIn(S, e, mon),
         CallersKeepDone, phase' = phase,
         \A i \in Isolates : \/ mon[i] = monitor[i]
                             \/ mon[i] = "dead" /\ monitor[i] # "blocked"
  PROVE  IInv'
BY StoreKeepsRing, StoreKeepsMonitor DEF IInv

\* NativeEventMonitor.run: waits, reads, posts, drains.
LEMMA MonitorStep ==
  ASSUME IInv, NEW i \in Isolates, Monitor(i)
  PROVE  IInv'
<1> USE DEF IInv
<1>0. MonitorInv /\ RingInv /\ ThreadPart
  BY DEF MonitorInv
<1>1. CASE WaitReads(i)
  <2>1. RingInv'
    BY <1>1, TakeKeepsRing DEF WaitReads
  <2>2. CallersKeepDone
    BY <1>0, <1>1, NotifiedKeepDone DEF WaitReads
  <2>3. \A j \in Isolates \ {i} : numEvents'[j] = numEvents[j]
    BY <1>0, <1>1 DEF WaitReads, Take, RingInv, RingTypes
  <2>4. MonitorInv'
    BY <1>0, <1>1, <2>2, <2>3, RunningKeepsMonitor DEF WaitReads, Running, Take
  <2> QED BY <2>1, <2>4
<1>2. CASE WaitBlocks(i)
  <2>1. RingInv'
    BY <1>2 DEF WaitBlocks, RingInv, RingTypes, RingLinear, End, InWindow
  <2>2. /\ monitor'[i] = "blocked" /\ special'[i] /\ isMonitorBlocked'[i]
        /\ numEvents'[i] = 0
        /\ \A j \in Isolates \ {i} :
             /\ monitor'[j] = monitor[j] /\ special'[j] = special[j]
             /\ isMonitorBlocked'[j] = isMonitorBlocked[j] /\ numEvents'[j] = numEvents[j]
    BY <1>0, <1>2 DEF WaitBlocks, ThreadPart, RingInv, RingTypes
  <2>3. ThreadPart'
    BY <1>0, <1>2 DEF WaitBlocks, ThreadPart
  <2>4. NoStrayMonitor'
    BY <1>0, <1>2, <2>2 DEF WaitBlocks, Running, MonitorInv, NoStrayMonitor
  <2>5. UnblocksBlockedThread'
    BY <1>0, <2>2 DEF MonitorInv, UnblocksBlockedThread
  <2>6. NoLostNativeWakeup'
    BY <1>0, <1>2, <2>2 DEF WaitBlocks, MonitorInv, NoLostNativeWakeup
  <2> QED BY <2>1, <2>3, <2>4, <2>5, <2>6 DEF MonitorInv
<1>3. CASE MonitorDrains(i)
  <2>1. RingInv'
    BY <1>3, TakeKeepsRing DEF MonitorDrains
  <2>2. CallersKeepDone
    BY <1>0, <1>3, NotifiedKeepDone DEF MonitorDrains
  <2>3. \A j \in Isolates \ {i} : numEvents'[j] = numEvents[j]
    BY <1>0, <1>3 DEF MonitorDrains, Take, RingInv, RingTypes
  <2>4. MonitorInv'
    BY <1>0, <1>3, <2>2, <2>3, RunningKeepsMonitor DEF MonitorDrains, Running, Take
  <2> QED BY <2>1, <2>4
<1>4. CASE MonitorFindsNone(i)
  <2>1. RingInv'
    BY <1>0, <1>4 DEF MonitorFindsNone, RingInv, RingTypes, RingLinear, End, InWindow, ringVars
  <2>2. CallersKeepDone
    BY <1>0, <1>4, NotifiedKeepDone DEF MonitorFindsNone
  <2>3. MonitorInv'
    BY <1>0, <1>4, <2>2, RunningKeepsMonitor DEF MonitorFindsNone, Running, ringVars
  <2> QED BY <2>1, <2>3
<1>5. ASSUME NEW wanted \in BOOLEAN, MonitorPosts(i, wanted) PROVE IInv'
  <2>1. RingInv'
    BY <1>0, <1>5 DEF MonitorPosts, RingInv, RingTypes, RingLinear, End, InWindow, ringVars
  <2>2. CallersKeepDone
    BY <1>0, <1>5, PostKeepsDone DEF MonitorPosts
  <2>3. PICK x \in {"wait", "drain"} : monitor' = [monitor EXCEPT ![i] = x]
    BY <1>5, Zenon DEF MonitorPosts
  <2>4. MonitorInv'
    BY <1>0, <1>5, <2>2, <2>3, RunningKeepsMonitor DEF MonitorPosts, Running, ringVars
  <2> QED BY <2>1, <2>4
<1> QED BY <1>1, <1>2, <1>3, <1>4, <1>5 DEF Monitor

\* A listener throws, and handleFatalError stores an event for the AMS.
LEMMA ThrowsStep ==
  ASSUME IInv, NEW i \in MayThrow, Throws(i)
  PROVE  IInv'
<1> USE DEF IInv
<1>0. MonitorInv /\ RingInv /\ ThreadPart /\ i \in Isolates /\ i \in Events
  BY Sizes DEF MonitorInv, Events
<1>1. CallersKeepDone /\ phase' = phase
  BY <1>0, NotifiedKeepDone DEF Throws, MonitorThrows, ProcessThrows
<1>2. CASE MonitorThrows(i)
  <2>1. /\ monitor[i] \in {"wait", "post", "drain"} /\ phase[i] = "on"
        /\ HandleFatalError(i, [monitor EXCEPT ![i] = "dead"])
    BY <1>2 DEF MonitorThrows, Running
  <2>2. CASE i = Ams
    <3>1. UNCHANGED ringVars /\ monitor' = [monitor EXCEPT ![i] = "dead"]
      BY <2>1, <2>2 DEF HandleFatalError
    <3>2. RingInv'
      BY <1>0, <3>1 DEF RingInv, RingTypes, RingLinear, End, InWindow, ringVars
    <3>3. MonitorInv'
      BY <1>0, <1>1, <2>1, <3>1, RunningKeepsMonitor DEF ringVars
    <3> QED BY <3>2, <3>3
  <2>3. CASE i # Ams
    <3>1. StoreIn({Ams}, i, [monitor EXCEPT ![i] = "dead"])
      BY <2>1, <2>3 DEF HandleFatalError
    <3>2. \A j \in Isolates : LET mon == [monitor EXCEPT ![i] = "dead"]
                              IN  \/ mon[j] = monitor[j]
                                  \/ mon[j] = "dead" /\ monitor[j] # "blocked"
      BY <1>0, <2>1 DEF ThreadPart
    <3> QED BY <1>0, <1>1, <3>1, <3>2, StoreKeepsIInv
  <2> QED BY <2>2, <2>3
<1>3. CASE ProcessThrows(i)
  <2>1. CASE i = Ams
    BY <1>1, <1>3, <2>1, FrameKeepsIInv DEF ProcessThrows, HandleFatalError
  <2>2. CASE i # Ams
    BY <1>0, <1>1, <1>3, <2>2, StoreKeepsIInv DEF ProcessThrows, HandleFatalError
  <2> QED BY <2>1, <2>2
<1> QED BY <1>2, <1>3 DEF Throws

(* Java code and the dispatch thread leave ring and monitor thread alone. *)
LEMMA JavaStep ==
  ASSUME IInv, NEW i \in Isolates, Java(i) \/ Dispatcher(i)
  PROVE  IInv'
<1>0. ThreadPart
  BY DEF IInv, MonitorInv
<1>1. ASSUME NEW e \in JavaEvents, NEW wanted \in BOOLEAN, JavaPost(i, e, wanted)
      PROVE  IInv'
  <2>1. CallersKeepDone
    BY <1>0, <1>1, PostKeepsDone DEF JavaPost
  <2> QED BY <1>1, <2>1, FrameKeepsIInv DEF JavaPost
<1>2. ASSUME NEW y \in Types, Register(i, y) \/ RemoveEvent(i, y) PROVE IInv'
  <2>1. UNCHANGED <<ringVars, monitor, phase, shut>>
    BY <1>2 DEF Register, RemoveEvent, threadVars
  <2> QED BY <1>0, <2>1, NotifiedKeepDone, FrameKeepsIInv
<1>3. ASSUME Dispatcher(i) PROVE IInv'
  <2>1. /\ UNCHANGED <<ringVars, monitor, phase>>
        /\ shut' = CallersNotified(i) \/ shut' = shut
    BY <1>3 DEF Dispatcher, DispatchStart, DispatchWaits, Dispatch, Process
  <2> QED BY <1>0, <2>1, NotifiedKeepDone, FrameKeepsIInv
<1> QED BY <1>1, <1>2, <1>3 DEF Java

\* shutdown() sends, waits and resets the ring.
LEMMA ShutdownStep ==
  ASSUME IInv, NEW c \in Callers, ShutdownSends(c) \/ ShutdownGoesOn(c)
  PROVE  IInv'
<1> DEFINE i == CallerIso[c]
<1>0. MonitorInv /\ RingInv /\ ThreadPart /\ i \in Isolates /\ c \in Events
  BY Sizes DEF IInv, MonitorInv, Events
<1>1. CASE ShutdownSends(c)
  <2>1. CallersKeepDone
    BY <1>0, <1>1 DEF ShutdownSends, ThreadPart, CallersKeepDone
  <2> QED BY <1>0, <1>1, <2>1, StoreKeepsIInv DEF ShutdownSends
<1>2. CASE ShutdownChecks(c)
  <2>1. CallersKeepDone
    BY <1>0, <1>2 DEF ShutdownChecks, ThreadPart, CallersKeepDone
  <2> QED BY <1>2, <2>1, FrameKeepsIInv DEF ShutdownChecks
<1>3. CASE ShutdownResets(c)
  <2>1. ResetRing(i) /\ monitor' = monitor /\ phase' = phase /\ shut' = [shut EXCEPT ![c] = "done"]
    BY <1>3 DEF ShutdownResets
  <2>2. ThreadPart' /\ NoStrayMonitor'
    BY <1>0, <2>1 DEF ThreadPart, MonitorInv, NoStrayMonitor
  <2>3. shut'[c] = "done" /\ \A d \in Callers : shut[d] = "done" => shut'[d] = "done"
    BY <1>0, <2>1 DEF ThreadPart
  <2>4. RingInv'
    BY <1>0, <2>1, ResetKeepsRing
  <2>5. MonitorInv'
    BY <1>0, <2>1, <2>2, <2>3, ResetKeepsMonitor
  <2> QED BY <2>4, <2>5 DEF IInv
<1> QED BY <1>1, <1>2, <1>3 DEF ShutdownGoesOn

\* An isolate starts, is stopped or finalized.
LEMMA IsolateStep ==
  ASSUME IInv, NEW i \in Isolates, Start(i) \/ Finalize(i) \/ StopTask(i)
  PROVE  IInv'
<1>0. MonitorInv /\ RingInv /\ ThreadPart
  BY DEF IInv, MonitorInv
<1>1. CASE Start(i)
  <2>1. /\ ResetRing(i) /\ shut' = shut
        /\ monitor'[i] = "wait" /\ phase'[i] = "on"
        /\ \A j \in Isolates \ {i} : monitor'[j] = monitor[j] /\ phase'[j] = phase[j]
    BY <1>0, <1>1 DEF Start, ThreadPart
  <2>2. ThreadPart' /\ NoStrayMonitor'
    BY <1>0, <1>1, <2>1 DEF Start, ThreadPart, MonitorInv, NoStrayMonitor
  <2>3. RingInv' /\ MonitorInv'
    BY <1>0, <2>1, <2>2, ResetKeepsRing, ResetKeepsMonitor
  <2> QED BY <2>3 DEF IInv
<1>2. CASE Finalize(i)
  <2>1. /\ ResetRing(i) /\ shut' = shut /\ monitor' = monitor
        /\ monitor[i] = "dead" /\ phase' = [phase EXCEPT ![i] = "off"]
    BY <1>0, <1>2 DEF Finalize, threadVars, MonitorInv, NoStrayMonitor
  <2>2. ThreadPart' /\ NoStrayMonitor'
    BY <1>0, <2>1 DEF ThreadPart, MonitorInv, NoStrayMonitor
  <2>3. RingInv' /\ MonitorInv'
    BY <1>0, <2>1, <2>2, ResetKeepsRing, ResetKeepsMonitor
  <2> QED BY <2>3 DEF IInv
<1>3. CASE StopTask(i)
  <2>1. /\ monitor'[i] = "dead" /\ ~ special'[i]
        /\ isMonitorBlocked' = isMonitorBlocked /\ numEvents' = numEvents
        /\ \A j \in Isolates \ {i} : /\ monitor'[j] = monitor[j] /\ special'[j] = special[j]
                                     /\ phase'[j] = phase[j]
        /\ \A c \in Callers : CallerIso[c] # i => shut'[c] = shut[c]
    BY <1>0, <1>3 DEF StopTask, SpecialCleared, ThreadPart, RingInv, RingTypes
  <2>2. RingInv'
    BY <1>0, <1>3 DEF StopTask, SpecialCleared, RingInv, RingTypes, RingLinear, End, InWindow
  <2>3. ThreadPart'
    BY <1>0, <1>3 DEF StopTask, ThreadPart
  <2>4. NoStrayMonitor'
    BY <1>0, <2>1 DEF MonitorInv, NoStrayMonitor
  <2>5. UnblocksBlockedThread'
    BY <1>0, <2>1 DEF MonitorInv, UnblocksBlockedThread
  <2>6. NoLostNativeWakeup'
    BY <1>0, <2>1 DEF MonitorInv, NoLostNativeWakeup
  <2> QED BY <2>2, <2>3, <2>4, <2>5, <2>6 DEF IInv, MonitorInv
<1> QED BY <1>1, <1>2, <1>3

\* Events of natives.
LEMMA EnvironmentStep ==
  ASSUME IInv, Environment
  PROVE  IInv'
<1>0. ThreadPart /\ NativeEvents \subseteq Events
  BY DEF IInv, MonitorInv, Events
<1>1. PICK e \in NativeEvents, S \in {Isolates} \cup {{i} : i \in Isolates} : Store(S, e)
  BY DEF Environment
<1>2. StoreIn(S, e, monitor) /\ phase' = phase /\ shut' = shut
  BY <1>1 DEF Store
<1>3. CallersKeepDone
  BY <1>0, <1>2 DEF ThreadPart, CallersKeepDone
<1> QED BY <1>0, <1>2, <1>3, StoreKeepsIInv

\* Every step keeps the ring exact and the monitor thread wakeable.
LEMMA NextIInv == IInv /\ [Next]_vars => IInv'
<1> SUFFICES ASSUME IInv, [Next]_vars PROVE IInv'
  OBVIOUS
<1>0. ThreadPart
  BY DEF IInv, MonitorInv
<1>1. ASSUME NEW i \in Isolates, Monitor(i) PROVE IInv'
  BY <1>1, MonitorStep
<1>2. ASSUME NEW i \in Isolates, Java(i) \/ Dispatcher(i) PROVE IInv'
  BY <1>2, JavaStep
<1>3. ASSUME NEW i \in Isolates, Start(i) \/ Finalize(i) PROVE IInv'
  BY <1>3, IsolateStep
<1>4. ASSUME NEW i \in MayThrow, Throws(i) PROVE IInv'
  BY <1>4, ThrowsStep
<1>5. ASSUME NEW i \in MayStop, StopTask(i) PROVE IInv'
  BY <1>5, IsolateStep, Sizes
<1>6. ASSUME NEW c \in Callers, ShutdownSends(c) \/ ShutdownGoesOn(c) PROVE IInv'
  BY <1>6, ShutdownStep
<1>7. CASE Environment
  BY <1>7, EnvironmentStep
<1>8. CASE UNCHANGED vars
  <2>1. CallersKeepDone /\ UNCHANGED <<ringVars, monitor, phase>>
    BY <1>0, <1>8 DEF vars, threadVars, ThreadPart, CallersKeepDone
  <2> QED BY <2>1, FrameKeepsIInv
<1> QED BY <1>1, <1>2, <1>3, <1>4, <1>5, <1>6, <1>7, <1>8 DEF Next

\* Hence they always are.
LEMMA SpecIInv == Spec => []IInv
BY InitIInv, NextIInv, PTL DEF Spec

(* midpEvents.c: for every capacity, whatever is stored, read and reset, the three counters of *)
(* a ring agree with what it holds, so no pending event is overwritten or read twice.          *)
THEOREM RingIsExact == Spec => []RingExact
<1>1. IInv => RingExact
  BY Linear DEF IInv, RingInv
<1> QED BY <1>1, SpecIInv, PTL

(* waitForNativeEvent and StoreMIDPEventInVmThreadImp: for any number of isolates, stopped and *)
(* started again, a monitor thread is never blocked while its ring holds an event, unless      *)
(* shutdown() has reset its queue.                                                             *)
THEOREM MonitorIsWoken == Spec => []NoLostNativeWakeup
<1>1. IInv => NoLostNativeWakeup
  BY DEF IInv, MonitorInv
<1> QED BY <1>1, SpecIInv, PTL

(* SNI_UnblockThread in StoreMIDPEventInVmThreadImp is only reached for a thread that *)
(* waitForNativeEvent has blocked and that still exists.                              *)
THEOREM OnlyBlockedIsUnblocked == Spec => []UnblocksBlockedThread
<1>1. IInv => UnblocksBlockedThread
  BY DEF IInv, MonitorInv
<1> QED BY <1>1, SpecIInv, PTL
=============================================================================
