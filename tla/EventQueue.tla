----------------------------- MODULE EventQueue -----------------------------
(***************************************************************************)
(* The event queues of the MIDP stack, one per isolate: the native ring    *)
(* of midpEvents.c, filled by natives of any isolate; the Java thread      *)
(* NativeEventMonitor that empties it; the linked list of EventQueue.jpp   *)
(* it posts to; the dispatch thread; and shutdown().                       *)
(*                                                                         *)
(* One action is one native method, or one block synchronized on           *)
(* eventQueueThread.  The monitor thread alone keeps that lock over several*)
(* natives, so only it appears as a lock holder.                           *)
(***************************************************************************)
EXTENDS FiniteSets, Lists

CONSTANTS Isolates,      \* isolate IDs, the index of a queue
          Ams,           \* midpGetAmsIsolateId()
          MAX_EVENTS,    \* capacity of a native ring
          NativeEvents,  \* bound: events natives store, each at most once
          JavaEvents,    \* bound: events Java code posts, each at most once
          Callers,       \* threads that call shutdown(), each at most once
          CallerIso,     \* the isolate of each caller
          TypeOf,        \* the type of each native and Java event
          MayStop,       \* isolates that may be stopped
          MayThrow,      \* isolates whose listeners may throw
          None           \* null

\* A shutdown event is named by the caller that sends it, a
\* FATAL_ERROR_NOTIFICATION by the isolate it is about.
Events == NativeEvents \cup JavaEvents \cup Callers \cup Isolates
Types == {TypeOf[e] : e \in NativeEvents \cup JavaEvents}
         \cup {"fatal" : i \in MayThrow \ {Ams}}
Positions == 0..MAX_EVENTS - 1

ASSUME Sizes ==
  /\ MAX_EVENTS \in Nat \ {0}
  /\ IsFiniteSet(Isolates) /\ IsFiniteSet(NativeEvents)
  /\ IsFiniteSet(JavaEvents) /\ IsFiniteSet(Callers)
  /\ Ams \in Isolates /\ MayStop \subseteq Isolates /\ MayThrow \subseteq Isolates
  /\ CallerIso \in [Callers -> Isolates]

ASSUME Names ==
  /\ None \notin Events
  /\ NativeEvents \cap (JavaEvents \cup Callers \cup Isolates) = {}
  /\ JavaEvents \cap (Callers \cup Isolates) = {}
  /\ Callers \cap Isolates = {}
  /\ "EVENT_QUEUE_SHUTDOWN" \notin Types   \* only shutdown() sends one

VARIABLES
  ring, numEvents, eventIn, eventOut, \* the native queue
  isMonitorBlocked, special,          \* and the thread to wake
  phase,                              \* the isolate: "off", "on", "stopping"
  monitor, held, left,                \* NativeEventMonitor.run
  lock,                               \* TRUE: the monitor thread is the owner
  nextEvent, lastEvent, next,         \* the Java queue
  waitingEvent, listening, alive,     \* dispatch table and alive flag
  disp, current,                      \* EventQueue.run
  shut,                               \* shutdown()
  vm, used,                           \* "up" or "exited"; events named so far
  accepted, gone                      \* history: events the ring took in since
                                      \* the queue started, and events that
                                      \* were processed, refused or discarded

ringVars == <<ring, numEvents, eventIn, eventOut, isMonitorBlocked, special>>
listVars == <<nextEvent, lastEvent, next, waitingEvent, listening, alive>>
threadVars == <<monitor, held, left, lock, disp, current, shut>>
vars == <<ringVars, listVars, threadVars, phase, vm, used, accepted, gone>>

Init ==
  /\ ring = [i \in Isolates |-> [p \in Positions |-> None]]
  /\ numEvents = [i \in Isolates |-> 0]
  /\ eventIn = [i \in Isolates |-> 0]
  /\ eventOut = [i \in Isolates |-> 0]
  /\ isMonitorBlocked = [i \in Isolates |-> FALSE]
  /\ special = [i \in Isolates |-> FALSE]
  /\ phase = [i \in Isolates |-> "off"]
  /\ monitor = [i \in Isolates |-> "dead"]
  /\ held = [i \in Isolates |-> None]
  /\ left = [i \in Isolates |-> 0]
  /\ lock = [i \in Isolates |-> FALSE]
  /\ nextEvent = [i \in Isolates |-> None]
  /\ lastEvent = [i \in Isolates |-> None]
  /\ next = [i \in Isolates |-> [e \in Events |-> None]]
  /\ waitingEvent = [i \in Isolates |-> [y \in Types |-> None]]
  /\ listening = [i \in Isolates |-> {}]
  /\ alive = [i \in Isolates |-> FALSE]
  /\ disp = [i \in Isolates |-> "dead"]
  /\ current = [i \in Isolates |-> None]
  /\ shut = [c \in Callers |-> "no"]
  /\ vm = "up" /\ used = {}
  /\ accepted = [i \in Isolates |-> <<>>]
  /\ gone = [i \in Isolates |-> {}]

-----------------------------------------------------------------------------
(* The native queue                                                        *)

WrapLate(p) == IF p > MAX_EVENTS THEN 0 ELSE p   \* faulty
Wrap(p) == IF p = MAX_EVENTS THEN 0 ELSE p

FullNever(i) == FALSE   \* faulty: no test for a full queue
Full(i) == numEvents[i] = MAX_EVENTS

\* The positions that hold pending events.
Window(i) == {(eventOut[i] + k) % MAX_EVENTS : k \in 0..numEvents[i] - 1}

\* The pending events, oldest first.
Pending(i) ==
  [k \in 1..numEvents[i] |-> ring[i][(eventOut[i] + k - 1) % MAX_EVENTS]]

\* The store finds the monitor thread blocked.
WakesIfPending(i) ==   \* faulty: not for the first event
  isMonitorBlocked[i] /\ special[i] /\ numEvents[i] > 0
Wakes(i) == isMonitorBlocked[i] /\ special[i]

\* StoreMIDPEventInVmThreadImp for every isolate of S; mon is where the
\* monitor threads are otherwise.
StoreIn(S, e, mon) ==
  LET takes(i) == i \in S /\ ~Full(i)
      wakes(i) == takes(i) /\ Wakes(i)
  IN /\ ring' = [i \in Isolates |->
                   IF takes(i) THEN [ring[i] EXCEPT ![eventIn[i]] = e]
                   ELSE ring[i]]
     /\ eventIn' = [i \in Isolates |->
                      IF takes(i) THEN Wrap(eventIn[i] + 1) ELSE eventIn[i]]
     /\ numEvents' = [i \in Isolates |->
                        IF takes(i) THEN numEvents[i] + 1 ELSE numEvents[i]]
     /\ isMonitorBlocked' = [i \in Isolates |->
                               isMonitorBlocked[i] /\ ~wakes(i)]
     /\ monitor' = [i \in Isolates |-> IF wakes(i) THEN "wait" ELSE mon[i]]
     /\ accepted' = [i \in Isolates |->
                       IF takes(i) THEN Append(accepted[i], e) ELSE accepted[i]]
     /\ UNCHANGED <<eventOut, special>>

\* A native, or sendNativeEventToIsolate; S is one isolate or, for the ID -1,
\* all of them.
Store(S, e) ==
  /\ vm = "up" /\ e \notin used
  /\ StoreIn(S, e, monitor)
  /\ used' = used \cup {e}
  /\ UNCHANGED <<listVars, held, left, lock, disp, current, shut, phase, vm, gone>>

\* getPendingMIDPEvent
Take(i) ==
  /\ numEvents[i] > 0
  /\ ring' = [ring EXCEPT ![i][eventOut[i]] = None]
  /\ numEvents' = [numEvents EXCEPT ![i] = @ - 1]
  /\ eventOut' = [eventOut EXCEPT ![i] = Wrap(@ + 1)]
  /\ UNCHANGED <<eventIn, isMonitorBlocked, special>>

\* resetEventQueue: takes every pending event and frees it.
ResetRing(i) ==
  /\ ring' = [ring EXCEPT ![i] = [p \in Positions |->
                IF p \in Window(i) THEN None ELSE ring[i][p]]]
  /\ eventOut' = [eventOut EXCEPT ![i] = (@ + numEvents[i]) % MAX_EVENTS]
  /\ numEvents' = [numEvents EXCEPT ![i] = 0]
  /\ isMonitorBlocked' = [isMonitorBlocked EXCEPT ![i] = FALSE]
  /\ UNCHANGED <<eventIn, special>>

-----------------------------------------------------------------------------
(* The Java queue                                                          *)

\* eventQueueThread.notifyAll: the dispatch thread and callers of shutdown().
CallersKept(i) == shut   \* faulty
CallersNotified(i) ==
  [c \in Callers |-> IF CallerIso[c] = i /\ shut[c] = "waiting" THEN "check"
                     ELSE shut[c]]
NotifyAll(i) ==
  /\ disp' = [disp EXCEPT ![i] = IF @ = "waiting" THEN "run" ELSE @]
  /\ shut' = CallersNotified(i)

EventType(e) == CASE e \in Callers -> "EVENT_QUEUE_SHUTDOWN"
                  [] e \in Isolates -> "fatal"
                  [] OTHER -> TypeOf[e]

\* Faulty: a shutdown event needs a listener, too.
AcceptsListened(i, e, wanted) == EventType(e) \in listening[i] /\ wanted
\* post(): wanted is what the listener's preprocess() answers.
Accepts(i, e, wanted) ==
  e \in Callers \/ (EventType(e) \in listening[i] /\ wanted)

Post(i, e, wanted) ==
  IF Accepts(i, e, wanted)
  THEN /\ waitingEvent' = IF e \in Callers THEN waitingEvent
                          ELSE [waitingEvent EXCEPT ![i][EventType(e)] = e]
       /\ next' = IF lastEvent[i] = None THEN next
                  ELSE [next EXCEPT ![i][lastEvent[i]] = e]
       /\ nextEvent' = IF lastEvent[i] = None
                       THEN [nextEvent EXCEPT ![i] = e] ELSE nextEvent
       /\ lastEvent' = [lastEvent EXCEPT ![i] = e]
       /\ NotifyAll(i)
       /\ UNCHANGED <<listening, alive, gone>>
  ELSE /\ gone' = [gone EXCEPT ![i] = @ \cup {e}]
       /\ UNCHANGED <<listVars, disp, shut>>

Running(i) == vm = "up" /\ phase[i] = "on"
Free(i) == Running(i) /\ ~lock[i]

JavaPost(i, e, wanted) ==
  /\ Free(i) /\ e \notin used
  /\ Post(i, e, wanted)
  /\ used' = used \cup {e}
  /\ UNCHANGED <<ringVars, monitor, held, left, lock, current, phase, vm,
                 accepted>>

\* registerEventListener: a new DispatchData.
Register(i, y) ==
  /\ Free(i)
  /\ listening' = [listening EXCEPT ![i] = @ \cup {y}]
  /\ waitingEvent' = [waitingEvent EXCEPT ![i][y] = None]
  /\ UNCHANGED <<ringVars, threadVars, nextEvent, lastEvent, next, alive, phase,
                 vm, used, accepted, gone>>

\* The events that the references link reach from first, in this order.
Linked(first, link) ==
  LET walk[k \in 1..Cardinality(Events)] ==
        IF k = 1 THEN first
        ELSE IF walk[k - 1] = None THEN None ELSE link[walk[k - 1]]
  IN Among(walk, Events)

\* The events of the Java queue.
List(i) == Linked(nextEvent[i], next[i])

\* The tail reference after r, whose predecessor is prev, was unlinked.
LastKept(i, r, prev) == lastEvent[i]   \* faulty
LastWithout(i, r, prev) == IF r = lastEvent[i] THEN prev ELSE lastEvent[i]

\* remove(): unlinks the oldest event of type y, if there is one.
RemoveEvent(i, y) ==
  /\ Free(i)
  /\ \E k \in 1..Len(List(i)) :
       LET r == List(i)[k]
           prev == IF k = 1 THEN None ELSE List(i)[k - 1]
       IN /\ EventType(r) = y
          /\ \A j \in 1..k - 1 : EventType(List(i)[j]) # y
          /\ waitingEvent' = [waitingEvent EXCEPT ![i][y] = IF @ = r THEN None ELSE @]
          /\ nextEvent' = [nextEvent EXCEPT ![i] = IF @ = r THEN next[i][r] ELSE @]
          /\ lastEvent' = [lastEvent EXCEPT ![i] = LastWithout(i, r, prev)]
          /\ next' = [next EXCEPT ![i] = [e \in Events |->
                        IF e = r THEN None
                        ELSE IF e = prev THEN next[i][r] ELSE next[i][e]]]
          /\ gone' = [gone EXCEPT ![i] = @ \cup {r}]
  /\ UNCHANGED <<ringVars, threadVars, listening, alive, phase, vm, used, accepted>>

-----------------------------------------------------------------------------
(* handleFatalError, by a thread of isolate i: the AMS is told, or the VM    *)
(* exits if it is the AMS.  Bound: an isolate is reported once.              *)
HandleFatalError(i, mon) ==
  IF i = Ams
  THEN /\ vm' = "exited" /\ monitor' = mon
       /\ UNCHANGED <<ringVars, accepted, used>>
  ELSE /\ i \notin used /\ used' = used \cup {i}
       /\ StoreIn({Ams}, i, mon)
       /\ UNCHANGED vm

(* NativeEventMonitor.run                                                  *)

\* waitForNativeEvent finds an event.
WaitReads(i) ==
  /\ Running(i) /\ monitor[i] = "wait"
  /\ Take(i)
  /\ held' = [held EXCEPT ![i] = ring[i][eventOut[i]]]
  /\ left' = [left EXCEPT ![i] = numEvents[i] - 1]
  /\ monitor' = [monitor EXCEPT ![i] = "post"]
  /\ UNCHANGED <<listVars, lock, disp, current, shut, phase, vm, used, accepted,
                 gone>>

\* It does not, and blocks the thread; it is run again once unblocked.
WaitBlocks(i) ==
  /\ Running(i) /\ monitor[i] = "wait" /\ numEvents[i] = 0
  /\ special' = [special EXCEPT ![i] = TRUE]
  /\ isMonitorBlocked' = [isMonitorBlocked EXCEPT ![i] = TRUE]
  /\ monitor' = [monitor EXCEPT ![i] = "blocked"]
  /\ UNCHANGED <<ring, numEvents, eventIn, eventOut, listVars, held, left, lock,
                 disp, current, shut, phase, vm, used, accepted, gone>>

\* The event is posted; the lock is taken for it and kept while more events of
\* the batch are left.
MonitorPosts(i, wanted) ==
  /\ Running(i) /\ monitor[i] = "post"
  /\ Post(i, held[i], wanted)
  /\ held' = [held EXCEPT ![i] = None]
  /\ lock' = [lock EXCEPT ![i] = left[i] > 0]
  /\ monitor' = [monitor EXCEPT ![i] = IF left[i] > 0 THEN "drain" ELSE "wait"]
  /\ UNCHANGED <<ringVars, left, current, phase, vm, used, accepted>>

\* readNativeEvent, for another one of the batch.
MonitorDrains(i) ==
  /\ Running(i) /\ monitor[i] = "drain"
  /\ Take(i)
  /\ held' = [held EXCEPT ![i] = ring[i][eventOut[i]]]
  /\ left' = [left EXCEPT ![i] = @ - 1]
  /\ monitor' = [monitor EXCEPT ![i] = "post"]
  /\ UNCHANGED <<listVars, lock, disp, current, shut, phase, vm, used, accepted,
                 gone>>

\* The queue was reset meanwhile: readNativeEvent finds nothing.
MonitorFindsNone(i) ==
  /\ Running(i) /\ monitor[i] = "drain" /\ numEvents[i] = 0
  /\ lock' = [lock EXCEPT ![i] = FALSE]
  /\ monitor' = [monitor EXCEPT ![i] = "wait"]
  /\ UNCHANGED <<ringVars, listVars, held, left, disp, current, shut, phase, vm,
                 used, accepted, gone>>

\* A listener's preprocess() throws, or there is no memory for another event
\* object: the thread reports it and ends, an event it was about to post is
\* lost.
MonitorThrows(i) ==
  /\ Running(i) /\ monitor[i] \in {"wait", "post", "drain"}
  /\ HandleFatalError(i, [monitor EXCEPT ![i] = "dead"])
  /\ held' = [held EXCEPT ![i] = None]
  /\ lock' = [lock EXCEPT ![i] = FALSE]
  /\ gone' = [gone EXCEPT ![i] = @ \cup ({held[i]} \ {None})]
  /\ UNCHANGED <<listVars, left, disp, current, shut, phase>>

-----------------------------------------------------------------------------
(* EventQueue.run and shutdown                                             *)

DispatchStart(i) ==
  /\ Running(i) /\ disp[i] = "new"
  /\ alive' = [alive EXCEPT ![i] = TRUE]
  /\ disp' = [disp EXCEPT ![i] = "run"]
  /\ UNCHANGED <<ringVars, nextEvent, lastEvent, next, waitingEvent, listening,
                 monitor, held, left, lock, current, shut, phase, vm, used,
                 accepted, gone>>

DispatchWaits(i) ==
  /\ Free(i) /\ disp[i] = "run" /\ nextEvent[i] = None
  /\ disp' = [disp EXCEPT ![i] = "waiting"]
  /\ UNCHANGED <<ringVars, listVars, monitor, held, left, lock, current, shut,
                 phase, vm, used, accepted, gone>>

\* The dispatch table entry forgets an event that is no longer waiting.
StillWaiting(i, e) == waitingEvent[i]   \* faulty
WaitingAfter(i, e) == [y \in Types |-> IF waitingEvent[i][y] = e THEN None
                                       ELSE waitingEvent[i][y]]

\* The oldest event is unlinked; a shutdown event ends the loop.
Dispatch(i) ==
  LET e == nextEvent[i]
  IN /\ Free(i) /\ disp[i] = "run" /\ e # None
     /\ nextEvent' = [nextEvent EXCEPT ![i] = next[i][e]]
     /\ next' = [next EXCEPT ![i][e] = None]
     /\ lastEvent' = IF next[i][e] = None
                     THEN [lastEvent EXCEPT ![i] = None] ELSE lastEvent
     /\ \/ /\ e \in Callers
           /\ alive' = [alive EXCEPT ![i] = FALSE]
           /\ gone' = [gone EXCEPT ![i] = @ \cup {e}]
           /\ disp' = [disp EXCEPT ![i] = "ended"]
           /\ shut' = CallersNotified(i)
           /\ UNCHANGED <<waitingEvent, current>>
        \/ /\ e \notin Callers
           /\ waitingEvent' = [waitingEvent EXCEPT ![i] = WaitingAfter(i, e)]
           /\ disp' = [disp EXCEPT ![i] = "process"]
           /\ current' = [current EXCEPT ![i] = e]
           /\ UNCHANGED <<alive, gone, shut>>
  /\ UNCHANGED <<ringVars, listening, monitor, held, left, lock, phase, vm, used,
                 accepted>>

\* listener.process(event), without the lock.
Process(i) ==
  /\ Running(i) /\ disp[i] = "process"
  /\ disp' = [disp EXCEPT ![i] = "run"]
  /\ current' = [current EXCEPT ![i] = None]
  /\ gone' = [gone EXCEPT ![i] = @ \cup {current[i]}]
  /\ UNCHANGED <<ringVars, listVars, monitor, held, left, lock, shut, phase, vm,
                 used, accepted>>

ProcessThrows(i) ==
  /\ Running(i) /\ disp[i] = "process"
  /\ HandleFatalError(i, monitor)
  /\ disp' = [disp EXCEPT ![i] = "run"]
  /\ current' = [current EXCEPT ![i] = None]
  /\ gone' = [gone EXCEPT ![i] = @ \cup {current[i]}]
  /\ UNCHANGED <<listVars, held, left, lock, shut, phase>>

\* shutdown() sends the event,
ShutdownSends(c) ==
  /\ Running(CallerIso[c]) /\ shut[c] = "no"
  /\ StoreIn({CallerIso[c]}, c, monitor)
  /\ shut' = [shut EXCEPT ![c] = "check"]
  /\ UNCHANGED <<listVars, held, left, lock, disp, current, phase, vm, used, gone>>

\* waits while the queue is alive,
ShutdownChecks(c) ==
  /\ Free(CallerIso[c]) /\ shut[c] = "check"
  /\ shut' = [shut EXCEPT ![c] = IF alive[CallerIso[c]] THEN "waiting" ELSE "reset"]
  /\ UNCHANGED <<ringVars, listVars, monitor, held, left, lock, disp, current,
                 phase, vm, used, accepted, gone>>

\* and resets the native queue.
ShutdownResets(c) ==
  LET i == CallerIso[c]
  IN /\ Running(i) /\ shut[c] = "reset"
     /\ ResetRing(i)
     /\ gone' = [gone EXCEPT ![i] = @ \cup {ring[i][p] : p \in Window(i)}]
     /\ shut' = [shut EXCEPT ![c] = "done"]
     /\ UNCHANGED <<listVars, monitor, held, left, lock, disp, current, phase, vm,
                    used, accepted>>

-----------------------------------------------------------------------------
(* The isolate                                                             *)

\* The static initializer of EventQueue in a new isolate with this ID.
Start(i) ==
  /\ vm = "up" /\ phase[i] = "off"
  /\ ResetRing(i)
  /\ phase' = [phase EXCEPT ![i] = "on"]
  /\ monitor' = [monitor EXCEPT ![i] = "wait"]
  /\ disp' = [disp EXCEPT ![i] = "new"]
  /\ accepted' = [accepted EXCEPT ![i] = <<>>]
  /\ gone' = [gone EXCEPT ![i] = {}]
  /\ UNCHANGED <<listVars, held, left, lock, current, shut, vm, used>>

SpecialKept(i) == special   \* faulty: Task::stop forgets the special thread
SpecialCleared(i) == [special EXCEPT ![i] = FALSE]

\* Task::stop: the isolate's threads are unblocked, they run no more Java code
\* and give up their locks.
StopTask(i) ==
  /\ Running(i)
  /\ phase' = [phase EXCEPT ![i] = "stopping"]
  /\ special' = SpecialCleared(i)
  /\ monitor' = [monitor EXCEPT ![i] = "dead"]
  /\ held' = [held EXCEPT ![i] = None]
  /\ left' = [left EXCEPT ![i] = 0]
  /\ lock' = [lock EXCEPT ![i] = FALSE]
  /\ disp' = [disp EXCEPT ![i] = "dead"]
  /\ current' = [current EXCEPT ![i] = None]
  /\ shut' = [c \in Callers |-> IF CallerIso[c] = i THEN "dead" ELSE shut[c]]
  /\ nextEvent' = [nextEvent EXCEPT ![i] = None]
  /\ lastEvent' = [lastEvent EXCEPT ![i] = None]
  /\ next' = [next EXCEPT ![i] = [e \in Events |-> None]]
  /\ waitingEvent' = [waitingEvent EXCEPT ![i] = [y \in Types |-> None]]
  /\ listening' = [listening EXCEPT ![i] = {}]
  /\ alive' = [alive EXCEPT ![i] = FALSE]
  /\ UNCHANGED <<ring, numEvents, eventIn, eventOut, isMonitorBlocked, vm, used,
                 accepted, gone>>

\* EventQueue.finalize, when the task is finalized.
Finalize(i) ==
  /\ vm = "up" /\ phase[i] = "stopping"
  /\ ResetRing(i)
  /\ phase' = [phase EXCEPT ![i] = "off"]
  /\ UNCHANGED <<listVars, threadVars, vm, used, accepted, gone>>

-----------------------------------------------------------------------------
Monitor(i) ==
  \/ WaitReads(i) \/ WaitBlocks(i) \/ MonitorDrains(i) \/ MonitorFindsNone(i)
  \/ \E wanted \in BOOLEAN : MonitorPosts(i, wanted)

Dispatcher(i) ==
  DispatchStart(i) \/ DispatchWaits(i) \/ Dispatch(i) \/ Process(i)

Throws(i) == MonitorThrows(i) \/ ProcessThrows(i)

Java(i) ==
  \/ \E e \in JavaEvents, wanted \in BOOLEAN : JavaPost(i, e, wanted)
  \/ \E y \in Types : Register(i, y) \/ RemoveEvent(i, y)

Environment ==
  \/ \E e \in NativeEvents, i \in Isolates : Store({i}, e)
  \/ \E e \in NativeEvents : Store(Isolates, e)

ShutdownGoesOn(c) == ShutdownChecks(c) \/ ShutdownResets(c)

Next ==
  \/ \E i \in Isolates : \/ Monitor(i) \/ Dispatcher(i) \/ Java(i) \/ Start(i)
                         \/ Finalize(i)
  \/ \E i \in MayThrow : Throws(i)
  \/ \E i \in MayStop : StopTask(i)
  \/ \E c \in Callers : ShutdownSends(c) \/ ShutdownGoesOn(c)
  \/ Environment

Spec == Init /\ [][Next]_vars

\* The VM schedules every runnable Java thread.  Nothing obliges natives or
\* Java code to send an event, to call shutdown() or to stop an isolate.
Fairness ==
  /\ \A i \in Isolates : WF_vars(Monitor(i)) /\ WF_vars(Dispatcher(i))
  /\ \A c \in Callers : WF_vars(ShutdownGoesOn(c))

FairSpec == Spec /\ Fairness

-----------------------------------------------------------------------------
(* Properties                                                              *)

\* The native queue's fields.
RingTypes ==
  /\ ring \in [Isolates -> [Positions -> Events \cup {None}]]
  /\ numEvents \in [Isolates -> 0..MAX_EVENTS]
  /\ eventIn \in [Isolates -> Positions]
  /\ eventOut \in [Isolates -> Positions]
  /\ isMonitorBlocked \in [Isolates -> BOOLEAN]
  /\ special \in [Isolates -> BOOLEAN]
ListTypes ==
  /\ nextEvent \in [Isolates -> Events \cup {None}]
  /\ lastEvent \in [Isolates -> Events \cup {None}]
  /\ next \in [Isolates -> [Events -> Events \cup {None}]]
  /\ waitingEvent \in [Isolates -> [Types -> Events \cup {None}]]
  /\ listening \in [Isolates -> SUBSET Types]
  /\ alive \in [Isolates -> BOOLEAN]
ThreadTypes ==
  /\ phase \in [Isolates -> {"off", "on", "stopping"}]
  /\ monitor \in [Isolates -> {"wait", "blocked", "post", "drain", "dead"}]
  /\ held \in [Isolates -> Events \cup {None}]
  /\ left \in [Isolates -> 0..MAX_EVENTS]
  /\ lock \in [Isolates -> BOOLEAN]
  /\ disp \in [Isolates -> {"new", "run", "waiting", "process", "ended", "dead"}]
  /\ current \in [Isolates -> Events \cup {None}]
  /\ shut \in [Callers -> {"no", "check", "waiting", "reset", "done", "dead"}]
  /\ vm \in {"up", "exited"} /\ used \in SUBSET Events

\* The type invariant: in particular no index leaves the ring and the count
\* stays within its capacity.
TypeOK == RingTypes /\ ListTypes /\ ThreadTypes

\* eventIn, eventOut and numEvents agree: the ring holds events exactly in the
\* numEvents positions that start at eventOut and end before eventIn, so a
\* store never overwrites a pending event and a read never returns an old one.
RingExact ==
  \A i \in Isolates :
    /\ eventIn[i] = (eventOut[i] + numEvents[i]) % MAX_EVENTS
    /\ \A p \in Positions : ring[i][p] # None <=> p \in Window(i)

\* The monitor thread does not sleep on a pending event: whenever it is blocked
\* and its queue has not been shut down, the ring is empty and the next store
\* will find the flag and the thread.
NoLostNativeWakeup ==
  \A i \in Isolates :
    monitor[i] = "blocked" /\ (\A c \in Callers : CallerIso[c] = i => shut[c] # "done")
      => numEvents[i] = 0 /\ isMonitorBlocked[i] /\ special[i]

\* SNI_UnblockThread is only called on a thread that is blocked: a store never
\* takes a running, or a dead isolate's, thread off the list of blocked ones.
UnblocksBlockedThread ==
  \A i \in Isolates : isMonitorBlocked[i] /\ special[i] => monitor[i] = "blocked"

\* notifyAll reaches everyone: the dispatch thread waits only for an empty queue,
\* a caller of shutdown() only for a live one.
NoLostNotify ==
  /\ \A i \in Isolates : disp[i] = "waiting" => nextEvent[i] = None
  /\ \A c \in Callers : shut[c] = "waiting" => alive[CallerIso[c]]

\* nextEvent, lastEvent and the next references form one list: what post() links
\* behind lastEvent is reached from nextEvent, and the list ends.
ListWellFormed ==
  \A i \in Isolates :
    LET l == List(i)
    IN /\ Cardinality({l[k] : k \in 1..Len(l)}) = Len(l)
       /\ lastEvent[i] = IF l = <<>> THEN None ELSE l[Len(l)]
       /\ \A e \in Events \ {l[k] : k \in 1..Len(l)} : next[i][e] = None

\* A listener's preprocess() is only given an event that is still queued, the
\* youngest of its type, so what it merges into that event is processed.
WaitingEventIsQueued ==
  \A i \in Isolates : \A y \in Types :
    waitingEvent[i][y] # None =>
      \E k \in 1..Len(List(i)) :
        /\ List(i)[k] = waitingEvent[i][y]
        /\ \A j \in k + 1..Len(List(i)) : EventType(List(i)[j]) # y

\* Native events keep their order through ring, monitor thread and Java queue,
\* each is there once, and one that is no longer there was processed, refused,
\* removed or reset.
InOrderOnce ==
  \A i \in Isolates : phase[i] = "on" =>
    Among(accepted[i], Events \ gone[i])
      = Among((IF current[i] = None THEN <<>> ELSE <<current[i]>>)
               \o List(i) \o (IF held[i] = None THEN <<>> ELSE <<held[i]>>)
               \o Pending(i),
             Events \ JavaEvents)

\* An event the ring took in is eventually dealt with.
EventsGetHandled ==
  \A i \in Isolates, e \in NativeEvents :
    (\E k \in 1..Len(accepted[i]) : accepted[i][k] = e)
      ~> (e \in gone[i] \/ disp[i] = "ended" \/ phase[i] # "on")

\* shutdown() returns, once the ring has taken in its event; into a full ring
\* it is not stored, and the caller waits for good.
ShutdownReturns ==
  \A c \in Callers :
    shut[c] = "check" /\ (\E k \in 1..Len(accepted[CallerIso[c]]) :
                            accepted[CallerIso[c]][k] = c)
      ~> shut[c] \in {"done", "dead"}
=============================================================================
