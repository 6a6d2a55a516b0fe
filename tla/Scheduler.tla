------------------------------ MODULE Scheduler ------------------------------
(***************************************************************************)
(* Threads, monitors and tasks of the CLDC virtual machine                 *)
(* (cldc/src/vm/share/runtime: Scheduler.cpp, Synchronizer.cpp, Task.cpp). *)
(*                                                                         *)
(* Java threads are scheduled by the VM itself; native code and the        *)
(* scheduler are not preempted, so every operation below is one atomic     *)
(* step, taken by some thread of the run queues.  A thread is in the run   *)
(* queues, blocked in a native method, suspended with its task, asleep,    *)
(* in Object.wait(), or on the list of the threads that want a monitor.    *)
(* Which ready thread runs next is left open (the run queues are a set):   *)
(* priorities and time slices restrict the choice, nothing below relies on *)
(* it.  Interned strings, whose monitor is a proxy object, are not         *)
(* distinguished from other objects.                                       *)
(***************************************************************************)
EXTENDS Integers, Sequences, FiniteSets, SequencesExt, Lists

CONSTANTS Threads, Tasks, Objects,
          TaskOf,       \* the task of each thread
          HomeOf,       \* the task whose heap holds each object
          ThreadObj,    \* the java.lang.Thread object of each thread, or Null
          IsolateObjs,  \* objects that are com.sun.cldc.isolate.Isolate
          FirstThreads, \* threads that run from the beginning
          MaxReentry,   \* bound: nested synchronized blocks on one object
          Suspendable,  \* tasks the AMS suspends with JVM_SuspendIsolate
          JavaSuspends, \* tasks for which Isolate.suspend() is called
          Haltable,     \* tasks that may be stopped
          Null

ASSUME Placement ==
  /\ TaskOf \in [Threads -> Tasks] /\ HomeOf \in [Objects -> Tasks]
  /\ ThreadObj \in [Threads -> Objects \cup {Null}]
  /\ FirstThreads \subseteq Threads /\ IsolateObjs \subseteq Objects
  /\ Suspendable \cup JavaSuspends \cup Haltable \subseteq Tasks
  /\ MaxReentry \in Nat

ASSUME NullIsNothing == Null \notin Threads \cup Objects

VARIABLES
  active,     \* the threads of all tasks' priority queues
  async,      \* Universe::scheduler_async: blocked in a native method
  suspendQ,   \* Universe::suspend_task_queue
  sleeping,   \* first list of Universe::scheduler_waiting
  waitQ,      \* its other lists: the threads in Object.wait(), by object
  syncQ,      \* StackLock::_waiters of the object's lock
  locker,     \* StackLock::_thread of the object's lock, Null: not locked
  reentry,    \* number of reentrant stack locks, by thread and object
  waitObj,    \* Thread::wait_obj
  timed,      \* threads asleep or in wait() whose wakeup_time is not 0 (a
              \* wakeup_time left over from such a time is never looked at)
  interrupt,  \* threads with a pending interrupt
  alive,      \* Universe::global_threadlist
  ended,      \* threads that were terminated
  stopping,   \* tasks with status TASK_STOPPING (and is_terminating)
  suspended   \* tasks with SUSPEND_STATUS

queues == <<active, async, suspendQ, sleeping, waitQ, syncQ>>
locks == <<locker, reentry, waitObj>>
lives == <<alive, ended, stopping, suspended>>
vars == <<queues, locks, timed, interrupt, lives>>

Members(q) == {q[i] : i \in DOMAIN q}
ThreadsOf(k) == {t \in alive : TaskOf[t] = k}
Dying(t) == TaskOf[t] \in stopping
(* t executes Java code: it is ready, and its task has not been stopped.   *)
Runs(t) == t \in active /\ ~Dying(t)

Init ==
  /\ active = FirstThreads /\ alive = FirstThreads /\ ended = {}
  /\ async = {} /\ suspendQ = {} /\ sleeping = {}
  /\ waitQ = [o \in Objects |-> <<>>] /\ syncQ = [o \in Objects |-> <<>>]
  /\ locker = [o \in Objects |-> Null]
  /\ reentry = [t \in Threads |-> [o \in Objects |-> 0]]
  /\ waitObj = [t \in Threads |-> Null]
  /\ timed = {} /\ interrupt = {}
  /\ stopping = {} /\ suspended = {}

-----------------------------------------------------------------------------
(* Monitors.                                                               *)

(* monitorenter on a free object, or on one this thread has locked.        *)
Lock(t, o) ==
  /\ Runs(t) /\ HomeOf[o] = TaskOf[t] /\ locker[o] = Null
  /\ locker' = [locker EXCEPT ![o] = t]
  /\ UNCHANGED <<queues, reentry, waitObj, timed, interrupt, lives>>

Relock(t, o) ==
  /\ Runs(t) /\ locker[o] = t /\ reentry[t][o] < MaxReentry
  /\ reentry' = [reentry EXCEPT ![t][o] = @ + 1]
  /\ UNCHANGED <<queues, locker, waitObj, timed, interrupt, lives>>

(* Synchronizer::enter on an object another thread has locked: the thread  *)
(* goes to the end of the lock's waiters (add_sync_thread).                *)
EnterWaits(t, o) ==
  /\ Runs(t) /\ HomeOf[o] = TaskOf[t] /\ locker[o] \notin {Null, t}
  /\ active' = active \ {t}
  /\ syncQ' = [syncQ EXCEPT ![o] = Append(@, t)]
  /\ waitObj' = [waitObj EXCEPT ![t] = o]
  /\ timed' = timed \ {t}
  /\ UNCHANGED <<async, suspendQ, sleeping, waitQ, locker, reentry, interrupt, lives>>

\* Faulty: the lock is freed and its waiters are forgotten.
HandedToNobody(o) == Null
\* Faulty: the thread that came last gets the lock.
HandedToLast(o) == IF syncQ[o] = <<>> THEN Null ELSE Last(syncQ[o])

(* signal_waiters for the lock of every object in os: the first waiter     *)
(* becomes ready and owns the lock, and takes the other waiters over.      *)
HandedTo(o) == IF syncQ[o] = <<>> THEN Null ELSE Head(syncQ[o])
Heirs(os) == {HandedTo(o) : o \in os} \ {Null}
LockerAfter(os) == [o \in Objects |-> IF o \in os THEN HandedTo(o) ELSE locker[o]]
SyncAfter(os) ==
  [o \in Objects |-> IF o \in os /\ syncQ[o] # <<>> THEN Tail(syncQ[o]) ELSE syncQ[o]]

\* Faulty: the last stack lock passes for a reentrant one.
ReentrantToo(t, o) == reentry[t][o] >= 0

(* unlock_object: a stack lock without real_java_near is a reentrant one.  *)
Reentrant(t, o) == reentry[t][o] > 0

(* monitorexit of a reentrant lock, and of the lock itself.                *)
UnlockReentrant(t, o) ==
  /\ Runs(t) /\ locker[o] = t /\ Reentrant(t, o)
  /\ reentry' = [reentry EXCEPT ![t][o] = @ - 1]
  /\ UNCHANGED <<queues, locker, waitObj, timed, interrupt, lives>>

Unlock(t, o) ==
  /\ Runs(t) /\ locker[o] = t /\ ~Reentrant(t, o)
  /\ locker' = LockerAfter({o})
  /\ syncQ' = SyncAfter({o})
  /\ active' = active \cup Heirs({o})
  /\ waitObj' = [u \in Threads |-> IF u \in Heirs({o}) THEN Null ELSE waitObj[u]]
  /\ UNCHANGED <<async, suspendQ, sleeping, waitQ, reentry, timed, interrupt, lives>>

-----------------------------------------------------------------------------
(* Object.wait() and notify().                                             *)

(* A pending interrupt makes wait() and sleep() throw at once.             *)
ThrowInterrupted(t) ==
  /\ Runs(t) /\ t \in interrupt
  /\ interrupt' = interrupt \ {t}
  /\ UNCHANGED <<queues, locks, timed, lives>>

(* Scheduler::wait: free the object (its reentrant locks stay), hand it    *)
(* over, and queue up behind the others who wait for it.                   *)
Wait(t, o, withTimeout) ==
  /\ Runs(t) /\ locker[o] = t /\ t \notin interrupt
  /\ locker' = LockerAfter({o})
  /\ syncQ' = SyncAfter({o})
  /\ active' = (active \ {t}) \cup Heirs({o})
  /\ waitQ' = [waitQ EXCEPT ![o] = Append(@, t)]
  /\ waitObj' = [u \in Threads |-> IF u = t THEN o
                                   ELSE IF u \in Heirs({o}) THEN Null ELSE waitObj[u]]
  /\ timed' = IF withTimeout THEN timed \cup {t} ELSE timed \ {t}
  /\ UNCHANGED <<async, suspendQ, sleeping, reentry, interrupt, lives>>

\* Faulty: a thread that was woken up takes the lock from its owner.
GotLockAlways(ws, lk) == IF ws # <<>> THEN {Head(ws)} ELSE {}

(* notify_wakeup for the threads ws, which wait for o, in this order: each *)
(* is made ready and enters the monitor again.  Only the first can get it, *)
(* and only if nobody (lk) has it.                                         *)
GotLock(ws, lk) == IF lk = Null /\ ws # <<>> THEN {Head(ws)} ELSE {}
MustSync(ws, lk) == IF lk = Null /\ ws # <<>> THEN Tail(ws) ELSE ws
\* Faulty: notify_wakeup does not look at the state of the task.
HeldNever(ts) == {}

(* A thread of a suspended task is suspended as soon as it has the lock.   *)
Held(ts) == {t \in ts : TaskOf[t] \in suspended}

WakeWaiters(o, ws, rest) ==
  LET got == GotLock(ws, locker[o]) IN
  /\ active' = active \cup (got \ Held(got))
  /\ suspendQ' = suspendQ \cup Held(got)
  /\ locker' = [locker EXCEPT ![o] = IF got = {} THEN @ ELSE Head(ws)]
  /\ syncQ' = [syncQ EXCEPT ![o] = @ \o MustSync(ws, locker[o])]
  /\ waitQ' = [waitQ EXCEPT ![o] = rest]
  /\ waitObj' = [u \in Threads |-> IF u \in got THEN Null ELSE waitObj[u]]
  /\ timed' = timed \ Members(ws)
  /\ UNCHANGED <<async, sleeping, reentry>>

Notify(t, o) ==
  /\ Runs(t) /\ locker[o] = t /\ waitQ[o] # <<>>
  /\ WakeWaiters(o, <<Head(waitQ[o])>>, Tail(waitQ[o]))
  /\ UNCHANGED <<interrupt, lives>>

NotifyAll(t, o) ==
  /\ Runs(t) /\ locker[o] = t /\ waitQ[o] # <<>>
  /\ WakeWaiters(o, waitQ[o], <<>>)
  /\ UNCHANGED <<interrupt, lives>>

(* IsolateObj::terminate and notify_all_waiters: another task notifies     *)
(* without owning the monitor, which may be free.                          *)
NotifyIsolate(o) ==
  /\ o \in IsolateObjs /\ waitQ[o] # <<>>
  /\ WakeWaiters(o, waitQ[o], <<>>)
  /\ UNCHANGED <<interrupt, lives>>

\* Faulty: only the head of a queue is unlinked.
WithoutHead(q, t) == IF Head(q) = t THEN Tail(q) ELSE q

(* A waiting thread leaves its queue from any place in it.                 *)
Without(q, t) == RemoveFirst(q, t)

(* wake_up_timed_out_sleepers, one thread at a time.                       *)
WaitTimesOut(t) ==
  /\ t \in timed /\ waitObj[t] # Null
  /\ WakeWaiters(waitObj[t], <<t>>, Without(waitQ[waitObj[t]], t))
  /\ UNCHANGED <<interrupt, lives>>

(* Scheduler::interrupt_thread, by a thread of the same task.  A thread    *)
(* that waits is woken up (a sleeping one: SleepEnds); one that does not,  *)
(* or for which no exception could be allocated, finds the interrupt       *)
(* pending at its next wait() or sleep().                                  *)
InterruptWaiting(u, t) ==
  /\ Runs(u) /\ TaskOf[u] = TaskOf[t] /\ t \in alive
  /\ waitObj[t] # Null /\ t \in Members(waitQ[waitObj[t]])
  /\ WakeWaiters(waitObj[t], <<t>>, Without(waitQ[waitObj[t]], t))
  /\ UNCHANGED <<interrupt, lives>>

SetPendingInterrupt(u, t) ==
  /\ Runs(u) /\ TaskOf[u] = TaskOf[t] /\ t \in alive \ interrupt
  /\ interrupt' = interrupt \cup {t}
  /\ UNCHANGED <<queues, locks, timed, lives>>

-----------------------------------------------------------------------------
(* Sleeping, native methods that block, and suspended tasks.               *)

Sleep(t) ==
  /\ Runs(t) /\ t \notin interrupt
  /\ active' = active \ {t}
  /\ sleeping' = sleeping \cup {t}
  /\ timed' = timed \cup {t}
  /\ UNCHANGED <<async, suspendQ, waitQ, syncQ, locks, interrupt, lives>>

(* A thread that is ready again joins the run queues, or the suspended     *)
(* threads when its task is suspended.                                     *)
Ready(t) ==
  /\ active' = active \cup ({t} \ Held({t}))
  /\ suspendQ' = suspendQ \cup Held({t})

(* A sleeper's time is over, or it is interrupted.                         *)
SleepEnds(t) ==
  /\ t \in sleeping
  /\ sleeping' = sleeping \ {t}
  /\ timed' = timed \ {t}
  /\ Ready(t)
  /\ UNCHANGED <<async, waitQ, syncQ, locks, interrupt, lives>>

(* block_current_thread and unblock_thread.                                *)
Block(t) ==
  /\ Runs(t)
  /\ active' = active \ {t} /\ async' = async \cup {t}
  /\ UNCHANGED <<suspendQ, sleeping, waitQ, syncQ, locks, timed, interrupt, lives>>

Unblock(t) ==
  /\ t \in async
  /\ async' = async \ {t}
  /\ Ready(t)
  /\ UNCHANGED <<sleeping, waitQ, syncQ, locks, timed, interrupt, lives>>

(* Task::suspend: the ready threads of the task leave the run queues.      *)
SuspendTask(k) ==
  /\ suspended' = suspended \cup {k}
  /\ active' = active \ ThreadsOf(k)
  /\ suspendQ' = suspendQ \cup (active \cap ThreadsOf(k))
  /\ UNCHANGED <<async, sleeping, waitQ, syncQ, locks, timed, interrupt,
                 alive, ended, stopping>>

(* JVM_SuspendIsolate looks at the status of the task ...                  *)
SuspendIsolate(k) ==
  /\ k \in Suspendable /\ ThreadsOf(k) # {}
  /\ k \notin stopping \cup suspended
  /\ SuspendTask(k)

(* ... Isolate.suspend0 does not.                                          *)
Suspend0(k) ==
  /\ k \in JavaSuspends /\ ThreadsOf(k) # {}
  /\ SuspendTask(k)

(* JVM_ResumeIsolate and Isolate.resume0.                                  *)
ResumeTask(k) ==
  /\ k \in suspended /\ ThreadsOf(k) # {}
  /\ suspended' = suspended \ {k}
  /\ active' = active \cup (suspendQ \cap ThreadsOf(k))
  /\ suspendQ' = suspendQ \ ThreadsOf(k)
  /\ UNCHANGED <<async, sleeping, waitQ, syncQ, locks, timed, interrupt,
                 alive, ended, stopping>>

-----------------------------------------------------------------------------
(* Threads and tasks come and go.                                          *)

StartThread(u, t) ==
  /\ Runs(u) /\ TaskOf[u] = TaskOf[t] /\ t \notin alive \cup ended
  /\ active' = active \cup {t} /\ alive' = alive \cup {t}
  /\ UNCHANGED <<async, suspendQ, sleeping, waitQ, syncQ, locks, timed,
                 interrupt, ended, stopping, suspended>>

(* Frame unwinding of a stopped task's thread frees every lock its frames  *)
(* still own; a thread that ends by itself owns none.                      *)
OwnedBy(t) == {o \in Objects : locker[o] = t}
NoLocks(t) == OwnedBy(t) = {} /\ \A o \in Objects : reentry[t][o] = 0
Unwound(t) == OwnedBy(t)

(* Thread::finish notifies the threads that wait for the Thread object,    *)
(* Scheduler::terminate then takes the thread off the lists.               *)
ThreadEnds(t) ==
  LET os == Unwound(t)
      j == ThreadObj[t]
      lk == LockerAfter(os)
      sq == SyncAfter(os)
      ws == IF j = Null THEN <<>> ELSE waitQ[j]
      got == IF j = Null THEN {} ELSE GotLock(ws, lk[j])
  IN
  /\ t \in active
  /\ Dying(t) \/ NoLocks(t)
  /\ active' = ((active \ {t}) \cup Heirs(os)) \cup (got \ Held(got))
  /\ suspendQ' = suspendQ \cup Held(got)
  /\ locker' = [o \in Objects |-> IF o = j /\ got # {} THEN Head(ws) ELSE lk[o]]
  /\ syncQ' = [o \in Objects |-> IF o = j THEN sq[o] \o MustSync(ws, lk[o]) ELSE sq[o]]
  /\ waitQ' = [o \in Objects |-> IF o = j THEN <<>> ELSE waitQ[o]]
  /\ waitObj' = [u \in Threads |-> IF u \in Heirs(os) \cup got THEN Null ELSE waitObj[u]]
  /\ reentry' = [reentry EXCEPT ![t] = [o \in Objects |-> 0]]
  /\ timed' = timed \ (Members(ws) \cup {t})
  /\ interrupt' = interrupt \ {t}
  /\ alive' = alive \ {t} /\ ended' = ended \cup {t}
  /\ UNCHANGED <<async, sleeping, stopping, suspended>>

InTask(k) == {t \in Threads : TaskOf[t] = k}

(* Task::stop.  wake_up_terminated_sleepers makes every thread of the task *)
(* ready: those in wait() first enter their monitor again, those asleep,   *)
(* blocked or suspended just leave their list; whoever then still wants a  *)
(* monitor is activated without it, and the waiters of that lock are       *)
(* cleared.                                                                *)
WaitersOf(k, o) == Among(waitQ[o], InTask(k))
SyncedOnStop(k, o) == syncQ[o] \o MustSync(WaitersOf(k, o), locker[o])
StillWants(k, t) == t \in ThreadsOf(k) /\ \E o \in Objects : t \in Members(SyncedOnStop(k, o))
\* Faulty: nobody looks for threads that want a monitor.
FreedNone(k) == {}

(* The threads found by wait_obj on the global list of threads.            *)
Freed(k) == {t \in Threads : StillWants(k, t)}

StopTask(k) ==
  LET roused == {t \in ThreadsOf(k) : ~StillWants(k, t)} \cup Freed(k) IN
  /\ k \in Haltable \ stopping /\ ThreadsOf(k) # {}
  /\ stopping' = stopping \cup {k}
  /\ suspended' = suspended \ {k}
  /\ active' = active \cup roused
  /\ async' = async \ ThreadsOf(k) /\ suspendQ' = suspendQ \ ThreadsOf(k)
  /\ sleeping' = sleeping \ ThreadsOf(k)
  /\ waitQ' = [o \in Objects |-> Among(waitQ[o], Threads \ InTask(k))]
  /\ locker' = [o \in Objects |->
                  IF locker[o] = Null /\ WaitersOf(k, o) # <<>>
                  THEN Head(WaitersOf(k, o)) ELSE locker[o]]
  /\ syncQ' = [o \in Objects |->
                 IF Members(SyncedOnStop(k, o)) \cap Freed(k) # {}
                 THEN <<>> ELSE SyncedOnStop(k, o)]
  /\ waitObj' = [t \in Threads |-> IF t \in roused THEN Null ELSE waitObj[t]]
  /\ timed' = timed \ ThreadsOf(k)
  /\ UNCHANGED <<reentry, interrupt, alive, ended>>

-----------------------------------------------------------------------------
Monitors(t, o) ==
  \/ Lock(t, o) \/ Relock(t, o) \/ EnterWaits(t, o)
  \/ UnlockReentrant(t, o) \/ Unlock(t, o)
  \/ \E withTimeout \in BOOLEAN : Wait(t, o, withTimeout)
  \/ Notify(t, o) \/ NotifyAll(t, o)

Next ==
  \/ \E t \in Threads, o \in Objects : Monitors(t, o)
  \/ \E o \in Objects : NotifyIsolate(o)
  \/ \E t \in Threads : \/ WaitTimesOut(t) \/ ThrowInterrupted(t)
                        \/ Sleep(t) \/ SleepEnds(t)
                        \/ Block(t) \/ Unblock(t) \/ ThreadEnds(t)
  \/ \E u, t \in Threads : \/ InterruptWaiting(u, t) \/ SetPendingInterrupt(u, t)
                           \/ StartThread(u, t)
  \/ \E k \in Tasks : \/ SuspendIsolate(k) \/ Suspend0(k) \/ ResumeTask(k)
                      \/ StopTask(k)

Spec == Init /\ [][Next]_vars

(* The only fairness: a thread whose task was stopped is scheduled.  The   *)
(* run queues are served round robin (add_to_list appends), and every task *)
(* priority has its share.                                                 *)
FairSpec == Spec /\ \A t \in Threads : WF_vars(Dying(t) /\ ThreadEnds(t))

-----------------------------------------------------------------------------
(* Type correctness of the scheduler's lists and locks.                    *)
TypeOK ==
  /\ active \subseteq Threads /\ async \subseteq Threads
  /\ suspendQ \subseteq Threads /\ sleeping \subseteq Threads
  /\ waitQ \in [Objects -> Seq(Threads)] /\ syncQ \in [Objects -> Seq(Threads)]
  /\ locker \in [Objects -> Threads \cup {Null}]
  /\ reentry \in [Threads -> [Objects -> 0..MaxReentry]]
  /\ waitObj \in [Threads -> Objects \cup {Null}]
  /\ timed \subseteq Threads /\ interrupt \subseteq Threads
  /\ alive \subseteq Threads /\ ended \subseteq Threads
  /\ stopping \subseteq Tasks /\ suspended \subseteq Tasks

Waiting == UNION {Members(waitQ[o]) : o \in Objects}
Syncing == UNION {Members(syncQ[o]) : o \in Objects}
Places(q, t) == {x \in UNION {{o} \X DOMAIN q[o] : o \in Objects} : q[x[1]][x[2]] = t}

(* The lists link threads through the same fields (Thread::_next,          *)
(* _previous, _next_waiting): every living thread is on exactly one list,  *)
(* at one place, and no ended thread is on any.                            *)
OnOneList ==
  /\ alive = UNION {active, async, suspendQ, sleeping, Waiting, Syncing}
  /\ \A t \in alive :
       Cardinality({n \in 1..4 : t \in <<active, async, suspendQ, sleeping>>[n]})
       + Cardinality(Places(waitQ, t)) + Cardinality(Places(syncQ, t)) = 1

(* Whoever wants a monitor wants one that somebody else has, and that      *)
(* somebody still exists, so that the unlock that wakes it up can come; no *)
(* thread takes a monitor to its grave.                                    *)
WaitersHaveLocker ==
  \A o \in Objects :
    locker[o] \in (alive \ Members(syncQ[o]))
                  \cup (IF syncQ[o] = <<>> THEN {Null} ELSE {})

(* A thread that ran into a synchronized block and has not left it owns    *)
(* the object whenever it runs: nobody else took it over a wait(), a       *)
(* timeout or an interrupt.                                                *)
OwnsWhatItEntered ==
  \A t \in alive, o \in Objects :
    reentry[t][o] > 0 /\ ~Dying(t) => locker[o] = t \/ waitObj[t] = o

(* A suspended task does not run: no event that makes one of its threads   *)
(* ready puts it into the run queues.                                      *)
SuspendedStaysOff == \A t \in active : TaskOf[t] \notin suspended

(* Monitors are handed over in the order of arrival: a thread that becomes *)
(* the owner of a monitor others were waiting for had waited longest.      *)
FirstComeFirstServed ==
  [][\A o \in Objects :
       locker'[o] \notin {locker[o], Null} /\ syncQ[o] # <<>>
         => locker'[o] = Head(syncQ[o])]_vars

(* Isolate.halt() and exit(): all threads of a stopped task end, wherever  *)
(* they were when it was stopped, those in a deadlock included.            *)
StoppedTaskEnds ==
  \A k \in Tasks : k \in stopping ~> \A t \in Threads : TaskOf[t] = k => t \notin alive
=============================================================================
