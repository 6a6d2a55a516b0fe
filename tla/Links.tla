------------------------------- MODULE Links -------------------------------
(***************************************************************************)
(* Inter-isolate links of the MIDP stack: the native side of               *)
(* com.sun.midp.links.Link and LinkPortal (midp/src/links).                *)
(*                                                                         *)
(* A Link is a Java object of one isolate holding a native pointer to a    *)
(* reference-counted "rendezvous point".  send0() and receive0() block     *)
(* with midp_thread_wait(), which makes the VM run the native method again *)
(* from its start once the thread is signalled, so one action below is one *)
(* execution of a native method by one thread.  Natives are not            *)
(* preemptible: the only code that can run inside one is a finalizer,      *)
(* when receive0() allocates the copy of a message and so collects garbage.*)
(***************************************************************************)
EXTENDS Integers, FiniteSets

CONSTANTS Isolates,      \* isolate identifiers
          Threads,       \* Java threads
          ThreadIso,     \* the isolate of each thread
          LinkObjs,      \* bound: the pool of Link Java objects
          LinkIso,       \* the isolate whose heap holds each Link object
          RPs,           \* bound: addresses pcsl_mem_malloc may return
          Data,          \* LinkMessage objects holding bytes or a string
          Sendable,      \* Link objects that are put into a LinkMessage
          MaxPortal,     \* bound: longest array given to LinkPortal.setLinks
          Endpoints,     \* <<sender, receiver>> pairs given to Link.newLink
          PortalTargets, \* isolates that LinkPortal.setLinks is called for
          Droppable,     \* Link objects the program may drop without close()
          MayStop,       \* isolates that may be stopped
          Null           \* NULL pointer, INVALID_REFERENCE_ID, nobody

ASSUME FinitePools ==
  /\ IsFiniteSet(Isolates) /\ IsFiniteSet(LinkObjs)
  /\ MaxPortal \in Nat

ASSUME Placement ==
  /\ ThreadIso \in [Threads -> Isolates]
  /\ LinkIso \in [LinkObjs -> Isolates]
  /\ Endpoints \subseteq Isolates \X Isolates
  /\ Sendable \subseteq LinkObjs
  /\ PortalTargets \subseteq Isolates /\ MayStop \subseteq Isolates

ASSUME DistinctNames ==
  /\ Null \notin RPs \cup Isolates \cup Threads \cup LinkObjs \cup Data
  /\ RPs \cap Isolates = {}
  /\ Threads \cap Isolates = {}
  /\ Data \cap LinkObjs = {}

VARIABLES
  state, retcode, refcount, msg, sender, receiver, \* rendezvous, by address
  ptr,                                             \* Link.nativePointer
  count, slot,                                     \* portals[]
  op, lnk, arg, len, reentry, outcome,             \* the thread's call
  waiting,       \* MidpReentryData.descriptor of a blocked thread
  busy,          \* the thread copying a message, or the isolate being
                 \* finalized: natives that hold the VM over several steps
  dying,         \* isolates that were asked to stop
  fault,         \* how the VM was brought down
  unacked        \* history: how often each message was transferred by this
                 \* rendezvous without a send0 having reported it yet

rpVars == <<state, retcode, refcount, msg, sender, receiver, unacked>>
portalVars == <<count, slot>>
callVars == <<op, lnk, arg, len, reentry, outcome>>
vmVars == <<busy, dying, fault>>
vars == <<rpVars, ptr, portalVars, callVars, waiting, vmVars>>

-----------------------------------------------------------------------------
States == {"IDLE", "SENDING", "RECEIVING", "RENDEZVOUS", "DONE", "CLOSED"}
Messages == Data \cup Sendable   \* a LinkMessage is named by its contents
Nothing == [m \in Messages |-> 0]
Just(m) == [n \in Messages |-> IF n = m THEN 1 ELSE 0]
Slots == Isolates \X (1..MaxPortal)
Outcomes == {"none", "ok", "ClosedLinkException", "InterruptedIOException",
             "IllegalArgumentException", "IOException"}
Faults == {"none", "staleRefid", "nullRendezvous", "outOfBounds"}
Ops == {"idle", "send", "receive", "getLinkCount", "getLinks", "dead"}

LinkHolders(r) == {l \in LinkObjs : ptr[l] = r}
SlotHolders(r) == {x \in Slots : slot[x] = r}
PortalHoldersForgotten(i, r) == {}   \* faulty: portal_free gives up nothing
PortalHolders(i, r) == {x \in Slots : x[1] = i /\ slot[x] = r}
Live(r) == refcount[r] > 0

Alive(i) == \E t \in Threads : ThreadIso[t] = i /\ op[t] # "dead"

\* A Link object some running call, or a message awaiting transfer, refers to.
InUse(l) == \/ \E t \in Threads : lnk[t] = l \/ arg[t] = l
            \/ \E r \in RPs : Live(r) /\ msg[r] = l

\* The Link objects of isolate i that "new Link()" may return.
Fresh(i) == {l \in LinkObjs : LinkIso[l] = i /\ ptr[l] = Null /\ ~InUse(l)}

Init ==
  /\ state = [r \in RPs |-> "IDLE"]
  /\ retcode = [r \in RPs |-> "OK"]
  /\ refcount = [r \in RPs |-> 0]
  /\ msg = [r \in RPs |-> Null]
  /\ sender = [r \in RPs |-> Null]
  /\ receiver = [r \in RPs |-> Null]
  /\ unacked = [r \in RPs |-> Nothing]
  /\ ptr = [l \in LinkObjs |-> Null]
  /\ count = [i \in Isolates |-> -1]
  /\ slot = [x \in Slots |-> Null]
  /\ op = [t \in Threads |-> "idle"]
  /\ lnk = [t \in Threads |-> Null]
  /\ arg = [t \in Threads |-> Null]
  /\ len = [t \in Threads |-> 0]
  /\ reentry = [t \in Threads |-> FALSE]
  /\ outcome = [t \in Threads |-> "none"]
  /\ waiting = [t \in Threads |-> Null]
  /\ busy = Null
  /\ dying = {}
  /\ fault = "none"

-----------------------------------------------------------------------------
(* The thread side: midp_thread.c and the Java callers in Link.java        *)

\* Faulty: only one of the threads blocked on d is unblocked.
SignalledOne(d) ==
  IF \E t \in Threads : waiting[t] = d
  THEN [waiting EXCEPT ![CHOOSE t \in Threads : waiting[t] = d] = Null]
  ELSE waiting

\* midp_thread_signal: every thread blocked on descriptor d is unblocked.
Signalled(d) == [t \in Threads |-> IF waiting[t] = d THEN Null ELSE waiting[t]]

\* midp_thread_wait: keeps (or allocates) the reentry data, blocks the thread.
Wait(t, d) == /\ waiting' = [waiting EXCEPT ![t] = d]
              /\ reentry' = [reentry EXCEPT ![t] = TRUE]
              /\ UNCHANGED <<op, lnk, arg, len, outcome>>

SignalAndWait(t, d) ==
  /\ waiting' = [Signalled(d) EXCEPT ![t] = d]
  /\ reentry' = [reentry EXCEPT ![t] = TRUE]
  /\ UNCHANGED <<op, lnk, arg, len, outcome>>

\* The native method completes: its call frame and reentry data go away.
Return(t, result) ==
  /\ op' = [op EXCEPT ![t] = "idle"]
  /\ lnk' = [lnk EXCEPT ![t] = Null]
  /\ arg' = [arg EXCEPT ![t] = Null]
  /\ len' = [len EXCEPT ![t] = 0]
  /\ reentry' = [reentry EXCEPT ![t] = FALSE]
  /\ outcome' = [outcome EXCEPT ![t] = result]

\* The VM goes down inside a native; what the native did so far is moot.
Crash(why) ==
  /\ fault' = why
  /\ UNCHANGED <<rpVars, ptr, portalVars, callVars, waiting, busy, dying>>

\* No native holds the VM and it has not gone down.
Quiet == busy = Null /\ fault = "none"

CanCall(t) == Quiet /\ op[t] = "idle"

Begin(t, what, l, m) ==
  /\ CanCall(t)
  /\ op' = [op EXCEPT ![t] = what]
  /\ lnk' = [lnk EXCEPT ![t] = l]
  /\ arg' = [arg EXCEPT ![t] = m]
  /\ outcome' = [outcome EXCEPT ![t] = "none"]
  /\ UNCHANGED <<rpVars, ptr, portalVars, len, reentry, waiting, vmVars>>

\* Link.send(lm): the message object is built before send0 is entered.
StartSend(t, l, m) ==
  /\ LinkIso[l] = ThreadIso[t] /\ ptr[l] # Null
  /\ m \in Sendable => LinkIso[m] = ThreadIso[t] /\ ptr[m] # Null
  /\ Begin(t, "send", l, m)

\* Link.receive()
StartReceive(t, l) ==
  /\ LinkIso[l] = ThreadIso[t] /\ ptr[l] # Null
  /\ Begin(t, "receive", l, Null)

\* A native call of thread t is about to be executed (or executed again).
Runs(t, what) == Quiet /\ op[t] = what /\ waiting[t] = Null

ClosedResult(t) == IF reentry[t] THEN "InterruptedIOException"
                   ELSE "ClosedLinkException"

-----------------------------------------------------------------------------
(* Link.newLink / init0, close, finalize                                   *)

\* rp_incref and rp_decref (the stale reference check is StaleOnDecref).
Incref(r) == [refcount EXCEPT ![r] = @ + 1]
DecrefTwice(r) == [refcount EXCEPT ![r] = @ - 2]   \* faulty
Decref(r) == [refcount EXCEPT ![r] = @ - 1]

\* Link.newLink: rp_create and rp_incref; the isTerminated() checks are the
\* ones of the Java method.  (Out of memory changes nothing.)
NewLink(t, l, r, e) ==
  /\ CanCall(t)
  /\ l \in Fresh(ThreadIso[t]) /\ ~Live(r)
  /\ Alive(e[1]) /\ Alive(e[2])
  /\ state' = [state EXCEPT ![r] = "IDLE"]
  /\ retcode' = [retcode EXCEPT ![r] = "OK"]
  /\ refcount' = Incref(r)
  /\ msg' = [msg EXCEPT ![r] = Null]
  /\ sender' = [sender EXCEPT ![r] = e[1]]
  /\ receiver' = [receiver EXCEPT ![r] = e[2]]
  /\ unacked' = [unacked EXCEPT ![r] = Nothing]
  /\ ptr' = [ptr EXCEPT ![l] = r]
  /\ UNCHANGED <<portalVars, callVars, waiting, vmVars>>

\* rp_decref would find the count at zero and the message reference m set.
StaleOnDecref(r, m) == refcount[r] = 1 /\ m # Null

\* The message reference close() leaves behind: "we're the sender, make sure to
\* clean out our message".
KeptOnClose(r, i) == msg[r]   \* faulty
LeftOnClose(r, i) == IF sender[r] = i THEN Null ELSE msg[r]

\* Faulty: a closed link that others still refer to keeps its state.
CloseLinkKeepsState(l, i) ==
  /\ msg' = [msg EXCEPT ![ptr[l]] = LeftOnClose(ptr[l], i)]
  /\ waiting' = Signalled(ptr[l])
  /\ ptr' = [ptr EXCEPT ![l] = Null]
  /\ refcount' = Decref(ptr[l])
  /\ UNCHANGED <<state, retcode, sender, receiver, unacked, portalVars,
                 callVars, vmVars>>

\* close() of Link object l while JVM_CurrentIsolateID() is i.
CloseLink(l, i) ==
  LET r == ptr[l]
      m == LeftOnClose(r, i)
  IN \/ StaleOnDecref(r, m) /\ Crash("staleRefid")
     \/ /\ ~StaleOnDecref(r, m)
        /\ msg' = [msg EXCEPT ![r] = m]
        /\ state' = [state EXCEPT ![r] = "CLOSED"]
        /\ waiting' = Signalled(r)
        /\ ptr' = [ptr EXCEPT ![l] = Null]
        /\ refcount' = Decref(r)
        /\ UNCHANGED <<retcode, sender, receiver, unacked, portalVars,
                       callVars, vmVars>>

Close(t, l) ==
  /\ CanCall(t) /\ LinkIso[l] = ThreadIso[t] /\ ptr[l] # Null
  /\ CloseLink(l, ThreadIso[t])

\* finalize() is close() in the context of the object's own isolate.  It runs
\* for every Link of a task whose last thread ended (finalize_task), and, after
\* any collection, for a Link nobody refers to: also in the middle of copy().
Finalize(l) ==
  /\ fault = "none" /\ ptr[l] # Null
  /\ \/ busy = LinkIso[l]
     \/ busy \notin Isolates /\ l \in Droppable /\ ~InUse(l)
  /\ CloseLink(l, LinkIso[l])

-----------------------------------------------------------------------------
(* receive0 and send0: the cases of their switch statements                *)

\* Both start with the same two checks.
CallOnClosed(t, what) ==
  /\ Runs(t, what) /\ ptr[lnk[t]] = Null
  /\ Return(t, ClosedResult(t))
  /\ UNCHANGED <<rpVars, ptr, portalVars, waiting, vmVars>>

CallFromWrongIsolate(t, what, end) ==
  /\ Runs(t, what) /\ ptr[lnk[t]] # Null
  /\ end[ptr[lnk[t]]] # ThreadIso[t]
  /\ Return(t, "IllegalArgumentException")
  /\ UNCHANGED <<rpVars, ptr, portalVars, waiting, vmVars>>

Receives(t, r) == Runs(t, "receive") /\ ptr[lnk[t]] = r
                  /\ receiver[r] = ThreadIso[t]
Sends(t, r) == Runs(t, "send") /\ ptr[lnk[t]] = r /\ sender[r] = ThreadIso[t]

\* Nobody has arrived yet.
IdleOrClosed(r) == state[r] \in {"IDLE", "CLOSED"}   \* faulty
Idle(r) == state[r] = "IDLE"

\* The finished transfer is the one of t's own message.
AnyMessage(t, r) == TRUE   \* faulty
OwnMessage(t, r) == msg[r] = arg[t]

ReceiveFirst(t, r) ==
  /\ Receives(t, r) /\ Idle(r)
  /\ state' = [state EXCEPT ![r] = "RECEIVING"]
  /\ Wait(t, r)
  /\ UNCHANGED <<retcode, refcount, msg, sender, receiver, unacked, ptr,
                 portalVars, vmVars>>

ReceiveAgain(t, r) ==
  /\ Receives(t, r) /\ state[r] \in {"RECEIVING", "DONE"}
  /\ Wait(t, r)
  /\ UNCHANGED <<rpVars, ptr, portalVars, vmVars>>

\* A byte array or string: copy() allocates, so the collector may run.
BeginCopy(t, r) ==
  /\ Receives(t, r) /\ state[r] \in {"SENDING", "RENDEZVOUS"}
  /\ msg[r] \in Data
  /\ busy' = t
  /\ arg' = [arg EXCEPT ![t] = msg[r]]
  /\ UNCHANGED <<rpVars, ptr, portalVars, op, lnk, len, reentry, outcome,
                 waiting, dying, fault>>

\* The receiver is done with the transfer of m: ok says how copy() went.
Transferred(t, r, m, ok) ==
  /\ retcode' = [retcode EXCEPT ![r] = IF ok THEN "OK" ELSE "ERROR"]
  /\ unacked' = IF ok THEN [unacked EXCEPT ![r][m] = @ + 1] ELSE unacked
  /\ state' = [state EXCEPT ![r] = "DONE"]
  /\ waiting' = Signalled(r)
  /\ Return(t, IF ok THEN "ok" ELSE "IOException")

EndCopy(t, r, ok) ==
  /\ busy = t /\ fault = "none" /\ ptr[lnk[t]] = r
  /\ Transferred(t, r, arg[t], ok)
  /\ busy' = Null
  /\ UNCHANGED <<refcount, msg, sender, receiver, ptr, portalVars, dying,
                 fault>>

\* Faulty: the receiver's Link is not counted.
ReceiveLinkUncounted(t, r, l) ==
  /\ Receives(t, r) /\ state[r] \in {"SENDING", "RENDEZVOUS"}
  /\ msg[r] \in Sendable /\ ptr[msg[r]] # Null /\ l \in Fresh(ThreadIso[t])
  /\ ptr' = [ptr EXCEPT ![l] = ptr[msg[r]]]
  /\ Transferred(t, r, msg[r], TRUE)
  /\ UNCHANGED <<refcount, msg, sender, receiver, portalVars, vmVars>>

\* The message is a Link: its rendezvous is stored into the receiver's empty
\* Link object l, whatever getNativePointer() returned.
ReceiveLink(t, r, l) ==
  /\ Receives(t, r) /\ state[r] \in {"SENDING", "RENDEZVOUS"}
  /\ msg[r] \in Sendable
  /\ l \in Fresh(ThreadIso[t])
  /\ LET q == ptr[msg[r]]
     IN \/ q = Null /\ Crash("nullRendezvous")
        \/ /\ q # Null
           /\ ptr' = [ptr EXCEPT ![l] = q]
           /\ refcount' = Incref(q)
           /\ Transferred(t, r, msg[r], TRUE)
           /\ UNCHANGED <<msg, sender, receiver, portalVars, vmVars>>

ReceiveOnClosed(t, r) ==
  /\ Receives(t, r) /\ state[r] = "CLOSED"
  /\ \/ StaleOnDecref(r, msg[r]) /\ Crash("staleRefid")
     \/ /\ ~StaleOnDecref(r, msg[r])
        /\ ptr' = [ptr EXCEPT ![lnk[t]] = Null]
        /\ refcount' = Decref(r)
        /\ Return(t, ClosedResult(t))
        /\ UNCHANGED <<state, retcode, msg, sender, receiver, unacked,
                       portalVars, waiting, vmVars>>

SendFirst(t, r) ==
  /\ Sends(t, r) /\ Idle(r)
  /\ msg' = [msg EXCEPT ![r] = arg[t]]
  /\ state' = [state EXCEPT ![r] = "SENDING"]
  /\ Wait(t, r)
  /\ UNCHANGED <<retcode, refcount, sender, receiver, unacked, ptr,
                 portalVars, vmVars>>

SendToReceiver(t, r) ==
  /\ Sends(t, r) /\ state[r] = "RECEIVING"
  /\ msg' = [msg EXCEPT ![r] = arg[t]]
  /\ state' = [state EXCEPT ![r] = "RENDEZVOUS"]
  /\ SignalAndWait(t, r)
  /\ UNCHANGED <<retcode, refcount, sender, receiver, unacked, ptr,
                 portalVars, vmVars>>

\* Another message is on its way, or the receiver is not done with ours.
SendAgain(t, r) ==
  /\ Sends(t, r)
  /\ \/ state[r] \in {"SENDING", "RENDEZVOUS"}
     \/ state[r] = "DONE" /\ ~OwnMessage(t, r)
  /\ Wait(t, r)
  /\ UNCHANGED <<rpVars, ptr, portalVars, vmVars>>

SendDone(t, r) ==
  /\ Sends(t, r) /\ state[r] = "DONE" /\ OwnMessage(t, r)
  /\ msg' = [msg EXCEPT ![r] = Null]
  /\ state' = [state EXCEPT ![r] = "IDLE"]
  /\ unacked' = IF retcode[r] = "OK"
                THEN [unacked EXCEPT ![r][arg[t]] = @ - 1] ELSE unacked
  /\ waiting' = Signalled(r)
  /\ Return(t, IF retcode[r] = "OK" THEN "ok" ELSE "IOException")
  /\ UNCHANGED <<retcode, refcount, sender, receiver, ptr, portalVars, vmVars>>

SendOnClosed(t, r) ==
  /\ Sends(t, r) /\ state[r] = "CLOSED"
  /\ ptr' = [ptr EXCEPT ![lnk[t]] = Null]
  /\ msg' = [msg EXCEPT ![r] = Null]
  /\ refcount' = Decref(r)
  /\ Return(t, ClosedResult(t))
  /\ UNCHANGED <<state, retcode, sender, receiver, unacked, portalVars,
                 waiting, vmVars>>

Receive0(t) ==
  \/ CallOnClosed(t, "receive")
  \/ CallFromWrongIsolate(t, "receive", receiver)
  \/ \E r \in RPs : \/ ReceiveFirst(t, r) \/ ReceiveAgain(t, r)
                    \/ BeginCopy(t, r) \/ ReceiveOnClosed(t, r)
                    \/ \E ok \in BOOLEAN : EndCopy(t, r, ok)
                    \/ \E l \in LinkObjs : ReceiveLink(t, r, l)

Send0(t) ==
  \/ CallOnClosed(t, "send")
  \/ CallFromWrongIsolate(t, "send", sender)
  \/ \E r \in RPs : \/ SendFirst(t, r) \/ SendToReceiver(t, r)
                    \/ SendAgain(t, r) \/ SendDone(t, r) \/ SendOnClosed(t, r)

-----------------------------------------------------------------------------
(* LinkPortal                                                              *)

\* The counts after portal_free(i) and fresh[r] new references to each r.
Repointed(i, fresh) ==
  [r \in RPs |-> refcount[r] - Cardinality(PortalHolders(i, r)) + fresh[r]]

StaleOnFree(i, fresh) ==
  \E r \in RPs : Live(r) /\ msg[r] # Null /\ Repointed(i, fresh)[r] = 0

\* setLinks(i, la); la is a function on 1..n, and isNull tells a null array
\* from an empty one.
SetLinks(t, i, n, la, isNull) ==
  LET allOpen == \A k \in 1..n : ptr[la[k]] # Null
                                 /\ state[ptr[la[k]]] # "CLOSED"
      added == [r \in RPs |-> Cardinality({k \in 1..n : ptr[la[k]] = r})]
  IN /\ CanCall(t) /\ Alive(i)
     /\ \A k \in 1..n : LinkIso[la[k]] = ThreadIso[t]
     /\ isNull => n = 0
     /\ \/ /\ ~allOpen
           /\ outcome' = [outcome EXCEPT ![t] = "IllegalArgumentException"]
           /\ UNCHANGED <<rpVars, ptr, portalVars, op, lnk, arg, len, reentry,
                          waiting, vmVars>>
        \/ allOpen /\ StaleOnFree(i, added) /\ Crash("staleRefid")
        \/ /\ allOpen /\ ~StaleOnFree(i, added)
           /\ refcount' = Repointed(i, added)
           /\ slot' = [x \in Slots |->
                         IF x[1] # i THEN slot[x]
                         ELSE IF x[2] <= n THEN ptr[la[x[2]]] ELSE Null]
           /\ count' = [count EXCEPT ![i] = IF isNull THEN -1 ELSE n]
           /\ waiting' = Signalled(i)
           /\ outcome' = [outcome EXCEPT ![t] = "ok"]
           /\ UNCHANGED <<state, retcode, msg, sender, receiver, unacked, ptr,
                          op, lnk, arg, len, reentry, vmVars>>

\* LinkPortal.getLinks() is a synchronized static method.
StartGetLinks(t) ==
  /\ \A u \in Threads : ThreadIso[u] = ThreadIso[t]
                        => op[u] \notin {"getLinkCount", "getLinks"}
  /\ Begin(t, "getLinkCount", Null, Null)

GetLinkCount(t) ==
  LET i == ThreadIso[t]
  IN /\ Runs(t, "getLinkCount")
     /\ \/ /\ count[i] = -1
           /\ Wait(t, i)
        \/ /\ count[i] # -1
           /\ op' = [op EXCEPT ![t] = "getLinks"]
           /\ len' = [len EXCEPT ![t] = count[i]]
           /\ reentry' = [reentry EXCEPT ![t] = FALSE]
           /\ UNCHANGED <<lnk, arg, outcome, waiting>>
     /\ UNCHANGED <<rpVars, ptr, portalVars, vmVars>>

\* getLinks0 fills the array la of len[t] empty Links from whatever the portal
\* holds by now, then frees the portal.
GetLinks(t, la) ==
  LET i == ThreadIso[t]
      n == IF count[i] > 0 THEN len[t] ELSE 0
      taken == [r \in RPs |->
                  Cardinality({k \in 1..n : slot[<<i, k>>] = r})]
  IN /\ Runs(t, "getLinks")
     /\ \A k \in 1..len[t] : la[k] \in Fresh(i)
     /\ \A j, k \in 1..len[t] : la[j] = la[k] => j = k
     /\ \/ n > count[i] /\ n > 0 /\ Crash("outOfBounds")
        \/ ~(n > count[i] /\ n > 0) /\ StaleOnFree(i, taken)
           /\ Crash("staleRefid")
        \/ /\ ~(n > count[i] /\ n > 0) /\ ~StaleOnFree(i, taken)
           /\ refcount' = Repointed(i, taken)
           /\ ptr' = [l \in LinkObjs |->
                        IF \E k \in 1..n : la[k] = l
                        THEN slot[<<i, CHOOSE k \in 1..n : la[k] = l>>]
                        ELSE ptr[l]]
           /\ slot' = [x \in Slots |-> IF x[1] = i THEN Null ELSE slot[x]]
           /\ count' = [count EXCEPT ![i] = -1]
           /\ Return(t, "ok")
           /\ UNCHANGED <<state, retcode, msg, sender, receiver, unacked,
                          waiting, vmVars>>

\* midp_links_shutdown, once no Java thread is left.
Shutdown(i) ==
  LET none == [r \in RPs |-> 0]
  IN /\ Quiet /\ \A t \in Threads : op[t] = "dead"
     /\ count[i] # -1
     /\ \/ StaleOnFree(i, none) /\ Crash("staleRefid")
        \/ /\ ~StaleOnFree(i, none)
           /\ refcount' = Repointed(i, none)
           /\ slot' = [x \in Slots |-> IF x[1] = i THEN Null ELSE slot[x]]
           /\ count' = [count EXCEPT ![i] = -1]
           /\ UNCHANGED <<state, retcode, msg, sender, receiver, unacked, ptr,
                          callVars, waiting, vmVars>>

-----------------------------------------------------------------------------
(* Isolate termination                                                     *)

StopIsolate(i) ==
  /\ Quiet /\ i \notin dying
  /\ dying' = dying \cup {i}
  /\ UNCHANGED <<rpVars, ptr, portalVars, callVars, waiting, busy, fault>>

\* A thread of a stopping isolate ends; it leaves the native it was blocked
\* in without running it again.  With the last one goes finalize_task.
EndThread(t) ==
  /\ Quiet /\ ThreadIso[t] \in dying /\ op[t] # "dead"
  /\ op' = [op EXCEPT ![t] = "dead"]
  /\ lnk' = [lnk EXCEPT ![t] = Null]
  /\ arg' = [arg EXCEPT ![t] = Null]
  /\ len' = [len EXCEPT ![t] = 0]
  /\ reentry' = [reentry EXCEPT ![t] = FALSE]
  /\ outcome' = [outcome EXCEPT ![t] = "none"]
  /\ waiting' = [waiting EXCEPT ![t] = Null]
  /\ busy' = IF \A u \in Threads \ {t} :
                  ThreadIso[u] = ThreadIso[t] => op[u] = "dead"
             THEN ThreadIso[t] ELSE Null
  /\ UNCHANGED <<rpVars, ptr, portalVars, dying, fault>>

\* finalize_task has closed every Link of the isolate.
TaskFinalized(i) ==
  /\ busy = i /\ fault = "none"
  /\ \A l \in LinkObjs : LinkIso[l] = i => ptr[l] = Null
  /\ busy' = Null
  /\ UNCHANGED <<rpVars, ptr, portalVars, callVars, waiting, dying, fault>>

-----------------------------------------------------------------------------
ThreadStep(t) ==
  \/ Receive0(t) \/ Send0(t) \/ GetLinkCount(t)
  \/ \E la \in [1..len[t] -> LinkObjs] : GetLinks(t, la)

Calls(t) ==
  \/ \E l \in LinkObjs : \/ StartReceive(t, l) \/ Close(t, l)
                         \/ \E m \in Messages : StartSend(t, l, m)
                         \/ \E r \in RPs, e \in Endpoints : NewLink(t, l, r, e)
  \/ ThreadIso[t] \in PortalTargets /\ StartGetLinks(t)
  \/ \E i \in PortalTargets, n \in 0..MaxPortal :
       \E la \in [1..n -> LinkObjs], isNull \in BOOLEAN :
         SetLinks(t, i, n, la, isNull)

Next ==
  \/ \E t \in Threads : Calls(t) \/ ThreadStep(t) \/ EndThread(t)
  \/ \E l \in LinkObjs : Finalize(l)
  \/ \E i \in MayStop : StopIsolate(i)
  \/ \E i \in Isolates : TaskFinalized(i) \/ Shutdown(i)

Spec == Init /\ [][Next]_vars

\* The VM's scheduler runs every runnable thread: a signalled or new call is
\* eventually executed.  Nothing obliges the program to make another call, so
\* Calls and StopIsolate have no fairness.
Fairness ==
  /\ \A t \in Threads : WF_vars(ThreadStep(t)) /\ WF_vars(EndThread(t))
  /\ WF_vars(\E l \in LinkObjs : busy = LinkIso[l] /\ Finalize(l))
  /\ WF_vars(\E i \in Isolates : TaskFinalized(i))

FairSpec == Spec /\ Fairness

-----------------------------------------------------------------------------
(* Properties                                                              *)

\* The values the variables range over, reference counts apart.
RendezvousTypes ==
  /\ state \in [RPs -> States]
  /\ retcode \in [RPs -> {"OK", "ERROR"}]
  /\ msg \in [RPs -> Messages \cup {Null}]
  /\ sender \in [RPs -> Isolates \cup {Null}]
  /\ receiver \in [RPs -> Isolates \cup {Null}]
  /\ unacked \in [RPs -> [Messages -> Int]]
PointerTypes ==
  /\ ptr \in [LinkObjs -> RPs \cup {Null}]
  /\ count \in [Isolates -> -1..MaxPortal]
  /\ slot \in [Slots -> RPs \cup {Null}]
CallTypes ==
  /\ op \in [Threads -> Ops]
  /\ lnk \in [Threads -> LinkObjs \cup {Null}]
  /\ arg \in [Threads -> Messages \cup {Null}]
  /\ len \in [Threads -> 0..MaxPortal]
  /\ reentry \in [Threads -> BOOLEAN]
  /\ outcome \in [Threads -> Outcomes]
  /\ waiting \in [Threads -> RPs \cup Isolates \cup {Null}]
VMTypes ==
  /\ busy \in Threads \cup Isolates \cup {Null}
  /\ dying \in SUBSET Isolates
  /\ fault \in Faults

\* A thread inside send0 or receive0 runs it on a Link object, a sender has a
\* message, and so has the thread in the middle of copy().
CallShape ==
  /\ \A t \in Threads : /\ op[t] \in {"send", "receive"} => lnk[t] # Null
                        /\ op[t] = "send" => arg[t] # Null
  /\ busy \in Threads => op[busy] = "receive" /\ arg[busy] # Null

\* The type invariant; that a reference count never goes below zero is part
\* of it.
TypeOK ==
  /\ refcount \in [RPs -> Nat]
  /\ RendezvousTypes /\ PointerTypes /\ CallTypes /\ VMTypes /\ CallShape

\* rendezvous.refcount is "num Java objs pointing to this struct" (plus portal
\* entries) at every moment: no rendezvous is freed while something still
\* points to it (use after free) and none is leaked when the last one lets go.
RefcountExact ==
  \A r \in RPs : refcount[r] = Cardinality(LinkHolders(r))
                               + Cardinality(SlotHolders(r))

\* What the native would do if thread t ran it now: anything but wait again.
CanProceed(t) ==
  LET r == ptr[lnk[t]]
  IN CASE op[t] = "receive" ->
            r = Null \/ state[r] \in {"IDLE", "SENDING", "RENDEZVOUS", "CLOSED"}
       [] op[t] = "send" ->
            \/ r = Null \/ state[r] \in {"IDLE", "RECEIVING", "CLOSED"}
            \/ state[r] = "DONE" /\ msg[r] = arg[t]
       [] op[t] = "getLinkCount" -> count[ThreadIso[t]] # -1
       [] OTHER -> TRUE

\* No lost wakeup: a thread blocked in send0, receive0 or getLinkCount0 would
\* block again if it ran; every change that lets it go on signals it.
NoLostWakeup == \A t \in Threads : waiting[t] # Null => ~CanProceed(t)

\* Sender and receiver agree on what was transferred: a message copied out by
\* receive0 is owed exactly one successful send0 of that message, nothing else
\* is copied until that send0 (or the end of the link), and no send0 reports
\* success for a message that was not copied.
SendReceiptAgreement ==
  \A r \in RPs :
    Live(r) =>
      CASE state[r] = "DONE" /\ retcode[r] = "OK" ->
             \E m \in Messages : unacked[r] = Just(m) /\ msg[r] \in {m, Null}
        [] state[r] = "CLOSED" ->
             unacked[r] \in {Nothing} \cup {Just(m) : m \in Messages}
        [] OTHER -> unacked[r] = Nothing

\* A message reference left in a rendezvous has someone to delete it: a Link
\* of the sending isolate still points there, so rp_decref cannot be the one
\* to find "refcount 0 with stale refid".
StrandedMessageHasCleaner ==
  \A r \in RPs : Live(r) /\ msg[r] # Null =>
    \E l \in LinkHolders(r) : LinkIso[l] = sender[r]

\* A handshake in progress belongs to a thread that will finish it: one whose
\* message is in the rendezvous (or which announced it is receiving), unless
\* that thread's isolate is being stopped.  A finished copy has no owner if its
\* message is gone: a finalizer closed the link from the sender's side in the
\* middle of copy().
HandshakeHasOwner ==
  \A r \in RPs : Live(r) =>
    /\ \/ state[r] \in {"SENDING", "RENDEZVOUS"}
       \/ state[r] = "DONE" /\ msg[r] # Null
       => \/ sender[r] \in dying
          \/ \E t \in Threads : /\ op[t] = "send" /\ arg[t] = msg[r]
                                /\ ptr[lnk[t]] = r /\ ThreadIso[t] = sender[r]
    /\ state[r] = "RECEIVING" =>
         \/ receiver[r] \in dying
         \/ \E t \in Threads : op[t] = "receive" /\ ptr[lnk[t]] = r

\* CLOSED means "no further operations permitted", but receive0 assigns DONE
\* after copy() whatever a finalizer has done meanwhile.  Only this reopens a
\* link, and only one whose sender is still inside send0 with the message just
\* copied (or is being stopped): what either side closed stays closed.
ClosedUnlessCopied ==
  [][\A r \in RPs :
       Live(r) /\ state[r] = "CLOSED" /\ Live(r)' /\ state'[r] # "CLOSED"
       => /\ busy \in Threads /\ ptr[lnk[busy]] = r /\ state'[r] = "DONE"
          /\ \/ sender[r] \in dying
             \/ \E s \in Threads : /\ op[s] = "send" /\ arg[s] = arg[busy]
                                   /\ ptr[lnk[s]] = r]_vars

\* rp_decref's check, "refcount 0 with stale refid!", never fires.
NoStaleRefid == fault # "staleRefid"

\* "The close() call will move the state to CLOSED and awaken any waiters":
\* a call on a closed link eventually ends.
ClosedReleases ==
  \A t \in Threads, r \in RPs :
    (op[t] \in {"send", "receive"} /\ ptr[lnk[t]] = r /\ state[r] = "CLOSED")
      ~> (op[t] \in {"idle", "dead"} \/ fault # "none")

\* A sender and a receiver that have both arrived are not left waiting for each
\* other: the link transfers a message or is closed.
Rendezvous ==
  \A r \in RPs :
    (/\ \E s \in Threads : /\ op[s] = "send" /\ ptr[lnk[s]] = r
                           /\ sender[r] = ThreadIso[s]
     /\ \E v \in Threads : /\ op[v] = "receive" /\ ptr[lnk[v]] = r
                           /\ receiver[r] = ThreadIso[v])
      ~> (state[r] \in {"DONE", "CLOSED"} \/ ~Live(r) \/ fault # "none")
=============================================================================
