---------------------------- MODULE SuspendResume ----------------------------
(***************************************************************************)
(* Suspending and resuming the MIDP system: the native state               *)
(* (suspend_resume.c), the MIDP system and its timer in the AMS isolate    *)
(* (AbstractSubsystem, SuspendSystem, SuspendTimer), the list of MIDlet    *)
(* proxies with the foreground (MIDletProxyList, MVMDisplayController) and *)
(* the life cycle of the MIDlets in their isolates (MIDletStateHandler,    *)
(* MIDletPeer).                                                            *)
(*                                                                         *)
(* Three threads of the AMS isolate share the monitors of the system:      *)
(* "E" dispatches events, "T" is the suspend timer's, "M" runs the life    *)
(* cycle of the application manager, itself a MIDlet.  code[t] holds the   *)
(* statements thread t still has to execute, calls inlined; a statement is *)
(* atomic, and a thread holds the monitors it still has to leave.          *)
(*                                                                         *)
(* Left out: alerts, platform notifications, preempting displays, and      *)
(* destroy requests of the user with their timer.                          *)
(***************************************************************************)
EXTENDS Naturals, Sequences, FiniteSets, SequencesExt

CONSTANTS Midlets,     \* all MIDlets
          AppManager,  \* the MIDlet of the AMS isolate, which is never killed
          None,
          MaxInputs    \* bound: calls of midp_suspend in the active system and
                       \* of midp_resume in the suspending one, and what MIDlets
                       \* and the user do on their own, taken together

ASSUME Cast == /\ IsFiniteSet(Midlets)
               /\ AppManager \in Midlets /\ None \notin Midlets
               /\ MaxInputs \in Nat

VARIABLES
  sr,       \* sr_state
  amsq,     \* the event queue of the AMS isolate
  state,    \* MIDPSystem.state
  deps,     \* MIDPSystem.dependencies
  task,     \* SuspendTimer.task: "none", "armed", or "run" once it has begun
  lastForeground,
  list,     \* midletProxies
  pstate,   \* MIDletProxy.midletState
  fresh,    \* the MIDlets whose proxy has wasNotActive set
  fg,       \* foregroundMidlet
  lastCreated, \* DisplayController.lastMidletCreated
  code,     \* what each thread of the AMS still has to do
  peer,     \* MIDletPeer.state, "none" when the MIDlet has no isolate
  work,     \* the call the MIDlet's state handler is in
  inbox,    \* the event queue of each MIDlet's own isolate
  shown,    \* MIDlets that have asked for the foreground (wantsForeground)
  spent     \* how many of the inputs there have been

system == <<state, deps, task, lastForeground>>
proxies == <<list, pstate, fresh, fg, lastCreated>>
apps == <<peer, work, inbox, shown>>
vars == <<sr, amsq, system, proxies, code, apps, spent>>

AMSThreads == {"E", "T", "M"}
Event(e, m) == [type |-> e, of |-> m]
Alive(m) == peer[m] # "none"
User(m) == m # AppManager
\* Faulty: an isolate that has ended is still found.
HasIsolateBefore(m) == User(m)
(* getIsolateFromId: the AMS isolate is not found by its id.               *)
HasIsolate(m) == User(m) /\ Alive(m)

-----------------------------------------------------------------------------
(* Statements and monitors.                                                *)

Do(statement, x) == [do |-> statement, of |-> x]
Enter(monitor) == Do("enter", monitor)
Exit(monitor) == Do("exit", monitor)
Times(t, what, monitor) ==
  Cardinality({i \in DOMAIN code[t] : code[t][i].do = what /\ code[t][i].of = monitor})
Holds(t, monitor) == Times(t, "exit", monitor) > Times(t, "enter", monitor)
Free(t, monitor) == \A u \in AMSThreads \ {t} : ~Holds(u, monitor)

(* A thread leaves the monitors whose bodies are done without a step.      *)
LeaveMonitors(s) ==
  LET busy == {i \in DOMAIN s : s[i].do # "exit"}
  IN  IF busy = {} THEN <<>>
      ELSE SubSeq(s, CHOOSE i \in busy : \A j \in busy : i <= j, Len(s))

Runs(t, statement, x) ==
  code[t] # <<>> /\ Head(code[t]).do = statement /\ Head(code[t]).of = x
(* The statement is done; what it calls comes before what follows it.      *)
Then(t, calls) == code' = [code EXCEPT ![t] = LeaveMonitors(calls \o Tail(@))]

EnterMonitor(t, monitor) ==
  /\ Runs(t, "enter", monitor) /\ Free(t, monitor)
  /\ Then(t, <<>>)
  /\ UNCHANGED <<sr, amsq, system, proxies, apps, spent>>

-----------------------------------------------------------------------------
(* Events for MIDlets.  The AMS isolate has one queue, for the application *)
(* manager's life cycle too; what is sent to a dead isolate is lost.       *)

SendEach(e, ms, q) ==
  /\ inbox' = [m \in Midlets |-> IF m \in ms /\ HasIsolate(m)
                                 THEN Append(inbox[m], e) ELSE inbox[m]]
  /\ amsq' = IF AppManager \in ms THEN Append(q, Event(e, AppManager)) ELSE q

(* MIDletProxy.activateMidlet for the MIDlets ms.                          *)
ActivateMidlets(ms, q) ==
  LET live == {m \in ms : pstate[m] # "DESTROYED"}
  IN  fresh' = fresh \ live /\ SendEach("activate", live, q)

(* setForegroundMIDlet: a paused MIDlet that gets the foreground is        *)
(* activated (foregroundMidletChanging).                                   *)
SetForegroundMIDlet(new, q) ==
  IF new = fg \/ pstate[new] = "DESTROYED"
  THEN UNCHANGED <<fg, fresh, inbox>> /\ amsq' = q
  ELSE fg' = new /\ ActivateMidlets({m \in {new} : pstate[m] = "PAUSED"}, q)

(* clearLastMidletCreated, for a MIDlet that got the foreground or is gone.*)
ClearLastCreated(ms) == lastCreated' = IF lastCreated \in ms THEN None ELSE lastCreated

(* MVMDisplayController.backgroundRequest: the application manager takes   *)
(* over from a foreground MIDlet that is paused or destroyed.              *)
BackgroundRequest(m) == IF m = fg THEN AppManager ELSE fg

-----------------------------------------------------------------------------
(* The MIDP system.                                                        *)

RemoveSuspendDependency(m) == <<Do("drop", m)>>
\* Faulty: the MIDP system is not told of removed proxies.
MidletRemovedSilently(m) == <<>>
MidletRemoved(m) == <<Enter("this"), Do("removed", m), Exit("this")>>
RemoveMidletProxy(m) == <<Do("remove", m)>> \o MidletRemoved(m)
Suspend == <<Do("start", None)>>
Resume == <<Enter("lock"), Do("resume", None), Exit("lock")>>


(* updateSuspendStatus, called with the system's lock: once there are no   *)
(* dependencies left the suspension is completed before lock is released.  *)
UpdateSuspendStatus(s, ds) ==
  IF s = "SUSPENDING" /\ ds = {}
  THEN <<Do("suspendImpl", None), Do("suspended0", None), Exit("lock")>> ELSE <<>>

(* removeSuspendDependency, and the rest of midletRemoved.                 *)
DropDependency(t, m) ==
  /\ Runs(t, "drop", m) \/ Runs(t, "removed", m)
  /\ Free(t, "lock")
  /\ deps' = deps \ {m}
  /\ lastForeground' = IF Runs(t, "removed", m) /\ lastForeground = m
                       THEN None ELSE lastForeground
  /\ Then(t, UpdateSuspendStatus(state, deps'))
  /\ UNCHANGED <<sr, amsq, state, task, proxies, apps, spent>>

\* Faulty: the timer's task is cancelled and kept.
SuspendImplKeepsTask(t) ==
  /\ Runs(t, "suspendImpl", None) /\ Free(t, "this")
  /\ state' = "SUSPENDED"
  /\ Then(t, <<>>)
  /\ UNCHANGED <<task, sr, amsq, deps, lastForeground, proxies, apps, spent>>

(* suspendImpl stops the timer; then the state changes.                    *)
SuspendImpl(t) ==
  /\ Runs(t, "suspendImpl", None) /\ Free(t, "this")
  /\ task' = "none" /\ state' = "SUSPENDED"
  /\ Then(t, <<>>)
  /\ UNCHANGED <<sr, amsq, deps, lastForeground, proxies, apps, spent>>

\* Faulty: a resume request that was put off is forgotten.
Suspended0Forgets(t) ==
  /\ Runs(t, "suspended0", None) /\ Free(t, "midletProxies")
  /\ sr' = IF sr = "SUSPENDING" THEN "SUSPENDED" ELSE sr
  /\ Then(t, <<>>)
  /\ UNCHANGED <<amsq, system, proxies, apps, spent>>
(* suspended: the proxy list is told (notifyIfAllPaused), then the native  *)
(* side, which resumes at once if that was asked for meanwhile.            *)
Suspended0(t) ==
  /\ Runs(t, "suspended0", None) /\ Free(t, "midletProxies")
  /\ IF sr = "SUSPENDING" THEN sr' = "SUSPENDED" /\ UNCHANGED amsq
     ELSE sr' = "ACTIVE" /\ amsq' = Append(amsq, Event("ACTIVATE_ALL", None))
  /\ Then(t, <<>>)
  /\ UNCHANGED <<system, proxies, apps, spent>>

(* MIDPSystem.suspend keeps its monitor while it waits for the lock.       *)
StartSuspend(t) ==
  /\ Runs(t, "start", None) /\ Free(t, "this")
  /\ IF state = "ACTIVE"
     THEN /\ task' = IF task = "none" THEN "armed" ELSE task
          /\ lastForeground' = fg
          /\ Then(t, <<Do("suspend", None), Exit("this")>>)
     ELSE Then(t, <<>>) /\ UNCHANGED <<task, lastForeground>>
  /\ UNCHANGED <<sr, amsq, state, deps, proxies, apps, spent>>

(* AbstractSubsystem.suspend.                                              *)
SuspendSystem(t) ==
  /\ Runs(t, "suspend", None) /\ Free(t, "lock")
  /\ IF state = "ACTIVE"
     THEN state' = "SUSPENDING" /\ Then(t, UpdateSuspendStatus(state', deps))
     ELSE UNCHANGED state /\ Then(t, <<>>)
  /\ UNCHANGED <<sr, amsq, deps, task, lastForeground, proxies, apps, spent>>

(* resume: the foreground of the time of the suspension is restored.       *)
ResumeSystem(t) ==
  /\ Runs(t, "resume", None)
  /\ IF state = "SUSPENDED"
     THEN /\ Free(t, "this")
          /\ state' = "ACTIVE" /\ lastForeground' = None
          /\ IF lastForeground = None THEN UNCHANGED <<fg, fresh, inbox, amsq>>
             ELSE SetForegroundMIDlet(lastForeground, amsq)
          /\ ClearLastCreated({fg'})
     ELSE UNCHANGED <<state, lastForeground, fg, lastCreated, fresh, inbox, amsq>>
  /\ Then(t, <<>>)
  /\ UNCHANGED <<sr, deps, task, list, pstate, peer, work, shown, spent>>

-----------------------------------------------------------------------------
(* The list of MIDlet proxies.                                             *)

Each(statement) ==
  [i \in DOMAIN list |-> Do(statement, list[Len(list) + 1 - i])]

(* The isolates of the MIDlets ms are gone, with all they were doing.      *)
EndIsolates(ms) ==
  /\ peer' = [m \in Midlets |-> IF m \in ms THEN "none" ELSE peer[m]]
  /\ work' = [m \in Midlets |-> IF m \in ms THEN "idle" ELSE work[m]]
  /\ shown' = shown \ ms

(* removeMidletProxy, up to the notification of the MIDP system.           *)
RemoveProxy(t, m) ==
  /\ Runs(t, "remove", m) /\ Free(t, "midletProxies")
  /\ list' = RemoveFirst(list, m)
  /\ SetForegroundMIDlet(BackgroundRequest(m), amsq)
  /\ ClearLastCreated({m, fg'})
  /\ Then(t, <<>>)
  /\ UNCHANGED <<sr, system, pstate, peer, work, shown, spent>>

(* terminateMIDletIsolate; the AMS isolate is not found by its id, and     *)
(* neither is an isolate that has ended.  The timer spares paused MIDlets  *)
(* (terminateNotPausedMidlet).                                             *)
TerminateMIDletIsolate(t, m) ==
  /\ Runs(t, "terminate", m) \/ Runs(t, "terminateNotPaused", m)
  /\ IF HasIsolate(m) /\ (Runs(t, "terminate", m) \/ pstate[m] \notin {"PAUSED", "DESTROYED"})
     THEN /\ EndIsolates({m}) /\ inbox' = [inbox EXCEPT ![m] = <<>>]
          /\ Then(t, IF Contains(list, m) THEN RemoveMidletProxy(m) ELSE <<>>)
     ELSE Then(t, <<>>) /\ UNCHANGED apps
  /\ UNCHANGED <<sr, amsq, system, proxies, spent>>

(* One round of the loop of handlePauseAllEvent.                           *)
PauseMidlet(m) ==
  /\ Runs("E", "pauseMidlet", m)
  /\ IF m \in fresh
     THEN Then("E", <<Do("terminate", m)>>) /\ UNCHANGED <<deps, inbox, amsq>>
     ELSE /\ Free("E", "lock")
          /\ deps' = deps \cup {m}
          /\ SendEach("pause", {x \in {m} : pstate[x] # "DESTROYED"}, amsq)
          /\ Then("E", <<>>)
  /\ UNCHANGED <<sr, state, task, lastForeground, proxies, peer, work, shown, spent>>

\* Faulty: the MIDlet in the foreground is taken to be active.
ActivateOthers ==
  /\ Runs("E", "activateAll", None) /\ Free("E", "midletProxies")
  /\ ActivateMidlets(ToSet(list) \ {fg}, amsq)
  /\ Then("E", <<>>)
  /\ UNCHANGED <<sr, system, list, pstate, fg, lastCreated, peer, work, shown, spent>>

ActivateAll ==
  /\ Runs("E", "activateAll", None) /\ Free("E", "midletProxies")
  /\ ActivateMidlets(ToSet(list), amsq)
  /\ Then("E", <<>>)
  /\ UNCHANGED <<sr, system, list, pstate, fg, lastCreated, peer, work, shown, spent>>

(* The end of handleMIDletCreateNotifyEvent: a MIDlet that was created     *)
(* during a suspension is terminated, any other gets a proxy.              *)
CreateProxy(m) ==
  /\ Runs("E", "create", m) /\ Free("E", "midletProxies")
  /\ IF state \in {"SUSPENDING", "SUSPENDED"}
     THEN /\ EndIsolates({m}) /\ inbox' = [inbox EXCEPT ![m] = <<>>]
          /\ UNCHANGED proxies
     ELSE /\ list' = Append(list, m)
          /\ pstate' = [pstate EXCEPT ![m] = "PAUSED"]
          /\ fresh' = fresh \cup {m} /\ lastCreated' = m
          /\ UNCHANGED <<fg, apps>>
  /\ Then("E", <<>>)
  /\ UNCHANGED <<sr, amsq, system, spent>>

-----------------------------------------------------------------------------
(* Events of the AMS isolate.  Each handler first looks for the proxy.     *)

Gets(e, m) ==
  /\ code["E"] = <<>> /\ amsq # <<>> /\ Head(amsq) = Event(e, m)
  /\ Free("E", "midletProxies")
Finds(e, m) == Gets(e, m) /\ Contains(list, m)
Calls(t, body) == code' = [code EXCEPT ![t] = body]

HandleMIDletCreateNotifyEvent(m) ==
  /\ Gets("CREATE", m)
  /\ amsq' = Tail(amsq)
  /\ Calls("E", (IF Contains(list, m) THEN RemoveMidletProxy(m) ELSE <<>>)
                \o <<Do("create", m)>>)
  /\ UNCHANGED <<sr, system, proxies, apps, spent>>

HandleMIDletActiveNotifyEvent(m) ==
  /\ Finds("ACTIVE", m)
  /\ amsq' = Tail(amsq)
  /\ pstate' = [pstate EXCEPT ![m] = "ACTIVE"]
  /\ UNCHANGED <<sr, system, list, fresh, fg, lastCreated, code, apps, spent>>

HandleMIDletPauseNotifyEvent(m) ==
  /\ Finds("PAUSED", m)
  /\ pstate' = [pstate EXCEPT ![m] = "PAUSED"]
  /\ SetForegroundMIDlet(BackgroundRequest(m), Tail(amsq))
  /\ UNCHANGED <<sr, system, list, lastCreated, code, peer, work, shown, spent>>

HandleMIDletRsPauseNotifyEvent(m) ==
  /\ Finds("RS_PAUSED", m)
  /\ amsq' = Tail(amsq)
  /\ Calls("E", RemoveSuspendDependency(m))
  /\ UNCHANGED <<sr, system, proxies, apps, spent>>

HandleMIDletDestroyNotifyEvent(m) ==
  /\ Finds("DESTROYED", m)
  /\ amsq' = Tail(amsq)
  /\ pstate' = [pstate EXCEPT ![m] = "DESTROYED"]
  /\ Calls("E", RemoveMidletProxy(m))
  /\ UNCHANGED <<sr, system, list, fresh, fg, lastCreated, apps, spent>>

HandleMIDletResumeRequestEvent(m) ==
  /\ Finds("RESUME_REQUEST", m)
  /\ ActivateMidlets({m}, Tail(amsq))
  /\ UNCHANGED <<sr, system, list, pstate, fg, lastCreated, code, peer, work, shown, spent>>

(* Only the MIDlet that was created last gets the foreground it asks for.  *)
HandleDisplayForegroundRequestEvent(m) ==
  /\ Finds("FOREGROUND", m)
  /\ SetForegroundMIDlet(IF m = lastCreated THEN m ELSE fg, Tail(amsq))
  /\ ClearLastCreated({fg'})
  /\ UNCHANGED <<sr, system, list, pstate, code, peer, work, shown, spent>>

HandleFatalErrorNotifyEvent(m) ==
  /\ Gets("FATAL_ERROR", m)
  /\ amsq' = Tail(amsq)
  /\ Calls("E", (IF Contains(list, m) THEN RemoveMidletProxy(m) ELSE <<>>)
                \o <<Do("terminate", m)>>)
  /\ UNCHANGED <<sr, system, proxies, apps, spent>>

(* There is nothing to do for a MIDlet that has no proxy any more.         *)
NoProxyFound(m) ==
  /\ \E e \in {"ACTIVE", "PAUSED", "RS_PAUSED", "DESTROYED", "RESUME_REQUEST", "FOREGROUND"} :
       Gets(e, m) /\ ~Contains(list, m)
  /\ amsq' = Tail(amsq)
  /\ UNCHANGED <<sr, system, proxies, code, apps, spent>>

HandlePauseAllEvent ==
  /\ Gets("PAUSE_ALL", None)
  /\ amsq' = Tail(amsq)
  /\ Calls("E", Each("pauseMidlet") \o <<Exit("midletProxies")>> \o Suspend)
  /\ UNCHANGED <<sr, system, proxies, apps, spent>>

HandleActivateAllEvent ==
  /\ Gets("ACTIVATE_ALL", None)
  /\ amsq' = Tail(amsq)
  /\ Calls("E", Resume \o <<Do("activateAll", None)>>)
  /\ UNCHANGED <<sr, system, proxies, apps, spent>>

-----------------------------------------------------------------------------
(* The native suspend and resume requests, and the suspend timer.  That    *)
(* isResumePending may itself call midp_resume is a request just before it.*)

Act == spent < MaxInputs /\ spent' = spent + 1

MidpSuspend ==
  \/ /\ sr = "ACTIVE" /\ sr' = "SUSPENDING" /\ Act
     /\ amsq' = Append(amsq, Event("PAUSE_ALL", None))
     /\ UNCHANGED <<system, proxies, code, apps>>
  \/ /\ sr = "RESUMING" /\ sr' = "SUSPENDING"
     /\ UNCHANGED <<amsq, system, proxies, code, apps, spent>>

MidpResume ==
  \/ /\ sr = "SUSPENDED" /\ sr' = "ACTIVE"
     /\ amsq' = Append(amsq, Event("ACTIVATE_ALL", None))
     /\ UNCHANGED <<system, proxies, code, apps, spent>>
  \/ /\ sr = "SUSPENDING" /\ sr' = "RESUMING" /\ Act
     /\ UNCHANGED <<amsq, system, proxies, code, apps>>

(* The timer may expire while suspend() itself is still running.           *)
TimerFires ==
  /\ task = "armed" /\ code["T"] = <<>>
  /\ task' = "run"
  /\ Calls("T", <<Do("isResumePending", None)>>)
  /\ UNCHANGED <<sr, amsq, state, deps, lastForeground, proxies, apps, spent>>

IsResumePending ==
  /\ Runs("T", "isResumePending", None)
  /\ Then("T", <<Do(IF sr = "RESUMING" THEN "getMIDlets" ELSE "terminatePauseAll", None)>>)
  /\ UNCHANGED <<sr, amsq, system, proxies, apps, spent>>

(* The dependencies of all MIDlets are removed, one after the other.       *)
RemoveDependencies ==
  /\ Runs("T", "getMIDlets", None) /\ Free("T", "midletProxies")
  /\ Then("T", [i \in DOMAIN list |-> Do("drop", list[i])])
  /\ UNCHANGED <<sr, amsq, system, proxies, apps, spent>>

TerminatePauseAll ==
  /\ Runs("T", "terminatePauseAll", None) /\ Free("T", "midletProxies")
  /\ Then("T", Each("terminateNotPaused") \o <<Exit("midletProxies")>>)
  /\ UNCHANGED <<sr, amsq, system, proxies, apps, spent>>

-----------------------------------------------------------------------------
(* The life cycle of a MIDlet.                                             *)

(* MIDletPeer.setStateWithoutNotify.                                       *)
NewState(old, new) ==
  CASE old = "DESTROYED" -> old
    [] old = "DESTROY_PENDING" /\ new # "DESTROYED" -> old
    [] old = "PAUSED" /\ new = "PAUSE_PENDING" -> old
    [] old = "PAUSE_PENDING" /\ new = "ACTIVE_PENDING" -> "ACTIVE"
    [] old = "ACTIVE" /\ new = "ACTIVE_PENDING" -> old
    [] old = "ACTIVE_PENDING" /\ new = "PAUSE_PENDING" -> "PAUSED"
    [] OTHER -> new
SetState(m, new) == peer' = [peer EXCEPT ![m] = NewState(@, new)]
Pending(e) == IF e = "activate" THEN "ACTIVE_PENDING" ELSE "PAUSE_PENDING"

Notify(events, m) == amsq' = amsq \o [i \in DOMAIN events |-> Event(events[i], m)]
(* The state handler's thread of m is not in a call of the MIDP system.    *)
Ready(m) == Alive(m) /\ (User(m) \/ code["M"] = <<>>)

(* The AMS sends events as soon as there is a proxy.  While the MIDlet's   *)
(* constructor still runs the state handler does not know the MIDlet, and  *)
(* what comes for it is dropped.                                           *)
HandleMIDletEvent(m) ==
  /\ Alive(m) /\ inbox[m] # <<>>
  /\ \/ work[m] # "constructor" /\ SetState(m, Pending(Head(inbox[m])))
     \/ work[m] = "constructor" /\ UNCHANGED peer
  /\ inbox' = [inbox EXCEPT ![m] = Tail(@)]
  /\ UNCHANGED <<sr, amsq, system, proxies, code, work, shown, spent>>

HandleManagerEvent ==
  /\ \E e \in {"activate", "pause"} :
       Gets(e, AppManager) /\ SetState(AppManager, Pending(e))
  /\ amsq' = Tail(amsq)
  /\ UNCHANGED <<sr, system, proxies, code, work, inbox, shown, spent>>

(* One round of the loop of startSuite; before it is activated a MIDlet    *)
(* resumes its isolate's subsystems, in the AMS isolate the MIDP system.   *)
StartSuite(m) ==
  /\ Ready(m) /\ work[m] = "idle"
  /\ \/ /\ peer[m] = "ACTIVE_PENDING" /\ peer' = [peer EXCEPT ![m] = "ACTIVE"]
        /\ work' = [work EXCEPT ![m] = "startApp"]
        /\ IF User(m) THEN UNCHANGED code ELSE Calls("M", Resume)
     \/ /\ peer[m] = "PAUSE_PENDING" /\ peer' = [peer EXCEPT ![m] = "PAUSED"]
        /\ work' = [work EXCEPT ![m] = "pauseApp"] /\ UNCHANGED code
     \/ /\ peer[m] = "DESTROY_PENDING" /\ peer' = [peer EXCEPT ![m] = "DESTROYED"]
        /\ work' = [work EXCEPT ![m] = "destroyApp"] /\ UNCHANGED code
  /\ UNCHANGED <<sr, amsq, system, proxies, inbox, shown, spent>>

Unregister(m) ==
  /\ Ready(m) /\ work[m] = "idle" /\ peer[m] = "DESTROYED"
  /\ EndIsolates({m}) /\ inbox' = [inbox EXCEPT ![m] = <<>>]
  /\ Notify(<<"DESTROYED">>, m)
  /\ UNCHANGED <<sr, system, proxies, code, spent>>

(* createAndRegisterMIDlet: the peer, which is to be started, is registered.*)
ConstructorReturns(m) ==
  /\ Ready(m) /\ work[m] = "constructor"
  /\ work' = [work EXCEPT ![m] = "idle"]
  /\ UNCHANGED <<sr, amsq, system, proxies, code, peer, inbox, shown, spent>>

(* For a MIDlet that has no displayable by now the foreground is requested *)
(* (HeadlessAlert), before it is reported active.                          *)
StartAppReturns(m) ==
  /\ Ready(m) /\ work[m] = "startApp"
  /\ work' = [work EXCEPT ![m] = "idle"] /\ shown' = shown \cup {m}
  /\ Notify(IF m \in shown THEN <<"ACTIVE">> ELSE <<"FOREGROUND", "ACTIVE">>, m)
  /\ UNCHANGED <<sr, system, proxies, code, peer, inbox, spent>>

PauseAppReturns(m) ==
  /\ Ready(m) /\ work[m] = "pauseApp"
  /\ work' = [work EXCEPT ![m] = "suspend"]
  /\ Notify(<<"PAUSED">>, m)
  /\ IF User(m) THEN UNCHANGED code ELSE Calls("M", Suspend)
  /\ UNCHANGED <<sr, system, proxies, peer, inbox, shown, spent>>

(* The subsystems of the MIDlet's isolate have been suspended.             *)
ResourcesSuspended(m) ==
  /\ Ready(m) /\ work[m] = "suspend"
  /\ work' = [work EXCEPT ![m] = "idle"]
  /\ Notify(<<"RS_PAUSED">>, m)
  /\ UNCHANGED <<sr, system, proxies, code, peer, inbox, shown, spent>>

DestroyAppReturns(m) ==
  /\ Ready(m) /\ work[m] = "destroyApp"
  /\ work' = [work EXCEPT ![m] = "idle"]
  /\ UNCHANGED <<sr, amsq, system, proxies, code, peer, inbox, shown, spent>>

-----------------------------------------------------------------------------
(* What MIDlets and the user do on their own.                              *)

(* m is started; not again while the AMS knows of an isolate before.       *)
Startable(m) ==
  /\ User(m) /\ ~Alive(m) /\ ~Contains(list, m)
  /\ \A i \in DOMAIN amsq : amsq[i].of # m
Launch(m) ==
  /\ Startable(m) /\ Act
  /\ peer' = [peer EXCEPT ![m] = "ACTIVE_PENDING"]
  /\ work' = [work EXCEPT ![m] = "constructor"]
  /\ Notify(<<"CREATE">>, m)
  /\ UNCHANGED <<sr, system, proxies, code, inbox, shown>>

(* createMIDlet withdraws a MIDlet that was not constructed.               *)
ConstructorThrows(m) ==
  /\ User(m) /\ work[m] = "constructor" /\ Act
  /\ EndIsolates({m}) /\ inbox' = [inbox EXCEPT ![m] = <<>>]
  /\ Notify(<<"DESTROYED">>, m)
  /\ UNCHANGED <<sr, system, proxies, code>>

(* The MIDlet shows its first displayable, which requests the foreground   *)
(* before the MIDlet has reported to be active.                            *)
SetCurrent(m) ==
  /\ User(m) /\ m \notin shown /\ work[m] \in {"constructor", "startApp"}
  /\ shown' = shown \cup {m}
  /\ Notify(<<"FOREGROUND">>, m)
  /\ UNCHANGED <<sr, system, proxies, code, peer, work, inbox, spent>>

(* startApp or pauseApp throws an exception.                               *)
AppThrows(m) ==
  /\ User(m) /\ work[m] \in {"startApp", "pauseApp"} /\ Act
  /\ work' = [work EXCEPT ![m] = "idle"]
  /\ SetState(m, "DESTROY_PENDING")
  /\ UNCHANGED <<sr, amsq, system, proxies, code, inbox, shown>>

NotifyPaused(m) ==
  /\ User(m) /\ Alive(m) /\ Act
  /\ SetState(m, "PAUSED")
  /\ Notify(IF peer[m] = "ACTIVE" THEN <<"PAUSED">> ELSE <<>>, m)
  /\ UNCHANGED <<sr, system, proxies, code, work, inbox, shown>>

NotifyDestroyed(m) ==
  /\ User(m) /\ Alive(m) /\ Act
  /\ peer' = [peer EXCEPT ![m] = "DESTROYED"]
  /\ UNCHANGED <<sr, amsq, system, proxies, code, work, inbox, shown>>

ResumeRequest(m) ==
  /\ User(m) /\ Alive(m) /\ Act
  /\ Notify(<<"RESUME_REQUEST">>, m)
  /\ UNCHANGED <<sr, system, proxies, code, apps>>

(* A fatal error in the isolate: it is reported, or it ends the isolate    *)
(* without notice.                                                         *)
FatalError(m) ==
  /\ User(m) /\ Alive(m) /\ Act
  /\ \/ Notify(<<"FATAL_ERROR">>, m) /\ UNCHANGED apps
     \/ EndIsolates({m}) /\ inbox' = [inbox EXCEPT ![m] = <<>>] /\ UNCHANGED amsq
  /\ UNCHANGED <<sr, system, proxies, code>>

(* The user brings a MIDlet to the foreground.                             *)
SelectForeground(m) ==
  /\ User(m) /\ Contains(list, m) /\ m # fg /\ Act
  /\ SetForegroundMIDlet(m, amsq)
  /\ ClearLastCreated({fg'})
  /\ UNCHANGED <<sr, system, list, pstate, code, peer, work, shown>>

-----------------------------------------------------------------------------
(* The system has booted and some MIDlets have been started; one of all    *)
(* active MIDlets is in the foreground.                                    *)
Init ==
  \E running \in SUBSET (Midlets \ {AppManager}) :
    /\ sr = "ACTIVE" /\ amsq = <<>>
    /\ state = "ACTIVE" /\ deps = {} /\ task = "none" /\ lastForeground = None
    /\ list = <<AppManager>> \o SetToSeq(running) /\ fresh = {}
    /\ fg \in running \cup {AppManager} /\ lastCreated = None
    /\ pstate = [m \in Midlets |-> IF Contains(list, m) THEN "ACTIVE" ELSE "DESTROYED"]
    /\ code = [t \in AMSThreads |-> <<>>]
    /\ peer = [m \in Midlets |-> IF Contains(list, m) THEN "ACTIVE" ELSE "none"]
    /\ work = [m \in Midlets |-> "idle"] /\ inbox = [m \in Midlets |-> <<>>]
    /\ shown = running \cup {AppManager}
    /\ spent = 0

SystemStep(t) ==
  \/ \E monitor \in {"this", "lock"} : EnterMonitor(t, monitor)
  \/ \E m \in Midlets : DropDependency(t, m) \/ RemoveProxy(t, m) \/ TerminateMIDletIsolate(t, m)
  \/ SuspendImpl(t) \/ Suspended0(t) \/ StartSuspend(t) \/ SuspendSystem(t) \/ ResumeSystem(t)

EventStep ==
  \/ SystemStep("E") \/ ActivateAll
  \/ \E m \in Midlets :
       \/ PauseMidlet(m) \/ CreateProxy(m)
       \/ HandleMIDletCreateNotifyEvent(m) \/ HandleMIDletActiveNotifyEvent(m)
       \/ HandleMIDletPauseNotifyEvent(m) \/ HandleMIDletRsPauseNotifyEvent(m)
       \/ HandleMIDletDestroyNotifyEvent(m) \/ HandleMIDletResumeRequestEvent(m)
       \/ HandleDisplayForegroundRequestEvent(m) \/ HandleFatalErrorNotifyEvent(m)
       \/ NoProxyFound(m)
  \/ HandlePauseAllEvent \/ HandleActivateAllEvent \/ HandleManagerEvent

TimerStep ==
  \/ SystemStep("T") \/ TimerFires \/ IsResumePending \/ RemoveDependencies
  \/ TerminatePauseAll

(* Steps a MIDlet's isolate takes without waiting for the MIDlet's code.   *)
HandlerStep(m) == HandleMIDletEvent(m) \/ StartSuite(m) \/ Unregister(m) \/ ResourcesSuspended(m)
AppStep(m) ==
  \/ ConstructorReturns(m) \/ StartAppReturns(m) \/ PauseAppReturns(m) \/ DestroyAppReturns(m)
(* Thread "M": the application manager's state handler, its code included. *)
ManagerStep == SystemStep("M") \/ HandlerStep(AppManager) \/ AppStep(AppManager)
OwnStep(m) ==
  \/ Launch(m) \/ ConstructorThrows(m) \/ SetCurrent(m) \/ AppThrows(m) \/ NotifyPaused(m) \/ NotifyDestroyed(m)
  \/ ResumeRequest(m) \/ FatalError(m) \/ SelectForeground(m)

Next ==
  \/ MidpSuspend \/ MidpResume
  \/ EventStep \/ TimerStep \/ SystemStep("M")
  \/ \E m \in Midlets : HandlerStep(m) \/ AppStep(m) \/ OwnStep(m)

Spec == Init /\ [][Next]_vars

(* The AMS's threads run, and so do the handlers of the isolates and the   *)
(* application manager; the code of a user's MIDlet may hang in any call.  *)
FairSpec ==
  /\ Spec /\ WF_vars(EventStep) /\ WF_vars(TimerStep) /\ WF_vars(ManagerStep)
  /\ \A m \in Midlets \ {AppManager} : WF_vars(HandlerStep(m))

-----------------------------------------------------------------------------
(* Properties.                                                             *)

(* Types; and a MIDlet without an isolate has no events waiting for it and *)
(* is in no call (what the AMS sends it goes nowhere).                     *)
TypeOK ==
  /\ sr \in {"ACTIVE", "SUSPENDING", "RESUMING", "SUSPENDED"}
  /\ state \in {"ACTIVE", "SUSPENDING", "SUSPENDED"}
  /\ deps \subseteq Midlets /\ task \in {"none", "armed", "run"}
  /\ ToSet(list) \subseteq Midlets /\ fg \in Midlets
  /\ fresh \subseteq Midlets /\ {lastForeground, lastCreated} \subseteq Midlets \cup {None}
  /\ peer \in [Midlets -> {"none", "PAUSED", "ACTIVE_PENDING", "ACTIVE", "PAUSE_PENDING",
                           "DESTROY_PENDING", "DESTROYED"}]
  /\ \A m \in Midlets : ~Alive(m) => inbox[m] = <<>> /\ work[m] = "idle"

Queued(e) == \E i \in DOMAIN amsq : amsq[i] = Event(e, None)
Ahead(statement, x) ==
  \E t \in AMSThreads : \E i \in DOMAIN code[t] :
    code[t][i].do = statement /\ code[t][i].of = x

(* The timer's task exists exactly while a suspension is under way: no     *)
(* suspension is without its timeout, and SuspendTimer.stop, which uses    *)
(* the task unchecked, never finds it null.                                *)
TimerWhileSuspending ==
  (task # "none") <=> (state = "SUSPENDING" \/ Ahead("suspend", None))

(* While the native side waits for the Java side (SUSPENDING, or RESUMING  *)
(* with a resume request put off), the Java side has the request in its    *)
(* queue, is working on it or is about to report: no request gets lost,    *)
(* whatever is asked for in between.                                       *)
RequestNotLost ==
  sr \in {"SUSPENDING", "RESUMING"} =>
    \/ Queued("PAUSE_ALL") \/ Ahead("start", None) \/ Ahead("suspend", None)
    \/ state = "SUSPENDING" \/ Ahead("suspended0", None)

(* The system does not wait for a MIDlet that is gone: whatever it depends *)
(* on has a proxy, or a thread is about to remove the dependency.  A       *)
(* suspended system may have some, of handlePauseAllEvent in that state.   *)
DependencyHasProxy ==
  \A m \in deps : Contains(list, m) \/ Ahead("removed", m)

(* What a thread needs, besides the monitors it has, for its next statement.*)
Wants(t, monitor) ==
  \/ Head(code[t]).do = "enter" /\ Head(code[t]).of = monitor
  \/ monitor = "this" /\ Head(code[t]).do = "resume" /\ state = "SUSPENDED"
  \/ Head(code[t]).do \in CASE monitor = "this" -> {"suspendImpl", "start"}
                            [] monitor = "lock" -> {"drop", "removed", "suspend"}
                            [] OTHER -> {"suspended0", "remove", "create", "activateAll"}
(* Two busy threads wait for monitors of each other: midletRemoved takes the    *)
(* system's monitor and then its lock, the end of a suspension the lock    *)
(* and then the monitor; terminatePauseAll has the proxy list besides.     *)
LockInversion ==
  \E t, u \in {v \in AMSThreads : code[v] # <<>>},
     a, b \in {"this", "lock", "midletProxies"} :
    t # u /\ Holds(t, a) /\ Wants(t, b) /\ Holds(u, b) /\ Wants(u, a)

(* What takes m off the dependencies is under way and needs no code of a   *)
(* user's MIDlet; the manager's own code returns.                          *)
UnderWay(m) ==
  \/ \E i \in DOMAIN amsq :
       /\ amsq[i].of = m
       /\ amsq[i].type \in {"RS_PAUSED", "DESTROYED", "FATAL_ERROR", "activate", "pause"}
  \/ Ahead("drop", m) \/ Ahead("remove", m) \/ Ahead("removed", m)
  \/ work[m] = "suspend"
  \/ m = AppManager /\ (work[m] # "idle" \/ peer[m] \in {"ACTIVE_PENDING", "PAUSE_PENDING"})

(* The timer has run in vain for m: m was spared for a proxy that says     *)
(* PAUSED, or has no isolate that can be ended (it is gone already, or m   *)
(* is the application manager).                                            *)
Overlooked(m) ==
  /\ task = "run" /\ code["T"] = <<>>
  /\ pstate[m] = "PAUSED" \/ ~HasIsolate(m)
  /\ ~UnderWay(m)


(* The application manager is active again after every suspension, also    *)
(* when its own pause was late or the resume request came early.           *)
ManagerComesBack ==
  sr = "ACTIVE" ~> (sr # "ACTIVE" \/ LockInversion \/ peer[AppManager] = "ACTIVE")

=============================================================================
