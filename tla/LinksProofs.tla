---------------------------- MODULE LinksProofs ----------------------------
(***************************************************************************)
(* Theorems about Links, for any number of isolates, threads, Link         *)
(* objects, rendezvous points and messages: types, reference counts, and   *)
(* the handshake, which builds on both.                                    *)
(***************************************************************************)
EXTENDS Links, FiniteSetTheorems, TLAPS

\* Everything TypeOK says, with reference counts only known to be integers:
\* that they stay natural is a consequence of RefcountExact.
Types == /\ refcount \in [RPs -> Int]
         /\ RendezvousTypes /\ PointerTypes /\ CallTypes /\ VMTypes /\ CallShape

-----------------------------------------------------------------------------
(* Type correctness                                                        *)

\* A Java method that enters a native keeps the types.
LEMMA BeginTypes ==
  ASSUME Types, NEW t \in Threads, NEW what \in Ops,
         NEW l \in LinkObjs \cup {Null}, NEW m \in Messages \cup {Null},
         what \in {"send", "receive"} => l # Null, what = "send" => m # Null,
         Begin(t, what, l, m)
  PROVE  Types'
<1>1. RendezvousTypes' /\ refcount' \in [RPs -> Int] /\ PointerTypes' /\ VMTypes'
  BY DEF Begin, Types, RendezvousTypes, PointerTypes, VMTypes, rpVars,
     portalVars, vmVars
<1>2. CallTypes'
  BY DEF Begin, Types, CallTypes, Outcomes
<1>3. CallShape'
  BY DistinctNames DEF Begin, Types, CallTypes, CallShape, CanCall, Quiet, vmVars
<1> QED BY <1>1, <1>2, <1>3 DEF Types

\* The VM going down changes nothing but the fault.
LEMMA CrashTypes ==
  ASSUME Types, NEW why \in Faults, Crash(why)
  PROVE  Types'
  BY DEF Crash, rpVars, portalVars, callVars, Types, RendezvousTypes,
     PointerTypes, CallTypes, VMTypes, CallShape

\* A signal leaves every thread blocked on something or on nothing.
LEMMA SignalledType ==
  ASSUME CallTypes, NEW d
  PROVE  Signalled(d) \in [Threads -> RPs \cup Isolates \cup {Null}]
  BY DEF CallTypes, Signalled

\* A native method that returns leaves a well-formed call record.
LEMMA ReturnTypes ==
  ASSUME Types, NEW t \in Threads, NEW result \in Outcomes, Return(t, result),
         waiting' \in [Threads -> RPs \cup Isolates \cup {Null}],
         busy' \notin Threads
  PROVE  CallTypes' /\ CallShape'
<1>1. CallTypes'
  <2>1. /\ op' \in [Threads -> Ops]
        /\ lnk' \in [Threads -> LinkObjs \cup {Null}]
        /\ arg' \in [Threads -> Messages \cup {Null}]
    BY DEF Return, Types, CallTypes, Ops
  <2>2. len' \in [Threads -> 0..MaxPortal]
    BY FinitePools DEF Return, Types, CallTypes
  <2>3. reentry' \in [Threads -> BOOLEAN] /\ outcome' \in [Threads -> Outcomes]
    BY DEF Return, Types, CallTypes
  <2> QED BY <2>1, <2>2, <2>3 DEF CallTypes
<1>2. CallShape'
  BY DEF Return, Types, CallTypes, CallShape
<1> QED BY <1>1, <1>2

\* So does one that waits.
LEMMA WaitTypes ==
  ASSUME Types, NEW t \in Threads, NEW d \in RPs \cup Isolates,
         Wait(t, d) \/ SignalAndWait(t, d), UNCHANGED busy
  PROVE  CallTypes' /\ CallShape'
<1>1. waiting' \in [Threads -> RPs \cup Isolates \cup {Null}]
  BY SignalledType DEF Wait, SignalAndWait, Types, CallTypes
<1>2. reentry' \in [Threads -> BOOLEAN]
  BY DEF Wait, SignalAndWait, Types, CallTypes
<1>3. UNCHANGED <<op, lnk, arg, len, outcome>>
  BY DEF Wait, SignalAndWait
<1> QED BY <1>1, <1>2, <1>3 DEF Types, CallTypes, CallShape

\* Closing a Link keeps the types (close() and finalize()).
LEMMA CloseLinkTypes ==
  ASSUME Types, NEW l \in LinkObjs, NEW i \in Isolates, ptr[l] # Null,
         CloseLink(l, i)
  PROVE  Types'
<1> DEFINE r == ptr[l]
           m == LeftOnClose(r, i)
<1>1. r \in RPs /\ m \in Messages \cup {Null}
  BY DEF LeftOnClose, Types, PointerTypes, RendezvousTypes
<1>2. CASE StaleOnDecref(r, m) /\ Crash("staleRefid")
  BY <1>2 DEF Crash, rpVars, portalVars, callVars, Faults, Types,
     RendezvousTypes, PointerTypes, CallTypes, VMTypes, CallShape
<1>3. CASE ~(StaleOnDecref(r, m) /\ Crash("staleRefid"))
  <2>1. /\ msg' = [msg EXCEPT ![r] = m]
        /\ state' = [state EXCEPT ![r] = "CLOSED"]
        /\ waiting' = Signalled(r)
        /\ ptr' = [ptr EXCEPT ![l] = Null]
        /\ refcount' = Decref(r)
        /\ UNCHANGED <<retcode, sender, receiver, unacked, count, slot,
                       op, lnk, arg, len, reentry, outcome, busy, dying, fault>>
    BY <1>3 DEF CloseLink, portalVars, callVars, vmVars
  <2>2. RendezvousTypes' /\ refcount' \in [RPs -> Int]
    BY <1>1, <2>1 DEF Types, RendezvousTypes, States, Decref
  <2>3. PointerTypes'
    BY <1>1, <2>1 DEF Types, PointerTypes
  <2>4. CallTypes' /\ VMTypes' /\ CallShape'
    BY <1>1, <2>1 DEF Types, CallTypes, VMTypes, CallShape, Signalled
  <2> QED BY <2>2, <2>3, <2>4 DEF Types
<1> QED BY <1>2, <1>3

\* Every step of receive0 keeps the types.
LEMMA ReceiveTypes ==
  ASSUME Types, NEW t \in Threads, Receive0(t)
  PROVE  Types'
<1> USE FinitePools, Placement, DistinctNames
<1>1. ASSUME CallOnClosed(t, "receive") PROVE Types'
  <2>1. RendezvousTypes' /\ refcount' \in [RPs -> Int]
    BY <1>1 DEF CallOnClosed, RendezvousTypes, Types, rpVars
  <2>2. PointerTypes' /\ VMTypes'
    BY <1>1 DEF CallOnClosed, Types, PointerTypes, VMTypes, portalVars, vmVars
  <2>3. CallTypes' /\ CallShape'
    BY <1>1, ReturnTypes, SignalledType DEF CallOnClosed, Types, CallTypes, Outcomes, ClosedResult, Runs, Quiet, vmVars
  <2> QED BY <2>1, <2>2, <2>3 DEF Types
<1>2. ASSUME CallFromWrongIsolate(t, "receive", receiver) PROVE Types'
  <2>1. RendezvousTypes' /\ refcount' \in [RPs -> Int]
    BY <1>2 DEF CallFromWrongIsolate, RendezvousTypes, Types, rpVars
  <2>2. PointerTypes' /\ VMTypes'
    BY <1>2 DEF CallFromWrongIsolate, Types, PointerTypes, VMTypes, portalVars, vmVars
  <2>3. CallTypes' /\ CallShape'
    BY <1>2, ReturnTypes, SignalledType DEF CallFromWrongIsolate, Types, CallTypes, Outcomes, Runs, Quiet, vmVars
  <2> QED BY <2>1, <2>2, <2>3 DEF Types
<1>3. ASSUME NEW r \in RPs, ReceiveFirst(t, r) PROVE Types'
  <2>1. RendezvousTypes' /\ refcount' \in [RPs -> Int]
    BY <1>3 DEF ReceiveFirst, RendezvousTypes, Types, rpVars, States
  <2>2. PointerTypes' /\ VMTypes'
    BY <1>3 DEF ReceiveFirst, Types, PointerTypes, VMTypes, portalVars, vmVars
  <2>3. CallTypes' /\ CallShape'
    BY <1>3, WaitTypes DEF ReceiveFirst, vmVars
  <2> QED BY <2>1, <2>2, <2>3 DEF Types
<1>4. ASSUME NEW r \in RPs, ReceiveAgain(t, r) PROVE Types'
  <2>1. RendezvousTypes' /\ refcount' \in [RPs -> Int]
    BY <1>4 DEF ReceiveAgain, RendezvousTypes, Types, rpVars
  <2>2. PointerTypes' /\ VMTypes'
    BY <1>4 DEF ReceiveAgain, Types, PointerTypes, VMTypes, portalVars, vmVars
  <2>3. CallTypes' /\ CallShape'
    BY <1>4, WaitTypes DEF ReceiveAgain, vmVars
  <2> QED BY <2>1, <2>2, <2>3 DEF Types
<1>5. ASSUME NEW r \in RPs, BeginCopy(t, r) PROVE Types'
  <2>1. RendezvousTypes' /\ refcount' \in [RPs -> Int]
    BY <1>5 DEF BeginCopy, RendezvousTypes, Types, rpVars
  <2>2. PointerTypes' /\ VMTypes'
    BY <1>5 DEF BeginCopy, Types, PointerTypes, VMTypes, portalVars, vmVars
  <2>3. CallTypes' /\ CallShape'
    BY <1>5 DEF BeginCopy, Types, CallTypes, CallShape, callVars, Receives, Runs, Quiet, Messages
  <2> QED BY <2>1, <2>2, <2>3 DEF Types
<1>6. ASSUME NEW r \in RPs, NEW ok \in BOOLEAN,
             EndCopy(t, r, ok) PROVE Types'
  <2>1. RendezvousTypes' /\ refcount' \in [RPs -> Int]
    BY <1>6 DEF EndCopy, RendezvousTypes, Types, rpVars, Transferred, States, CallTypes, CallShape
  <2>2. PointerTypes' /\ VMTypes'
    BY <1>6 DEF EndCopy, Types, PointerTypes, VMTypes, portalVars, vmVars
  <2>3. CallTypes' /\ CallShape'
    BY <1>6, ReturnTypes, SignalledType DEF EndCopy, Types, CallTypes, Outcomes, Transferred
  <2> QED BY <2>1, <2>2, <2>3 DEF Types
<1>7. ASSUME NEW r \in RPs, ReceiveOnClosed(t, r) PROVE Types'
  <2>0. CASE Crash("staleRefid")
    BY <2>0, CrashTypes DEF Faults
  <2>a. CASE ~Crash("staleRefid")
    <3>1. RendezvousTypes' /\ refcount' \in [RPs -> Int]
      BY <1>7, <2>a DEF ReceiveOnClosed, RendezvousTypes, Types, rpVars, Decref
    <3>2. PointerTypes' /\ VMTypes'
      BY <1>7, <2>a DEF ReceiveOnClosed, Types, PointerTypes, VMTypes, portalVars, vmVars, Receives, Runs, Quiet, CallTypes, CallShape
    <3>3. CallTypes' /\ CallShape'
      BY <1>7, <2>a, ReturnTypes, SignalledType DEF ReceiveOnClosed, Types, CallTypes, Outcomes, ClosedResult, vmVars, Receives, Runs, Quiet
    <3> QED BY <3>1, <3>2, <3>3 DEF Types
  <2> QED BY <2>0, <2>a
<1>8. ASSUME NEW r \in RPs, NEW l \in LinkObjs,
             ReceiveLink(t, r, l) PROVE Types'
  <2>0. CASE Crash("nullRendezvous")
    BY <2>0, CrashTypes DEF Faults
  <2>a. CASE ~Crash("nullRendezvous")
    <3>0. ptr[msg[r]] \in RPs /\ msg[r] \in Messages
      BY <1>8, <2>a DEF ReceiveLink, Types, PointerTypes, Messages
    <3>a. unacked' \in [RPs -> [Messages -> Int]]
      <4>1. unacked' = [unacked EXCEPT ![r][msg[r]] = @ + 1]
        BY <1>8, <2>a DEF ReceiveLink, Transferred
      <4> QED BY <3>0, <4>1 DEF Types, RendezvousTypes
    <3>b. refcount' \in [RPs -> Int]
      <4>1. refcount' = Incref(ptr[msg[r]])
        BY <1>8, <2>a DEF ReceiveLink
      <4> QED BY <3>0, <4>1 DEF Incref, Types
    <3>1. RendezvousTypes' /\ refcount' \in [RPs -> Int]
      <4>1. /\ state' = [state EXCEPT ![r] = "DONE"]
            /\ retcode' = [retcode EXCEPT ![r] = "OK"]
            /\ UNCHANGED <<msg, sender, receiver>>
        BY <1>8, <2>a DEF ReceiveLink, Transferred
      <4> QED BY <3>a, <3>b, <4>1 DEF Types, RendezvousTypes, States
    <3>2. PointerTypes' /\ VMTypes'
      BY <1>8, <2>a DEF ReceiveLink, Types, PointerTypes, VMTypes, portalVars, vmVars, Messages, RendezvousTypes
    <3>3. CallTypes' /\ CallShape'
      BY <1>8, <2>a, ReturnTypes, SignalledType DEF ReceiveLink, Types, CallTypes, Outcomes, Transferred, vmVars, Receives, Runs, Quiet
    <3> QED BY <3>1, <3>2, <3>3 DEF Types
  <2> QED BY <2>0, <2>a
<1> QED BY <1>1, <1>2, <1>3, <1>4, <1>5, <1>6, <1>7, <1>8 DEF Receive0

\* Every step of send0 keeps the types.
LEMMA SendTypes ==
  ASSUME Types, NEW t \in Threads, Send0(t)
  PROVE  Types'
<1> USE FinitePools, Placement, DistinctNames
<1>1. ASSUME CallOnClosed(t, "send") PROVE Types'
  <2>1. RendezvousTypes' /\ refcount' \in [RPs -> Int]
    BY <1>1 DEF CallOnClosed, RendezvousTypes, Types, rpVars
  <2>2. PointerTypes' /\ VMTypes'
    BY <1>1 DEF CallOnClosed, Types, PointerTypes, VMTypes, portalVars, vmVars
  <2>3. CallTypes' /\ CallShape'
    BY <1>1, ReturnTypes, SignalledType DEF CallOnClosed, Types, CallTypes, Outcomes, ClosedResult, Runs, Quiet, vmVars
  <2> QED BY <2>1, <2>2, <2>3 DEF Types
<1>2. ASSUME CallFromWrongIsolate(t, "send", sender) PROVE Types'
  <2>1. RendezvousTypes' /\ refcount' \in [RPs -> Int]
    BY <1>2 DEF CallFromWrongIsolate, RendezvousTypes, Types, rpVars
  <2>2. PointerTypes' /\ VMTypes'
    BY <1>2 DEF CallFromWrongIsolate, Types, PointerTypes, VMTypes, portalVars, vmVars
  <2>3. CallTypes' /\ CallShape'
    BY <1>2, ReturnTypes, SignalledType DEF CallFromWrongIsolate, Types, CallTypes, Outcomes, Runs, Quiet, vmVars
  <2> QED BY <2>1, <2>2, <2>3 DEF Types
<1>3. ASSUME NEW r \in RPs, SendFirst(t, r) PROVE Types'
  <2>1. RendezvousTypes' /\ refcount' \in [RPs -> Int]
    BY <1>3 DEF SendFirst, RendezvousTypes, Types, rpVars, States, CallTypes
  <2>2. PointerTypes' /\ VMTypes'
    BY <1>3 DEF SendFirst, Types, PointerTypes, VMTypes, portalVars, vmVars
  <2>3. CallTypes' /\ CallShape'
    BY <1>3, WaitTypes DEF SendFirst, vmVars
  <2> QED BY <2>1, <2>2, <2>3 DEF Types
<1>4. ASSUME NEW r \in RPs, SendToReceiver(t, r) PROVE Types'
  <2>1. RendezvousTypes' /\ refcount' \in [RPs -> Int]
    BY <1>4 DEF SendToReceiver, RendezvousTypes, Types, rpVars, States, CallTypes
  <2>2. PointerTypes' /\ VMTypes'
    BY <1>4 DEF SendToReceiver, Types, PointerTypes, VMTypes, portalVars, vmVars
  <2>3. CallTypes' /\ CallShape'
    BY <1>4, WaitTypes DEF SendToReceiver, vmVars
  <2> QED BY <2>1, <2>2, <2>3 DEF Types
<1>5. ASSUME NEW r \in RPs, SendAgain(t, r) PROVE Types'
  <2>1. RendezvousTypes' /\ refcount' \in [RPs -> Int]
    BY <1>5 DEF SendAgain, RendezvousTypes, Types, rpVars
  <2>2. PointerTypes' /\ VMTypes'
    BY <1>5 DEF SendAgain, Types, PointerTypes, VMTypes, portalVars, vmVars
  <2>3. CallTypes' /\ CallShape'
    BY <1>5, WaitTypes DEF SendAgain, vmVars
  <2> QED BY <2>1, <2>2, <2>3 DEF Types
<1>6. ASSUME NEW r \in RPs, SendDone(t, r) PROVE Types'
  <2>1. RendezvousTypes' /\ refcount' \in [RPs -> Int]
    BY <1>6 DEF SendDone, RendezvousTypes, Types, rpVars, States, CallTypes, CallShape, Sends, Runs
  <2>2. PointerTypes' /\ VMTypes'
    BY <1>6 DEF SendDone, Types, PointerTypes, VMTypes, portalVars, vmVars
  <2>3. CallTypes' /\ CallShape'
    BY <1>6, ReturnTypes, SignalledType DEF SendDone, Types, CallTypes, Outcomes, vmVars, Sends, Runs, Quiet
  <2> QED BY <2>1, <2>2, <2>3 DEF Types
<1>7. ASSUME NEW r \in RPs, SendOnClosed(t, r) PROVE Types'
  <2>1. RendezvousTypes' /\ refcount' \in [RPs -> Int]
    BY <1>7 DEF SendOnClosed, RendezvousTypes, Types, rpVars, Decref
  <2>2. PointerTypes' /\ VMTypes'
    BY <1>7 DEF SendOnClosed, Types, PointerTypes, VMTypes, portalVars, vmVars, Sends, Runs, Quiet, CallTypes, CallShape
  <2>3. CallTypes' /\ CallShape'
    BY <1>7, ReturnTypes, SignalledType DEF SendOnClosed, Types, CallTypes, Outcomes, ClosedResult, vmVars, Sends, Runs, Quiet
  <2> QED BY <2>1, <2>2, <2>3 DEF Types
<1> QED BY <1>1, <1>2, <1>3, <1>4, <1>5, <1>6, <1>7 DEF Send0

\* A portal operation leaves integer counts.
LEMMA SlotsFinite == IsFiniteSet(Slots)
<1>1. IsFiniteSet(1..MaxPortal)
  BY FinitePools, FS_Interval
<1> QED BY <1>1, FinitePools, FS_Product DEF Slots

\* Reference counts after pointers moved are integers.
LEMMA RepointedType ==
  ASSUME Types, NEW i, NEW f \in [RPs -> Int]
  PROVE  Repointed(i, f) \in [RPs -> Int]
<1>1. \A r \in RPs : PortalHolders(i, r) \in SUBSET Slots
  BY DEF PortalHolders
<1>2. \A r \in RPs : Cardinality(PortalHolders(i, r)) \in Nat
  BY <1>1, SlotsFinite, FS_Subset, FS_CardinalityType
<1> QED BY <1>2 DEF Types, Repointed

\* The operations of LinkPortal keep the types.
LEMMA SetLinksTypes ==
  ASSUME Types, NEW t \in Threads, NEW i \in Isolates, NEW n \in 0..MaxPortal,
         NEW la \in [1..n -> LinkObjs], NEW isNull \in BOOLEAN,
         SetLinks(t, i, n, la, isNull)
  PROVE  Types'
<1> USE FinitePools, Placement, DistinctNames
<1> DEFINE added == [r \in RPs |-> Cardinality({k \in 1..n : ptr[la[k]] = r})]
<1>1. CASE Crash("staleRefid")
  BY <1>1, CrashTypes DEF Faults
<1>2. CASE UNCHANGED <<rpVars, ptr, portalVars, op, lnk, arg, len, reentry,
                       waiting, vmVars>>
           /\ outcome' = [outcome EXCEPT ![t] = "IllegalArgumentException"]
  BY <1>2 DEF Types, RendezvousTypes, PointerTypes, CallTypes, VMTypes,
     CallShape, rpVars, portalVars, vmVars, Outcomes
<1>3. CASE /\ refcount' = Repointed(i, added)
           /\ slot' = [x \in Slots |->
                         IF x[1] # i THEN slot[x]
                         ELSE IF x[2] <= n THEN ptr[la[x[2]]] ELSE Null]
           /\ count' = [count EXCEPT ![i] = IF isNull THEN -1 ELSE n]
           /\ waiting' = Signalled(i)
           /\ outcome' = [outcome EXCEPT ![t] = "ok"]
           /\ UNCHANGED <<state, retcode, msg, sender, receiver, unacked, ptr,
                          op, lnk, arg, len, reentry, vmVars>>
  <2>1. \A r \in RPs : Cardinality({k \in 1..n : ptr[la[k]] = r}) \in Nat
    <3>1. IsFiniteSet(1..n)
      BY FS_Interval
    <3>2. \A r \in RPs : {k \in 1..n : ptr[la[k]] = r} \in SUBSET (1..n)
      OBVIOUS
    <3> QED BY <3>1, <3>2, FS_Subset, FS_CardinalityType
  <2>2. added \in [RPs -> Int]
    BY <2>1
  <2>3. refcount' \in [RPs -> Int]
    BY <1>3, <2>2, RepointedType
  <2>4. slot' \in [Slots -> RPs \cup {Null}]
    <3>1. \A x \in Slots : x[2] \in 1..MaxPortal
      BY DEF Slots
    <3>2. \A x \in Slots : x[2] <= n => la[x[2]] \in LinkObjs
      BY <3>1
    <3> QED BY <1>3, <3>2 DEF Types, PointerTypes
  <2>5. PointerTypes' /\ RendezvousTypes'
    BY <1>3, <2>4 DEF Types, PointerTypes, RendezvousTypes
  <2>6. CallTypes' /\ VMTypes' /\ CallShape'
    BY <1>3, SignalledType DEF Types, CallTypes, VMTypes, CallShape, vmVars,
       Outcomes
  <2> QED BY <2>3, <2>5, <2>6 DEF Types
<1> QED BY <1>1, <1>2, <1>3 DEF SetLinks

\* getLinks0 keeps the types.
LEMMA GetLinksTypes ==
  ASSUME Types, NEW t \in Threads, NEW la \in [1..len[t] -> LinkObjs],
         GetLinks(t, la)
  PROVE  Types'
<1> USE FinitePools, Placement, DistinctNames
<1> DEFINE i == ThreadIso[t]
           n == IF count[i] > 0 THEN len[t] ELSE 0
           taken == [r \in RPs |->
                       Cardinality({k \in 1..n : slot[<<i, k>>] = r})]
<1>1. CASE Crash("staleRefid") \/ Crash("outOfBounds")
  BY <1>1, CrashTypes DEF Faults
<1>2. CASE /\ refcount' = Repointed(i, taken)
           /\ ptr' = [l \in LinkObjs |->
                        IF \E k \in 1..n : la[k] = l
                        THEN slot[<<i, CHOOSE k \in 1..n : la[k] = l>>]
                        ELSE ptr[l]]
           /\ slot' = [x \in Slots |-> IF x[1] = i THEN Null ELSE slot[x]]
           /\ count' = [count EXCEPT ![i] = -1]
           /\ Return(t, "ok")
           /\ UNCHANGED <<state, retcode, msg, sender, receiver, unacked,
                          waiting, vmVars>>
  <2>0. n \in 0..MaxPortal /\ i \in Isolates
    BY DEF Types, CallTypes
  <2>1. \A r \in RPs : Cardinality({k \in 1..n : slot[<<i, k>>] = r}) \in Nat
    <3>1. IsFiniteSet(1..n)
      BY <2>0, FS_Interval
    <3>2. \A r \in RPs : {k \in 1..n : slot[<<i, k>>] = r} \in SUBSET (1..n)
      OBVIOUS
    <3> QED BY <3>1, <3>2, FS_Subset, FS_CardinalityType
  <2>2. refcount' \in [RPs -> Int]
    <3>1. taken \in [RPs -> Int]
      BY <2>1
    <3> HIDE DEF taken
    <3> QED BY <1>2, <3>1, RepointedType
  <2>3. ptr' \in [LinkObjs -> RPs \cup {Null}]
    <3>1. \A k \in 1..n : <<i, k>> \in Slots
      BY <2>0 DEF Slots
    <3>2. \A k \in 1..n : slot[<<i, k>>] \in RPs \cup {Null}
      BY <3>1 DEF Types, PointerTypes
    <3>3. ASSUME NEW l \in LinkObjs, \E k \in 1..n : la[k] = l
          PROVE  slot[<<i, CHOOSE k \in 1..n : la[k] = l>>] \in RPs \cup {Null}
      BY <3>2, <3>3
    <3> HIDE DEF n
    <3> QED BY <1>2, <3>3 DEF Types, PointerTypes
  <2>4. slot' \in [Slots -> RPs \cup {Null}] /\ count' \in [Isolates -> -1..MaxPortal]
    BY <1>2, <2>0 DEF Types, PointerTypes
  <2>5. PointerTypes' /\ RendezvousTypes' /\ VMTypes'
    BY <1>2, <2>3, <2>4 DEF Types, PointerTypes, RendezvousTypes, VMTypes, vmVars
  <2>6. busy' \notin Threads
    BY <1>2 DEF GetLinks, Runs, Quiet, vmVars
  <2>7. CallTypes' /\ CallShape'
    BY <1>2, <2>6, ReturnTypes DEF Types, CallTypes, Outcomes
  <2> QED BY <2>2, <2>5, <2>7 DEF Types
<1> QED BY <1>1, <1>2 DEF GetLinks

\* The end of an isolate keeps the types.
LEMMA ShutdownTypes ==
  ASSUME Types, NEW i \in Isolates, Shutdown(i)
  PROVE  Types'
<1> USE FinitePools
<1> DEFINE none == [r \in RPs |-> 0]
<1>1. CASE Crash("staleRefid")
  BY <1>1, CrashTypes DEF Faults
<1>2. CASE ~Crash("staleRefid")
  <2>1. /\ refcount' = Repointed(i, none)
        /\ slot' = [x \in Slots |-> IF x[1] = i THEN Null ELSE slot[x]]
        /\ count' = [count EXCEPT ![i] = -1]
        /\ UNCHANGED <<state, retcode, msg, sender, receiver, unacked, ptr,
                       op, lnk, arg, len, reentry, outcome, waiting,
                       busy, dying, fault>>
    BY <1>2 DEF Shutdown, callVars, vmVars
  <2>2. refcount' \in [RPs -> Int]
    BY <2>1, RepointedType
  <2>3. slot' \in [Slots -> RPs \cup {Null}] /\ count' \in [Isolates -> -1..MaxPortal]
    BY <2>1 DEF Types, PointerTypes
  <2>4. PointerTypes' /\ RendezvousTypes'
    BY <2>1, <2>3 DEF Types, PointerTypes, RendezvousTypes
  <2>5. CallTypes' /\ VMTypes'
    BY <2>1 DEF Types, CallTypes, VMTypes
  <2>6. CallShape'
    BY <2>1 DEF Types, CallShape
  <2> QED BY <2>2, <2>4, <2>5, <2>6 DEF Types
<1> QED BY <1>1, <1>2

\* Every step keeps the types.
LEMMA TypesInductive ==
  ASSUME Types, [Next]_vars
  PROVE  Types'
<1> USE FinitePools, Placement, DistinctNames
<1>1. ASSUME NEW t \in Threads, NEW l \in LinkObjs, StartReceive(t, l)
      PROVE  Types'
  BY <1>1, BeginTypes DEF StartReceive, Ops
<1>2. ASSUME NEW t \in Threads, NEW l \in LinkObjs, NEW m \in Messages,
             StartSend(t, l, m)
      PROVE  Types'
  <2>1. m # Null
    BY DEF Messages
  <2> QED BY <1>2, <2>1, BeginTypes DEF StartSend, Ops
<1>3. ASSUME NEW t \in Threads, StartGetLinks(t)
      PROVE  Types'
  BY <1>3, BeginTypes DEF StartGetLinks, Ops
<1>4. ASSUME NEW t \in Threads, NEW l \in LinkObjs, Close(t, l)
      PROVE  Types'
  BY <1>4, CloseLinkTypes DEF Close
<1>5. ASSUME NEW l \in LinkObjs, Finalize(l)
      PROVE  Types'
  BY <1>5, CloseLinkTypes DEF Finalize
<1>6. ASSUME NEW t \in Threads, NEW l \in LinkObjs, NEW r \in RPs,
             NEW e \in Endpoints, NewLink(t, l, r, e)
      PROVE  Types'
  <2>1. Nothing \in [Messages -> Int]
    BY DEF Nothing
  <2>2. RendezvousTypes' /\ refcount' \in [RPs -> Int]
    BY <1>6, <2>1 DEF NewLink, Types, RendezvousTypes, States, Incref
  <2>3. PointerTypes' /\ CallTypes' /\ VMTypes' /\ CallShape'
    BY <1>6 DEF NewLink, Types, PointerTypes, CallTypes, VMTypes, CallShape,
       portalVars, callVars, vmVars
  <2> QED BY <2>2, <2>3 DEF Types
<1>7. ASSUME NEW t \in Threads, GetLinkCount(t)
      PROVE  Types'
  <2>1. RendezvousTypes' /\ refcount' \in [RPs -> Int] /\ PointerTypes' /\ VMTypes'
    BY <1>7 DEF GetLinkCount, Types, RendezvousTypes, PointerTypes, VMTypes,
       rpVars, portalVars, vmVars
  <2>2. CASE Wait(t, ThreadIso[t])
    BY <1>7, <2>1, <2>2, WaitTypes DEF GetLinkCount, vmVars, Types
  <2>3. CASE ~Wait(t, ThreadIso[t])
    <3>1. /\ count[ThreadIso[t]] # -1
          /\ op' = [op EXCEPT ![t] = "getLinks"]
          /\ len' = [len EXCEPT ![t] = count[ThreadIso[t]]]
          /\ reentry' = [reentry EXCEPT ![t] = FALSE]
          /\ UNCHANGED <<lnk, arg, outcome, waiting, busy>>
          /\ busy = Null
      BY <1>7, <2>3 DEF GetLinkCount, vmVars, Runs, Quiet
    <3>2. len' \in [Threads -> 0..MaxPortal]
      BY <3>1 DEF Types, PointerTypes, CallTypes
    <3>3. CallTypes' /\ CallShape'
      BY <3>1, <3>2 DEF Types, CallTypes, CallShape, Ops
    <3> QED BY <2>1, <3>3 DEF Types
  <2> QED BY <2>2, <2>3
<1>8. ASSUME NEW t \in Threads, EndThread(t)
      PROVE  Types'
  <2>1. RendezvousTypes' /\ refcount' \in [RPs -> Int] /\ PointerTypes' /\ VMTypes'
    BY <1>8 DEF EndThread, Types, RendezvousTypes, PointerTypes, VMTypes,
       rpVars, portalVars
  <2>2. busy' \notin Threads
    BY <1>8 DEF EndThread
  <2>3. CallTypes'
    BY <1>8 DEF EndThread, Types, CallTypes, Ops, Outcomes
  <2>4. CallShape'
    BY <1>8, <2>2 DEF EndThread, Types, CallTypes, CallShape
  <2> QED BY <2>1, <2>3, <2>4 DEF Types
<1>9. ASSUME NEW i \in MayStop, StopIsolate(i)
      PROVE  Types'
  BY <1>9 DEF StopIsolate, Types, RendezvousTypes, PointerTypes, CallTypes,
     VMTypes, CallShape, rpVars, portalVars, callVars
<1>10. ASSUME NEW i \in Isolates, TaskFinalized(i)
       PROVE  Types'
  BY <1>10 DEF TaskFinalized, Types, RendezvousTypes, PointerTypes, CallTypes,
     VMTypes, CallShape, rpVars, portalVars, callVars
<1>11. CASE UNCHANGED vars
  BY <1>11 DEF vars, Types, RendezvousTypes, PointerTypes, CallTypes,
     VMTypes, CallShape, rpVars, portalVars, callVars, vmVars
<1>12. ASSUME NEW t \in Threads, ThreadStep(t)
       PROVE  Types'
  BY <1>7, <1>12, ReceiveTypes, SendTypes, GetLinksTypes DEF ThreadStep
<1>13. ASSUME NEW t \in Threads, Calls(t)
       PROVE  Types'
  BY <1>1, <1>2, <1>3, <1>4, <1>6, <1>13, SetLinksTypes DEF Calls
<1> QED
  BY <1>5, <1>8, <1>9, <1>10, <1>11, <1>12, <1>13, ShutdownTypes DEF Next

-----------------------------------------------------------------------------
(* Reference counts                                                        *)

\* Only finitely many Links and portal entries can hold a rendezvous.
LEMMA HoldersFinite ==
  ASSUME NEW r
  PROVE  /\ IsFiniteSet(LinkHolders(r)) /\ Cardinality(LinkHolders(r)) \in Nat
         /\ IsFiniteSet(SlotHolders(r)) /\ Cardinality(SlotHolders(r)) \in Nat
<1>1. LinkHolders(r) \in SUBSET LinkObjs /\ SlotHolders(r) \in SUBSET Slots
  BY DEF LinkHolders, SlotHolders
<1> QED BY <1>1, FinitePools, SlotsFinite, FS_Subset, FS_CardinalityType

\* A step that touches neither pointers nor counts.
LEMMA CountFrame ==
  ASSUME RefcountExact, UNCHANGED <<refcount, ptr, slot>>
  PROVE  RefcountExact'
  BY DEF RefcountExact, LinkHolders, SlotHolders

\* An empty Link starts to hold a rendezvous: init0 and copy().
LEMMA CountAcquire ==
  ASSUME Types, RefcountExact, NEW l \in LinkObjs, NEW r \in RPs,
         ptr[l] = Null, ptr' = [ptr EXCEPT ![l] = r],
         refcount' = Incref(r), UNCHANGED slot
  PROVE  RefcountExact'
<1> SUFFICES ASSUME NEW q \in RPs
             PROVE  refcount'[q] = Cardinality(LinkHolders(q)')
                                   + Cardinality(SlotHolders(q)')
  BY DEF RefcountExact
<1>1. Cardinality(SlotHolders(q)') = Cardinality(SlotHolders(q))
  BY DEF SlotHolders
<1>2. q # Null /\ l \notin LinkHolders(q)
  BY DistinctNames DEF LinkHolders
<1>3. LinkHolders(q)' = IF r = q THEN LinkHolders(q) \cup {l} ELSE LinkHolders(q)
  BY <1>2 DEF LinkHolders, Types, PointerTypes
<1>4. Cardinality(LinkHolders(q)')
        = Cardinality(LinkHolders(q)) + (IF r = q THEN 1 ELSE 0)
  <2>1. IsFiniteSet(LinkHolders(q)) /\ Cardinality(LinkHolders(q)) \in Nat
    BY HoldersFinite
  <2>2. Cardinality(LinkHolders(q) \cup {l}) = Cardinality(LinkHolders(q)) + 1
    BY <1>2, <2>1, FS_AddElement
  <2> QED BY <1>3, <2>1, <2>2
<1>5. refcount'[q] = refcount[q] + (IF r = q THEN 1 ELSE 0)
  BY DEF Types, Incref
<1> QED BY <1>1, <1>4, <1>5, HoldersFinite DEF RefcountExact

\* A Link lets its rendezvous go: close(), and the CLOSED cases.
LEMMA CountRelease ==
  ASSUME Types, RefcountExact, NEW l \in LinkObjs, NEW r \in RPs,
         ptr[l] = r, ptr' = [ptr EXCEPT ![l] = Null],
         refcount' = Decref(r), UNCHANGED slot
  PROVE  RefcountExact'
<1> SUFFICES ASSUME NEW q \in RPs
             PROVE  refcount'[q] = Cardinality(LinkHolders(q)')
                                   + Cardinality(SlotHolders(q)')
  BY DEF RefcountExact
<1>1. Cardinality(SlotHolders(q)') = Cardinality(SlotHolders(q))
  BY DEF SlotHolders
<1>2. q # Null /\ (r = q <=> l \in LinkHolders(q))
  BY DistinctNames DEF LinkHolders
<1>3. LinkHolders(q)' = LinkHolders(q) \ {l}
  BY <1>2 DEF LinkHolders, Types, PointerTypes
<1>4. Cardinality(LinkHolders(q)')
        = Cardinality(LinkHolders(q)) - (IF r = q THEN 1 ELSE 0)
  <2>1. IsFiniteSet(LinkHolders(q)) /\ Cardinality(LinkHolders(q)) \in Nat
    BY HoldersFinite
  <2>2. Cardinality(LinkHolders(q) \ {l})
          = IF l \in LinkHolders(q) THEN Cardinality(LinkHolders(q)) - 1
            ELSE Cardinality(LinkHolders(q))
    BY <2>1, FS_RemoveElement
  <2> QED BY <1>2, <1>3, <2>1, <2>2
<1>5. refcount'[q] = refcount[q] - (IF r = q THEN 1 ELSE 0)
  BY DEF Types, Decref
<1> QED BY <1>1, <1>4, <1>5, HoldersFinite DEF RefcountExact

\* An injective function from K onto T: equally many elements.
LEMMA SameCount ==
  ASSUME NEW K, IsFiniteSet(K), NEW T, NEW f \in [K -> T],
         \A j, k \in K : f[j] = f[k] => j = k,
         \A x \in T : \E k \in K : f[k] = x
  PROVE  IsFiniteSet(T) /\ Cardinality(T) = Cardinality(K)
<1>1. f \in Surjection(K, T)
  BY DEF Surjection
<1>2. f \in Injection(K, T)
  BY DEF Injection, IsInjective
<1> QED BY <1>1, <1>2, FS_Surjection

\* The references the portal of one isolate holds, and all the others.
LEMMA PortalSplit ==
  ASSUME NEW i, NEW r
  PROVE  LET rest == SlotHolders(r) \ PortalHolders(i, r)
         IN  /\ IsFiniteSet(rest) /\ Cardinality(rest) \in Nat
             /\ Cardinality(PortalHolders(i, r)) \in Nat
             /\ Cardinality(SlotHolders(r))
                  = Cardinality(rest) + Cardinality(PortalHolders(i, r))
<1> DEFINE rest == SlotHolders(r) \ PortalHolders(i, r)
<1>1. PortalHolders(i, r) \in SUBSET SlotHolders(r)
  BY DEF PortalHolders, SlotHolders
<1>2. SlotHolders(r) \cap PortalHolders(i, r) = PortalHolders(i, r)
  BY <1>1
<1>3. IsFiniteSet(SlotHolders(r)) /\ Cardinality(SlotHolders(r)) \in Nat
  BY HoldersFinite
<1>4. Cardinality(PortalHolders(i, r)) \in Nat
  BY <1>1, <1>3, FS_Subset, FS_CardinalityType
<1>5. /\ IsFiniteSet(rest)
      /\ Cardinality(rest)
           = Cardinality(SlotHolders(r)) - Cardinality(PortalHolders(i, r))
  BY <1>2, <1>3, FS_Difference
<1>6. Cardinality(rest) \in Nat
  BY <1>5, FS_CardinalityType
<1> QED BY <1>3, <1>4, <1>5, <1>6

\* Counting a disjoint union.
LEMMA DisjointSum ==
  ASSUME NEW S, IsFiniteSet(S), NEW T, IsFiniteSet(T), S \cap T = {}
  PROVE  /\ Cardinality(S \cup T) = Cardinality(S) + Cardinality(T)
         /\ Cardinality(S) \in Nat /\ Cardinality(T) \in Nat
<1>1. Cardinality({}) = 0
  BY FS_EmptySet
<1>2. Cardinality(S) \in Nat /\ Cardinality(T) \in Nat
  BY FS_CardinalityType
<1>3. Cardinality(S \cup T)
        = Cardinality(S) + Cardinality(T) - Cardinality(S \cap T)
  BY FS_Union
<1>4. Cardinality(S \cap T) = 0
  BY <1>1, Zenon
<1> QED BY <1>2, <1>3, <1>4

\* setLinks0: the portal's references are exchanged for those of the array.
LEMMA CountSetLinks ==
  ASSUME Types, RefcountExact, NEW i \in Isolates, NEW n \in 0..MaxPortal,
         NEW la \in [1..n -> LinkObjs], UNCHANGED ptr,
         refcount' = Repointed(i, [r \in RPs |->
                       Cardinality({k \in 1..n : ptr[la[k]] = r})]),
         slot' = [x \in Slots |->
                    IF x[1] # i THEN slot[x]
                    ELSE IF x[2] <= n THEN ptr[la[x[2]]] ELSE Null]
  PROVE  RefcountExact'
<1> SUFFICES ASSUME NEW r \in RPs
             PROVE  refcount'[r] = Cardinality(LinkHolders(r)')
                                   + Cardinality(SlotHolders(r)')
  BY DEF RefcountExact
<1> DEFINE K == {k \in 1..n : ptr[la[k]] = r}
           N == {<<i, k>> : k \in K}
           rest == SlotHolders(r) \ PortalHolders(i, r)
<1>0. r # Null
  BY DistinctNames
<1>1. LinkHolders(r)' = LinkHolders(r)
  BY DEF LinkHolders
<1>2. IsFiniteSet(K) /\ Cardinality(K) \in Nat
  <2>1. IsFiniteSet(1..n)
    <3>1. 1 \in Int /\ n \in Int
      BY FinitePools
    <3> QED BY <3>1, FS_Interval
  <2>2. K \in SUBSET (1..n)
    OBVIOUS
  <2> QED BY <2>1, <2>2, FS_Subset, FS_CardinalityType
<1>3. IsFiniteSet(N) /\ Cardinality(N) = Cardinality(K)
  <2> DEFINE f == [k \in K |-> <<i, k>>]
  <2>1. f \in [K -> N]
    OBVIOUS
  <2>2. \A j, k \in K : f[j] = f[k] => j = k
    OBVIOUS
  <2>3. \A x \in N : \E k \in K : f[k] = x
    OBVIOUS
  <2> HIDE DEF f, K, N
  <2> QED BY <1>2, <2>1, <2>2, <2>3, SameCount
<1>4. SlotHolders(r)' = rest \cup N
  <2>1. ASSUME NEW x \in Slots PROVE x \in SlotHolders(r)' <=> x \in rest \cup N
    <3>1. PICK j \in Isolates, k \in 1..MaxPortal : x = <<j, k>>
      BY DEF Slots
    <3>2. CASE j # i
      <4>1. x \notin N
        BY <3>1, <3>2
      <4>2. x \notin PortalHolders(i, r)
        BY <3>1, <3>2 DEF PortalHolders
      <4>3. slot'[x] = slot[x]
        BY <3>1, <3>2
      <4> QED BY <4>1, <4>2, <4>3 DEF SlotHolders
    <3>3. CASE j = i
      <4>1. x \notin rest
        BY <3>1, <3>3 DEF PortalHolders, SlotHolders
      <4>2. slot'[x] = IF k <= n THEN ptr[la[k]] ELSE Null
        BY <3>1, <3>3
      <4>3. x \in N <=> k \in 1..n /\ ptr[la[k]] = r
        BY <3>1, <3>3
      <4> QED BY <1>0, <4>1, <4>2, <4>3 DEF SlotHolders
    <3> QED BY <3>2, <3>3
  <2>2. SlotHolders(r)' \subseteq Slots /\ rest \subseteq Slots
    BY DEF SlotHolders
  <2>3. N \subseteq Slots
    BY FinitePools DEF Slots
  <2> QED BY <2>1, <2>2, <2>3
<1>5. rest \cap N = {}
  BY DEF SlotHolders, PortalHolders
<1>6. /\ IsFiniteSet(rest) /\ Cardinality(rest) \in Nat
      /\ Cardinality(PortalHolders(i, r)) \in Nat
      /\ Cardinality(SlotHolders(r))
           = Cardinality(rest) + Cardinality(PortalHolders(i, r))
  BY PortalSplit
<1>7. refcount'[r] = refcount[r] - Cardinality(PortalHolders(i, r)) + Cardinality(K)
  BY DEF Repointed
<1>8. refcount[r] = Cardinality(LinkHolders(r)) + Cardinality(SlotHolders(r))
  BY DEF RefcountExact
<1>9. Cardinality(LinkHolders(r)) \in Nat
  BY HoldersFinite
<1> HIDE DEF K, N, rest
<1>10. Cardinality(SlotHolders(r)') = Cardinality(rest) + Cardinality(N)
  BY <1>3, <1>4, <1>5, <1>6, DisjointSum
<1> QED BY <1>1, <1>2, <1>3, <1>6, <1>7, <1>8, <1>9, <1>10

\* getLinks0: the portal's references move into the fresh Links of the array.
LEMMA CountGetLinks ==
  ASSUME Types, RefcountExact, NEW i \in Isolates, NEW n \in 0..MaxPortal,
         NEW la, \A k \in 1..n : la[k] \in Fresh(i),
         \A j, k \in 1..n : la[j] = la[k] => j = k,
         refcount' = Repointed(i, [r \in RPs |->
                       Cardinality({k \in 1..n : slot[<<i, k>>] = r})]),
         ptr' = [l \in LinkObjs |->
                   IF \E k \in 1..n : la[k] = l
                   THEN slot[<<i, CHOOSE k \in 1..n : la[k] = l>>]
                   ELSE ptr[l]],
         slot' = [x \in Slots |-> IF x[1] = i THEN Null ELSE slot[x]]
  PROVE  RefcountExact'
<1> SUFFICES ASSUME NEW r \in RPs
             PROVE  refcount'[r] = Cardinality(LinkHolders(r)')
                                   + Cardinality(SlotHolders(r)')
  BY DEF RefcountExact
<1> DEFINE K == {k \in 1..n : slot[<<i, k>>] = r}
           N == {la[k] : k \in K}
           rest == SlotHolders(r) \ PortalHolders(i, r)
<1>0. r # Null
  BY DistinctNames
<1>1. \A k \in 1..n : la[k] \in LinkObjs /\ ptr[la[k]] = Null
  BY DEF Fresh
<1>2. IsFiniteSet(K) /\ Cardinality(K) \in Nat
  <2>1. IsFiniteSet(1..n)
    <3>1. 1 \in Int /\ n \in Int
      BY FinitePools
    <3> QED BY <3>1, FS_Interval
  <2>2. K \in SUBSET (1..n)
    OBVIOUS
  <2> QED BY <2>1, <2>2, FS_Subset, FS_CardinalityType
<1>3. IsFiniteSet(N) /\ Cardinality(N) = Cardinality(K)
  <2> DEFINE f == [k \in K |-> la[k]]
  <2>1. f \in [K -> N]
    OBVIOUS
  <2>2. \A j, k \in K : f[j] = f[k] => j = k
    OBVIOUS
  <2>3. \A x \in N : \E k \in K : f[k] = x
    OBVIOUS
  <2> HIDE DEF f, K, N
  <2> QED BY <1>2, <2>1, <2>2, <2>3, SameCount
<1>4. LinkHolders(r)' = LinkHolders(r) \cup N
  <2>1. ASSUME NEW l \in LinkObjs
        PROVE  ptr'[l] = r <=> ptr[l] = r \/ l \in N
    <3>1. CASE \E k \in 1..n : la[k] = l
      <4>1. PICK k \in 1..n : la[k] = l
        BY <3>1
      <4>2. (CHOOSE j \in 1..n : la[j] = l) = k
        BY <4>1
      <4>3. ptr'[l] = slot[<<i, k>>]
        BY <3>1, <4>2
      <4>4. ptr[l] # r
        BY <1>0, <1>1, <4>1
      <4>5. l \in N <=> k \in K
        BY <4>1
      <4> QED BY <4>3, <4>4, <4>5
    <3>2. CASE ~\E k \in 1..n : la[k] = l
      <4>1. ptr'[l] = ptr[l]
        BY <3>2
      <4>2. l \notin N
        BY <3>2
      <4> QED BY <4>1, <4>2
    <3> QED BY <3>1, <3>2
  <2>2. N \subseteq LinkObjs
    BY <1>1
  <2> HIDE DEF N
  <2> QED BY <2>1, <2>2 DEF LinkHolders
<1>5. LinkHolders(r) \cap N = {}
  <2>1. \A l \in LinkHolders(r) : ptr[l] = r
    BY DEF LinkHolders
  <2>2. \A l \in N : ptr[l] = Null
    BY <1>1
  <2> HIDE DEF N
  <2> QED BY <1>0, <2>1, <2>2
<1>6. /\ IsFiniteSet(rest) /\ Cardinality(rest) \in Nat
      /\ Cardinality(PortalHolders(i, r)) \in Nat
      /\ Cardinality(SlotHolders(r))
           = Cardinality(rest) + Cardinality(PortalHolders(i, r))
  BY PortalSplit
<1>7. refcount'[r] = refcount[r] - Cardinality(PortalHolders(i, r)) + Cardinality(K)
  BY DEF Repointed
<1>8. refcount[r] = Cardinality(LinkHolders(r)) + Cardinality(SlotHolders(r))
  BY DEF RefcountExact
<1>9. IsFiniteSet(LinkHolders(r)) /\ Cardinality(LinkHolders(r)) \in Nat
  BY HoldersFinite
<1>10. SlotHolders(r)' = rest
  <2>1. \A x \in Slots : slot'[x] = r <=> slot[x] = r /\ x[1] # i
    BY <1>0
  <2> QED BY <2>1 DEF SlotHolders, PortalHolders
<1> HIDE DEF K, N, rest
<1>11. Cardinality(LinkHolders(r)') = Cardinality(LinkHolders(r)) + Cardinality(N)
  BY <1>3, <1>4, <1>5, <1>9, DisjointSum
<1> QED BY <1>2, <1>3, <1>6, <1>7, <1>8, <1>9, <1>10, <1>11

\* midp_links_shutdown: the portal lets go of its references.
LEMMA CountShutdown ==
  ASSUME RefcountExact, NEW i \in Isolates, UNCHANGED ptr,
         refcount' = Repointed(i, [r \in RPs |-> 0]),
         slot' = [x \in Slots |-> IF x[1] = i THEN Null ELSE slot[x]]
  PROVE  RefcountExact'
<1> SUFFICES ASSUME NEW r \in RPs
             PROVE  refcount'[r] = Cardinality(LinkHolders(r)')
                                   + Cardinality(SlotHolders(r)')
  BY DEF RefcountExact
<1> DEFINE rest == SlotHolders(r) \ PortalHolders(i, r)
<1>1. r # Null
  BY DistinctNames
<1>2. LinkHolders(r)' = LinkHolders(r)
  BY DEF LinkHolders
<1>3. SlotHolders(r)' = rest
  <2>1. \A x \in Slots : slot'[x] = r <=> slot[x] = r /\ x[1] # i
    BY <1>1
  <2> QED BY <2>1 DEF SlotHolders, PortalHolders
<1>4. refcount'[r] = refcount[r] - Cardinality(PortalHolders(i, r)) + 0
  BY DEF Repointed
<1>5. refcount[r] = Cardinality(LinkHolders(r)) + Cardinality(SlotHolders(r))
  BY DEF RefcountExact
<1>6. /\ Cardinality(rest) \in Nat /\ Cardinality(PortalHolders(i, r)) \in Nat
      /\ Cardinality(SlotHolders(r))
           = Cardinality(rest) + Cardinality(PortalHolders(i, r))
  BY PortalSplit
<1>7. Cardinality(LinkHolders(r)) \in Nat
  BY HoldersFinite
<1> HIDE DEF rest
<1> QED BY <1>2, <1>3, <1>4, <1>5, <1>6, <1>7

\* close() and finalize().
LEMMA CountClose ==
  ASSUME Types, RefcountExact, NEW l \in LinkObjs, ptr[l] # Null, NEW i,
         CloseLink(l, i)
  PROVE  RefcountExact'
<1>1. ptr[l] \in RPs
  BY DEF Types, PointerTypes
<1>2. \/ UNCHANGED <<refcount, ptr, slot>>
      \/ /\ ptr' = [ptr EXCEPT ![l] = Null]
         /\ refcount' = Decref(ptr[l]) /\ UNCHANGED slot
  BY DEF CloseLink, Crash, rpVars, portalVars
<1> QED BY <1>1, <1>2, CountFrame, CountRelease

\* receive0 keeps the counts.
LEMMA CountReceive ==
  ASSUME Types, RefcountExact, NEW t \in Threads, Receive0(t)
  PROVE  RefcountExact'
<1>1. CASE \/ CallOnClosed(t, "receive")
           \/ CallFromWrongIsolate(t, "receive", receiver)
  BY <1>1, CountFrame DEF CallOnClosed, CallFromWrongIsolate, rpVars, portalVars
<1>2. ASSUME NEW r \in RPs, \/ ReceiveFirst(t, r) \/ ReceiveAgain(t, r)
                            \/ BeginCopy(t, r)
      PROVE  RefcountExact'
  BY <1>2, CountFrame DEF ReceiveFirst, ReceiveAgain, BeginCopy, rpVars,
     portalVars
<1>3. ASSUME NEW r \in RPs, NEW ok \in BOOLEAN, EndCopy(t, r, ok)
      PROVE  RefcountExact'
  BY <1>3, CountFrame DEF EndCopy, portalVars
<1>4. ASSUME NEW r \in RPs, NEW l \in LinkObjs, ReceiveLink(t, r, l)
      PROVE  RefcountExact'
  <2> DEFINE q == ptr[msg[r]]
  <2>1. CASE Crash("nullRendezvous")
    BY <2>1, CountFrame DEF Crash, rpVars, portalVars
  <2>2. CASE ~Crash("nullRendezvous")
    <3>1. /\ ptr[l] = Null /\ msg[r] \in LinkObjs /\ q # Null
          /\ ptr' = [ptr EXCEPT ![l] = q]
          /\ refcount' = Incref(q) /\ UNCHANGED slot
      BY <1>4, <2>2, Placement DEF ReceiveLink, Fresh, portalVars
    <3>2. q \in RPs
      BY <3>1 DEF Types, PointerTypes
    <3> QED BY <3>1, <3>2, CountAcquire
  <2> QED BY <2>1, <2>2
<1>5. ASSUME NEW r \in RPs, ReceiveOnClosed(t, r)
      PROVE  RefcountExact'
  <2>1. lnk[t] \in LinkObjs /\ ptr[lnk[t]] = r
    BY <1>5 DEF ReceiveOnClosed, Receives, Runs, Types, CallTypes, CallShape
  <2>2. \/ UNCHANGED <<refcount, ptr, slot>>
        \/ /\ ptr' = [ptr EXCEPT ![lnk[t]] = Null]
           /\ refcount' = Decref(r) /\ UNCHANGED slot
    BY <1>5 DEF ReceiveOnClosed, Crash, rpVars, portalVars
  <2> QED BY <2>1, <2>2, CountFrame, CountRelease
<1> QED BY <1>1, <1>2, <1>3, <1>4, <1>5 DEF Receive0

\* send0 keeps the counts.
LEMMA CountSend ==
  ASSUME Types, RefcountExact, NEW t \in Threads, Send0(t)
  PROVE  RefcountExact'
<1>1. CASE \/ CallOnClosed(t, "send")
           \/ CallFromWrongIsolate(t, "send", sender)
  BY <1>1, CountFrame DEF CallOnClosed, CallFromWrongIsolate, rpVars, portalVars
<1>2. ASSUME NEW r \in RPs, \/ SendFirst(t, r) \/ SendToReceiver(t, r)
                            \/ SendAgain(t, r) \/ SendDone(t, r)
      PROVE  RefcountExact'
  BY <1>2, CountFrame DEF SendFirst, SendToReceiver, SendAgain, SendDone,
     rpVars, portalVars
<1>3. ASSUME NEW r \in RPs, SendOnClosed(t, r)
      PROVE  RefcountExact'
  <2>1. lnk[t] \in LinkObjs /\ ptr[lnk[t]] = r
    BY <1>3 DEF SendOnClosed, Sends, Runs, Types, CallTypes, CallShape
  <2>2. /\ ptr' = [ptr EXCEPT ![lnk[t]] = Null]
        /\ refcount' = Decref(r) /\ UNCHANGED slot
    BY <1>3 DEF SendOnClosed, portalVars
  <2> QED BY <2>1, <2>2, CountRelease
<1> QED BY <1>1, <1>2, <1>3 DEF Send0

\* Every step keeps the counts.
LEMMA CountInductive ==
  ASSUME Types, RefcountExact, [Next]_vars
  PROVE  RefcountExact'
<1>1. ASSUME NEW t \in Threads, NEW l \in LinkObjs,
             \/ StartReceive(t, l) \/ \E m \in Messages : StartSend(t, l, m)
      PROVE  RefcountExact'
  BY <1>1, CountFrame DEF StartReceive, StartSend, Begin, rpVars, portalVars
<1>2. ASSUME NEW t \in Threads, NEW l \in LinkObjs, NEW r \in RPs,
             NEW e \in Endpoints, NewLink(t, l, r, e)
      PROVE  RefcountExact'
  <2>1. /\ ptr[l] = Null /\ ptr' = [ptr EXCEPT ![l] = r]
        /\ refcount' = Incref(r) /\ UNCHANGED slot
    BY <1>2 DEF NewLink, Fresh, portalVars
  <2> QED BY <2>1, CountAcquire
<1>3. ASSUME NEW t \in Threads, NEW l \in LinkObjs, Close(t, l)
      PROVE  RefcountExact'
  BY <1>3, CountClose DEF Close
<1>4. ASSUME NEW l \in LinkObjs, Finalize(l)
      PROVE  RefcountExact'
  BY <1>4, CountClose DEF Finalize
<1>5. ASSUME NEW t \in Threads, \/ StartGetLinks(t) \/ GetLinkCount(t)
                                \/ EndThread(t)
      PROVE  RefcountExact'
  BY <1>5, CountFrame DEF StartGetLinks, GetLinkCount, EndThread, Begin, rpVars,
     portalVars
<1>6. ASSUME NEW t \in Threads, NEW i \in Isolates, NEW n \in 0..MaxPortal,
             NEW la \in [1..n -> LinkObjs], NEW isNull,
             SetLinks(t, i, n, la, isNull)
      PROVE  RefcountExact'
  <2>1. \/ UNCHANGED <<refcount, ptr, slot>>
        \/ /\ UNCHANGED ptr
           /\ refcount' = Repointed(i, [r \in RPs |->
                            Cardinality({k \in 1..n : ptr[la[k]] = r})])
           /\ slot' = [x \in Slots |->
                         IF x[1] # i THEN slot[x]
                         ELSE IF x[2] <= n THEN ptr[la[x[2]]] ELSE Null]
    BY <1>6 DEF SetLinks, Crash, rpVars, portalVars
  <2> QED BY <2>1, CountFrame, CountSetLinks
<1>7. ASSUME NEW t \in Threads, NEW la, GetLinks(t, la)
      PROVE  RefcountExact'
  <2> DEFINE i == ThreadIso[t]
             n == IF count[i] > 0 THEN len[t] ELSE 0
  <2>1. i \in Isolates /\ len[t] \in 0..MaxPortal /\ n \in 0..len[t]
    BY Placement, FinitePools DEF Types, CallTypes
  <2>2. n \in 0..MaxPortal
    BY <2>1, FinitePools
  <2>3. /\ \A k \in 1..n : la[k] \in Fresh(i)
        /\ \A j, k \in 1..n : la[j] = la[k] => j = k
    <3>1. \A k \in 1..n : k \in 1..len[t]
      BY <2>1
    <3> HIDE DEF n
    <3> QED BY <1>7, <3>1 DEF GetLinks
  <2>4. \/ UNCHANGED <<refcount, ptr, slot>>
        \/ /\ refcount' = Repointed(i, [r \in RPs |->
                            Cardinality({k \in 1..n : slot[<<i, k>>] = r})])
           /\ ptr' = [l \in LinkObjs |->
                        IF \E k \in 1..n : la[k] = l
                        THEN slot[<<i, CHOOSE k \in 1..n : la[k] = l>>]
                        ELSE ptr[l]]
           /\ slot' = [x \in Slots |-> IF x[1] = i THEN Null ELSE slot[x]]
    BY <1>7, Zenon DEF GetLinks, Crash, rpVars, portalVars
  <2> HIDE DEF i, n
  <2> QED BY <2>1, <2>2, <2>3, <2>4, CountFrame, CountGetLinks
<1>8. ASSUME NEW i \in Isolates, Shutdown(i)
      PROVE  RefcountExact'
  <2>1. \/ UNCHANGED <<refcount, ptr, slot>>
        \/ /\ UNCHANGED ptr /\ refcount' = Repointed(i, [r \in RPs |-> 0])
           /\ slot' = [x \in Slots |-> IF x[1] = i THEN Null ELSE slot[x]]
    BY <1>8 DEF Shutdown, Crash, rpVars, portalVars
  <2> QED BY <2>1, CountFrame, CountShutdown
<1>9. ASSUME NEW i, StopIsolate(i) \/ TaskFinalized(i)
      PROVE  RefcountExact'
  BY <1>9, CountFrame DEF StopIsolate, TaskFinalized, rpVars, portalVars
<1>10. CASE UNCHANGED vars
  BY <1>10, CountFrame DEF vars, rpVars, portalVars
<1>11. ASSUME NEW t \in Threads, Calls(t)
       PROVE  RefcountExact'
  BY <1>1, <1>2, <1>3, <1>5, <1>6, <1>11, Placement DEF Calls
<1>12. ASSUME NEW t \in Threads, ThreadStep(t)
       PROVE  RefcountExact'
  BY <1>5, <1>7, <1>12, CountReceive, CountSend DEF ThreadStep
<1> QED
  BY <1>4, <1>5, <1>8, <1>9, <1>10, <1>11, <1>12 DEF Next

-----------------------------------------------------------------------------
\* Nothing is held at the start.
LEMMA InitCounts ==
  ASSUME Init
  PROVE  Types /\ RefcountExact
<1>1. Types
  <2>1. RendezvousTypes
    BY DEF Init, RendezvousTypes, States, Nothing
  <2>2. PointerTypes
    BY FinitePools DEF Init, PointerTypes
  <2>3. CallTypes
    BY FinitePools DEF Init, CallTypes, Ops, Outcomes
  <2>4. VMTypes /\ CallShape
    BY DistinctNames DEF Init, VMTypes, CallShape, Faults
  <2>5. refcount \in [RPs -> Int]
    BY DEF Init
  <2> QED BY <2>1, <2>2, <2>3, <2>4, <2>5 DEF Types
<1>2. ASSUME NEW r \in RPs
      PROVE  LinkHolders(r) = {} /\ SlotHolders(r) = {}
  BY DistinctNames DEF Init, LinkHolders, SlotHolders
<1>3. ASSUME NEW r \in RPs
      PROVE  refcount[r] = Cardinality(LinkHolders(r))
                           + Cardinality(SlotHolders(r))
  <2>1. Cardinality(LinkHolders(r)) = 0 /\ Cardinality(SlotHolders(r)) = 0
    BY <1>2, FS_EmptySet, Zenon
  <2>2. refcount[r] = 0
    BY DEF Init
  <2> QED BY <2>1, <2>2
<1> QED BY <1>1, <1>3 DEF RefcountExact

\* Types with exact counts is the whole type invariant: a count is a
\* cardinality.
LEMMA CountsAreNatural ==
  ASSUME Types, RefcountExact
  PROVE  TypeOK
<1>1. \A r \in RPs : refcount[r] \in Nat
  BY HoldersFinite DEF RefcountExact
<1>2. refcount \in [RPs -> Nat]
  BY <1>1 DEF Types
<1> QED BY <1>2 DEF TypeOK, Types

\* In every behaviour of the natives, close() racing transfers, portals and
\* dying isolates included, each rendezvous counts exactly the Links and
\* portal entries that point to it: rp_decref frees it with the last one and
\* not before.
THEOREM RefcountsExact == Spec => []RefcountExact
<1>1. Init => Types /\ RefcountExact
  BY InitCounts
<1>2. Types /\ RefcountExact /\ [Next]_vars => (Types /\ RefcountExact)'
  BY TypesInductive, CountInductive
<1> QED BY <1>1, <1>2, PTL DEF Spec

\* Every variable keeps its type; in particular no reference count of
\* midp_link.c goes below zero.
THEOREM TypeCorrect == Spec => []TypeOK
<1>1. Init => Types /\ RefcountExact
  BY InitCounts
<1>2. Types /\ RefcountExact /\ [Next]_vars => (Types /\ RefcountExact)'
  BY TypesInductive, CountInductive
<1>3. Types /\ RefcountExact => TypeOK
  BY CountsAreNatural
<1> QED BY <1>1, <1>2, <1>3, PTL DEF Spec

-----------------------------------------------------------------------------
(* The handshake of send0 and receive0: wake-ups, agreement on what was     *)
(* transferred, stranded messages and owners.                               *)

\* Why a thread is blocked: the native it is in saw a state in which it has to
\* wait, waits for that very rendezvous (or portal), and would see it again.
WaitsToReceive(t) ==
  /\ op[t] = "receive" /\ waiting[t] = ptr[lnk[t]]
  /\ state[ptr[lnk[t]]] \in {"RECEIVING", "DONE"}
WaitsToSend(t) ==
  /\ op[t] = "send" /\ waiting[t] = ptr[lnk[t]]
  /\ \/ state[ptr[lnk[t]]] \in {"SENDING", "RENDEZVOUS"}
     \/ state[ptr[lnk[t]]] = "DONE" /\ msg[ptr[lnk[t]]] # arg[t]
WaitsForLinks(t) ==
  /\ op[t] = "getLinkCount" /\ waiting[t] = ThreadIso[t]
  /\ count[ThreadIso[t]] = -1
BlockedForAReason ==
  \A t \in Threads :
    waiting[t] # Null => WaitsToReceive(t) \/ WaitsToSend(t) \/ WaitsForLinks(t)

\* A native is only ever called on a Link of the caller's own isolate.
OwnLinks == \A t \in Threads : lnk[t] # Null => LinkIso[lnk[t]] = ThreadIso[t]

\* While receive0 is in copy(), only a finalizer may have come in between.
CopyUndisturbed ==
  busy \in Threads =>
    /\ ptr[lnk[busy]] # Null
    /\ LET r == ptr[lnk[busy]]
       IN /\ unacked[r] = Nothing
          /\ \/ state[r] \in {"SENDING", "RENDEZVOUS"} /\ msg[r] = arg[busy]
             \/ state[r] = "CLOSED" /\ msg[r] \in {arg[busy], Null}

\* SendReceiptAgreement, said of freed rendezvous points as well.
Owed(r) == \E m \in Messages : unacked[r] = Just(m) /\ msg[r] \in {m, Null}
Agreement ==
  \A r \in RPs :
    /\ state[r] = "DONE" /\ retcode[r] = "OK" => Owed(r)
    /\ state[r] = "CLOSED" =>
         unacked[r] \in {Nothing} \cup {Just(m) : m \in Messages}
    /\ ~(state[r] = "DONE" /\ retcode[r] = "OK") /\ state[r] # "CLOSED" =>
         unacked[r] = Nothing

SendOwner(r) == \E t \in Threads : /\ op[t] = "send" /\ arg[t] = msg[r]
                                   /\ ptr[lnk[t]] = r /\ ThreadIso[t] = sender[r]
ReceiveOwner(r) == \E t \in Threads : /\ op[t] = "receive" /\ ptr[lnk[t]] = r
                                      /\ ThreadIso[t] = receiver[r]
\* A message was put in and its send0 has not ended.
Underway(r) == state[r] \in {"SENDING", "RENDEZVOUS"} \/ (state[r] = "DONE" /\ msg[r] # Null)
OwnerAt(r) ==
  /\ Underway(r) => sender[r] \in dying \/ SendOwner(r)
  /\ state[r] = "RECEIVING" => receiver[r] \in dying \/ ReceiveOwner(r)
Owners == \A r \in RPs : OwnerAt(r)

\* The sender of the message in copy() is still inside send0 with it, or being
\* stopped, whatever finalizers do meanwhile.
CopyOwner(t) == \E s \in Threads : /\ op[s] = "send" /\ arg[s] = arg[t]
                                  /\ ptr[lnk[s]] = ptr[lnk[t]]
                                  /\ ThreadIso[s] = sender[ptr[lnk[t]]]
CopyHasSender ==
  busy \in Threads => sender[ptr[lnk[busy]]] \in dying \/ CopyOwner(busy)

\* No link joins an isolate with itself.
DistinctEnds == \A e \in Endpoints : e[1] # e[2]

\* StrandedMessageHasCleaner, said of freed rendezvous points as well.
HasCleaner(r) == \E l \in LinkObjs : ptr[l] = r /\ LinkIso[l] = sender[r]
Cleaners == \A r \in RPs : msg[r] # Null => HasCleaner(r)

\* The ends of a rendezvous point that was ever allocated.
Ends == \A r \in RPs : sender[r] # Null => <<sender[r], receiver[r]>> \in Endpoints

-----------------------------------------------------------------------------
(* Blocked threads                                                         *)

\* What a Link or a portal holds is live.
LEMMA HeldIsLive ==
  ASSUME RefcountExact, NEW r \in RPs, LinkHolders(r) # {} \/ SlotHolders(r) # {}
  PROVE  Live(r)
<1>1. /\ IsFiniteSet(LinkHolders(r)) /\ Cardinality(LinkHolders(r)) \in Nat
      /\ IsFiniteSet(SlotHolders(r)) /\ Cardinality(SlotHolders(r)) \in Nat
  BY HoldersFinite
<1>2. Cardinality(LinkHolders(r)) # 0 \/ Cardinality(SlotHolders(r)) # 0
  BY <1>1, FS_EmptySet
<1>3. refcount[r] = Cardinality(LinkHolders(r)) + Cardinality(SlotHolders(r))
  BY DEF RefcountExact
<1> QED BY <1>1, <1>2, <1>3 DEF Live

\* A point that may be allocated is held by no Link.
LEMMA UnheldIsFree ==
  ASSUME Types, RefcountExact, NEW r \in RPs, ~Live(r)
  PROVE  \A l \in LinkObjs : ptr[l] # r
  BY HeldIsLive DEF LinkHolders

\* getLinks0 fills Links that no call and no message uses.
LEMMA GetLinksFills ==
  ASSUME Types, NEW t \in Threads, NEW la \in [1..len[t] -> LinkObjs], GetLinks(t, la)
  PROVE  /\ \A l \in LinkObjs : InUse(l) \/ ptr[l] # Null => ptr'[l] = ptr[l]
         /\ ptr' \in [LinkObjs -> RPs \cup {Null}]
<1> DEFINE i == ThreadIso[t]
           n == IF count[i] > 0 THEN len[t] ELSE 0
<1>1. i \in Isolates /\ len[t] \in 0..MaxPortal /\ n \in 0..len[t]
  BY Placement, FinitePools DEF Types, CallTypes
<1>2. \A k \in 1..n : la[k] \in Fresh(i)
  <2>1. \A k \in 1..n : k \in 1..len[t]
    BY <1>1
  <2> HIDE DEF n
  <2> QED BY <2>1 DEF GetLinks
<1>3. \/ UNCHANGED ptr
      \/ ptr' = [l \in LinkObjs |->
                   IF \E k \in 1..n : la[k] = l
                   THEN slot[<<i, CHOOSE k \in 1..n : la[k] = l>>]
                   ELSE ptr[l]]
  BY Zenon DEF GetLinks, Crash
<1> HIDE DEF n, i
<1>4. ASSUME NEW l \in LinkObjs, InUse(l) \/ ptr[l] # Null PROVE ptr'[l] = ptr[l]
  <2>1. \A k \in 1..n : la[k] # l
    BY <1>2, <1>4 DEF Fresh
  <2> QED BY <1>3, <2>1
<1>5. ptr' \in [LinkObjs -> RPs \cup {Null}]
  BY GetLinksTypes DEF Types, PointerTypes
<1> QED BY <1>4, <1>5

\* The native of thread t has returned.
Returned(t) == /\ op' = [op EXCEPT ![t] = "idle"]
               /\ lnk' = [lnk EXCEPT ![t] = Null]
               /\ arg' = [arg EXCEPT ![t] = Null]

\* Steps of receive0: whoever is still blocked has a reason to be.
LEMMA BlockedReceive ==
  ASSUME Types, BlockedForAReason, NEW t \in Threads, Receive0(t)
  PROVE  BlockedForAReason'
<1> USE DistinctNames DEF BlockedForAReason, WaitsToReceive, WaitsToSend, WaitsForLinks
<1>0. /\ \A u \in Threads : /\ op[u] \in Ops /\ lnk[u] \in LinkObjs \cup {Null}
                            /\ op[u] \in {"send", "receive"} => lnk[u] \in LinkObjs
                            /\ waiting[u] \in RPs \cup Isolates \cup {Null}
      /\ \A l \in LinkObjs : ptr[l] \in RPs \cup {Null}
  BY DEF Types, CallTypes, CallShape, PointerTypes
<1>1. ASSUME CallOnClosed(t, "receive") \/ CallFromWrongIsolate(t, "receive", receiver)
      PROVE  BlockedForAReason'
  BY <1>0, <1>1 DEF CallOnClosed, CallFromWrongIsolate, Return, Runs, rpVars, portalVars, Types, CallTypes
<1>2. ASSUME NEW r \in RPs, ReceiveFirst(t, r) PROVE BlockedForAReason'
  BY <1>0, <1>2 DEF ReceiveFirst, Receives, Runs, Wait, Idle, portalVars, Types, CallTypes, RendezvousTypes
<1>3. ASSUME NEW r \in RPs, ReceiveAgain(t, r) PROVE BlockedForAReason'
  BY <1>0, <1>3 DEF ReceiveAgain, Receives, Runs, Wait, rpVars, portalVars, Types, CallTypes, RendezvousTypes
<1>4. ASSUME NEW r \in RPs, BeginCopy(t, r) PROVE BlockedForAReason'
  BY <1>0, <1>4 DEF BeginCopy, Receives, Runs, rpVars, portalVars, Types, CallTypes, RendezvousTypes
<1>5. ASSUME NEW r \in RPs, NEW ok \in BOOLEAN, EndCopy(t, r, ok) PROVE BlockedForAReason'
  <2>1. op[t] = "receive" /\ ptr[lnk[t]] = r
    BY <1>5 DEF EndCopy, Types, CallShape
  <2>2. Returned(t) /\ UNCHANGED <<ptr, msg, count>>
        /\ waiting' = Signalled(r) /\ state' = [state EXCEPT ![r] = "DONE"]
    BY <1>5 DEF EndCopy, Transferred, Returned, Return, portalVars
  <2> QED BY <1>0, <2>1, <2>2 DEF Signalled, Types, CallTypes, RendezvousTypes, Returned
<1>6. ASSUME NEW r \in RPs, ReceiveOnClosed(t, r) PROVE BlockedForAReason'
  BY <1>0, <1>6 DEF ReceiveOnClosed, Crash, Receives, Runs, Return, rpVars, portalVars, callVars, Types, CallTypes, RendezvousTypes, PointerTypes
<1>7. ASSUME NEW r \in RPs, NEW l \in LinkObjs, ReceiveLink(t, r, l) PROVE BlockedForAReason'
  <2>1. CASE Crash("nullRendezvous")
    BY <2>1 DEF Crash, rpVars, portalVars, callVars
  <2>2. CASE ~Crash("nullRendezvous")
    <3>1. op[t] = "receive" /\ ptr[lnk[t]] = r /\ waiting[t] = Null
      BY <1>7 DEF ReceiveLink, Receives, Runs
    <3>2. Returned(t) /\ UNCHANGED <<msg, count>>
          /\ waiting' = Signalled(r) /\ state' = [state EXCEPT ![r] = "DONE"]
          /\ ptr' = [ptr EXCEPT ![l] = ptr[msg[r]]]
      BY <1>7, <2>2 DEF ReceiveLink, Transferred, Returned, Return, portalVars
    <3>3. \A u \in Threads : lnk[u] # l
      BY <1>7 DEF ReceiveLink, Fresh, InUse
    <3> QED BY <1>0, <3>1, <3>2, <3>3 DEF Signalled, Types, CallTypes, RendezvousTypes, PointerTypes, Returned
  <2> QED BY <2>1, <2>2
<1> QED BY <1>1, <1>2, <1>3, <1>4, <1>5, <1>6, <1>7 DEF Receive0

\* Steps of send0.
LEMMA BlockedSend ==
  ASSUME Types, BlockedForAReason, NEW t \in Threads, Send0(t)
  PROVE  BlockedForAReason'
<1> USE DistinctNames DEF BlockedForAReason, WaitsToReceive, WaitsToSend, WaitsForLinks
<1>0. /\ \A u \in Threads : /\ op[u] \in Ops /\ lnk[u] \in LinkObjs \cup {Null}
                            /\ op[u] \in {"send", "receive"} => lnk[u] \in LinkObjs
                            /\ waiting[u] \in RPs \cup Isolates \cup {Null}
      /\ \A l \in LinkObjs : ptr[l] \in RPs \cup {Null}
  BY DEF Types, CallTypes, CallShape, PointerTypes
<1>1. ASSUME CallOnClosed(t, "send") \/ CallFromWrongIsolate(t, "send", sender)
      PROVE  BlockedForAReason'
  BY <1>0, <1>1 DEF CallOnClosed, CallFromWrongIsolate, Return, Runs, rpVars, portalVars, Types, CallTypes
<1>2. ASSUME NEW r \in RPs, SendFirst(t, r) PROVE BlockedForAReason'
  BY <1>0, <1>2 DEF SendFirst, Sends, Runs, Wait, Idle, portalVars, Types, CallTypes, RendezvousTypes
<1>3. ASSUME NEW r \in RPs, SendAgain(t, r) PROVE BlockedForAReason'
  BY <1>0, <1>3 DEF SendAgain, OwnMessage, Sends, Runs, Wait, rpVars, portalVars, Types, CallTypes, RendezvousTypes
<1>4. ASSUME NEW r \in RPs, SendToReceiver(t, r) PROVE BlockedForAReason'
  BY <1>0, <1>4 DEF SendToReceiver, Signalled, Sends, Runs, SignalAndWait, portalVars, Types, CallTypes, RendezvousTypes
<1>5. ASSUME NEW r \in RPs, SendDone(t, r) PROVE BlockedForAReason'
  <2>1. op[t] = "send" /\ ptr[lnk[t]] = r
    BY <1>5 DEF SendDone, Sends, Runs
  <2>2. Returned(t) /\ UNCHANGED <<ptr, count>>
        /\ msg' = [msg EXCEPT ![r] = Null]
        /\ waiting' = Signalled(r) /\ state' = [state EXCEPT ![r] = "IDLE"]
    BY <1>5 DEF SendDone, Returned, Return, portalVars
  <2> QED BY <1>0, <2>1, <2>2 DEF Signalled, Types, CallTypes, RendezvousTypes, Returned
<1>6. ASSUME NEW r \in RPs, SendOnClosed(t, r) PROVE BlockedForAReason'
  BY <1>0, <1>6 DEF SendOnClosed, Sends, Runs, Return, portalVars, Types, CallTypes, RendezvousTypes, PointerTypes
<1> QED BY <1>1, <1>2, <1>3, <1>4, <1>5, <1>6 DEF Send0

\* close() and finalize(): they signal everybody on the rendezvous they
\* close.
LEMMA BlockedClose ==
  ASSUME Types, BlockedForAReason, NEW l \in LinkObjs, ptr[l] # Null, NEW i,
         CloseLink(l, i)
  PROVE  BlockedForAReason'
<1> USE DistinctNames DEF BlockedForAReason, WaitsToReceive, WaitsToSend, WaitsForLinks
<1>0. /\ \A u \in Threads : /\ op[u] \in Ops /\ lnk[u] \in LinkObjs \cup {Null}
                            /\ op[u] \in {"send", "receive"} => lnk[u] \in LinkObjs
                            /\ waiting[u] \in RPs \cup Isolates \cup {Null}
      /\ \A k \in LinkObjs : ptr[k] \in RPs \cup {Null}
  BY DEF Types, CallTypes, CallShape, PointerTypes
<1>1. CASE Crash("staleRefid")
  BY <1>1 DEF Crash, rpVars, portalVars, callVars
<1>2. CASE ~Crash("staleRefid")
  <2> DEFINE r == ptr[l]
  <2>1. /\ msg' = [msg EXCEPT ![r] = LeftOnClose(r, i)]
        /\ state' = [state EXCEPT ![r] = "CLOSED"]
        /\ waiting' = Signalled(r)
        /\ ptr' = [ptr EXCEPT ![l] = Null]
        /\ UNCHANGED <<op, lnk, arg, count>>
    BY <1>2 DEF CloseLink, callVars, portalVars
  <2>2. r \in RPs
    BY <1>0
  <2> HIDE DEF r
  <2>3. ptr[l] = r
    BY DEF r
  <2> QED BY <1>0, <2>1, <2>2, <2>3 DEF Signalled, Types, CallTypes, RendezvousTypes, PointerTypes
<1> QED BY <1>1, <1>2

\* Every step leaves only threads blocked that have a reason to be.
LEMMA BlockedInductive ==
  ASSUME Types, RefcountExact, BlockedForAReason, [Next]_vars
  PROVE  BlockedForAReason'
<1> USE DistinctNames DEF BlockedForAReason, WaitsToReceive, WaitsToSend, WaitsForLinks
<1>0. /\ \A u \in Threads : /\ op[u] \in Ops /\ lnk[u] \in LinkObjs \cup {Null}
                            /\ op[u] \in {"send", "receive"} => lnk[u] \in LinkObjs
                            /\ waiting[u] \in RPs \cup Isolates \cup {Null}
                            /\ ThreadIso[u] \in Isolates
      /\ \A k \in LinkObjs : ptr[k] \in RPs \cup {Null}
  BY Placement DEF Types, CallTypes, CallShape, PointerTypes
<1>1. ASSUME NEW t \in Threads, NEW l \in LinkObjs, StartReceive(t, l)
      PROVE  BlockedForAReason'
  BY <1>0, <1>1 DEF StartReceive, Begin, CanCall, Types, CallTypes, rpVars, portalVars
<1>2. ASSUME NEW t \in Threads, NEW l \in LinkObjs, NEW m \in Messages, StartSend(t, l, m)
      PROVE  BlockedForAReason'
  BY <1>0, <1>2 DEF StartSend, Begin, CanCall, Types, CallTypes, rpVars, portalVars
<1>3. ASSUME NEW t \in Threads, StartGetLinks(t)
      PROVE  BlockedForAReason'
  BY <1>0, <1>3 DEF StartGetLinks, Begin, CanCall, Types, CallTypes, rpVars, portalVars
<1>4. ASSUME NEW t \in Threads, NEW l \in LinkObjs, NEW r \in RPs,
             NEW e \in Endpoints, NewLink(t, l, r, e)
      PROVE  BlockedForAReason'
  <2>1. \A u \in Threads : lnk[u] # l /\ (lnk[u] \in LinkObjs => ptr[lnk[u]] # r)
    BY <1>0, <1>4, UnheldIsFree DEF NewLink, Fresh, InUse
  <2> QED BY <1>0, <1>4, <2>1 DEF NewLink, Types, CallTypes, RendezvousTypes, PointerTypes, portalVars, callVars
<1>5. ASSUME NEW t \in Threads, NEW l \in LinkObjs, Close(t, l)
      PROVE  BlockedForAReason'
  BY <1>5, BlockedClose DEF Close
<1>6. ASSUME NEW l \in LinkObjs, Finalize(l)
      PROVE  BlockedForAReason'
  BY <1>6, BlockedClose DEF Finalize
<1>7. ASSUME NEW t \in Threads, NEW i \in Isolates, NEW n \in 0..MaxPortal,
             NEW la \in [1..n -> LinkObjs], NEW isNull \in BOOLEAN,
             SetLinks(t, i, n, la, isNull)
      PROVE  BlockedForAReason'
  <2>1. \/ UNCHANGED <<state, msg, ptr, op, lnk, arg, count, waiting>>
        \/ /\ UNCHANGED <<state, msg, ptr, op, lnk, arg>>
           /\ count' = [count EXCEPT ![i] = IF isNull THEN -1 ELSE n]
           /\ waiting' = Signalled(i)
    BY <1>7 DEF SetLinks, Crash, rpVars, portalVars, callVars
  <2> QED BY <1>0, <2>1 DEF Signalled, Types, PointerTypes
<1>8. ASSUME NEW t \in Threads, GetLinkCount(t)
      PROVE  BlockedForAReason'
  BY <1>0, <1>8 DEF GetLinkCount, Runs, Wait, Types, CallTypes, rpVars, portalVars
<1>9. ASSUME NEW t \in Threads, NEW la \in [1..len[t] -> LinkObjs], GetLinks(t, la)
      PROVE  BlockedForAReason'
  <2>1. \A u \in Threads : lnk[u] \in LinkObjs => ptr'[lnk[u]] = ptr[lnk[u]]
    BY <1>9, GetLinksFills DEF InUse
  <2>2. /\ UNCHANGED <<state, msg, waiting>>
        /\ UNCHANGED count \/ count' = [count EXCEPT ![ThreadIso[t]] = -1]
        /\ UNCHANGED <<op, lnk, arg>> \/ Returned(t)
        /\ waiting[t] = Null
    BY <1>9 DEF GetLinks, Crash, rpVars, portalVars, callVars, Returned, Return, Runs
  <2> QED BY <1>0, <2>1, <2>2 DEF Returned, Types, CallTypes, PointerTypes
<1>10. ASSUME NEW i \in Isolates, Shutdown(i)
      PROVE  BlockedForAReason'
  <2>1. UNCHANGED <<state, msg, ptr, op, lnk, arg, waiting>>
        /\ (UNCHANGED count \/ count' = [count EXCEPT ![i] = -1])
    BY <1>10 DEF Shutdown, Crash, rpVars, portalVars, callVars
  <2> QED BY <1>0, <2>1 DEF Types, PointerTypes
<1>11. ASSUME NEW i, StopIsolate(i) \/ TaskFinalized(i)
      PROVE  BlockedForAReason'
  BY <1>11 DEF StopIsolate, TaskFinalized, rpVars, portalVars, callVars
<1>12. ASSUME NEW t \in Threads, EndThread(t)
      PROVE  BlockedForAReason'
  BY <1>0, <1>12 DEF EndThread, Types, CallTypes, rpVars, portalVars
<1>13. CASE UNCHANGED vars
  BY <1>13 DEF vars, rpVars, portalVars, callVars
<1>14. ASSUME NEW t \in Threads, Calls(t) PROVE BlockedForAReason'
  BY <1>1, <1>2, <1>3, <1>4, <1>5, <1>7, <1>14, Placement DEF Calls
<1>15. ASSUME NEW t \in Threads, ThreadStep(t) PROVE BlockedForAReason'
  BY <1>8, <1>9, <1>15, BlockedReceive, BlockedSend DEF ThreadStep
<1> QED BY <1>6, <1>10, <1>11, <1>12, <1>13, <1>14, <1>15 DEF Next

\* A blocked thread would block again.
LEMMA BlockedCannotProceed ==
  ASSUME Types, BlockedForAReason
  PROVE  NoLostWakeup
<1> SUFFICES ASSUME NEW t \in Threads, waiting[t] # Null
             PROVE  ~CanProceed(t)
  BY DEF NoLostWakeup
<1>1. waiting[t] \in RPs \cup Isolates /\ ThreadIso[t] \in Isolates
  BY Placement DEF Types, CallTypes
<1>2. CASE WaitsToReceive(t)
  BY <1>1, <1>2, DistinctNames DEF WaitsToReceive, CanProceed
<1>3. CASE WaitsToSend(t)
  BY <1>1, <1>3, DistinctNames DEF WaitsToSend, CanProceed
<1>4. CASE WaitsForLinks(t)
  BY <1>4 DEF WaitsForLinks, CanProceed
<1> QED BY <1>2, <1>3, <1>4 DEF BlockedForAReason

-----------------------------------------------------------------------------
(* What was transferred and what was reported                              *)

Transfers == CopyUndisturbed /\ Agreement

\* One message more, one message less.
LEMMA NothingAndOne ==
  ASSUME NEW m \in Messages, NEW f, NEW r \in RPs, f \in [RPs -> [Messages -> Int]]
  PROVE  /\ f[r] = Nothing => [f EXCEPT ![r][m] = @ + 1][r] = Just(m)
         /\ f[r] = Just(m) => [f EXCEPT ![r][m] = @ - 1][r] = Nothing
<1>1. f[r] = Nothing => [f EXCEPT ![r][m] = @ + 1][r] = Just(m)
  BY DEF Nothing, Just
<1>2. ASSUME f[r] = Just(m)
      PROVE  [f EXCEPT ![r][m] = @ - 1][r] = Nothing
  <2>1. [f EXCEPT ![r][m] = @ - 1][r] = [f[r] EXCEPT ![m] = @ - 1]
    OBVIOUS
  <2>2. [Just(m) EXCEPT ![m] = @ - 1] = Nothing
    <3>1. Just(m)[m] = 1 /\ \A n \in Messages : n # m => Just(m)[n] = 0
      BY DEF Just
    <3>2. [Just(m) EXCEPT ![m] = @ - 1]
            = [n \in Messages |-> IF n = m THEN Just(m)[m] - 1 ELSE Just(m)[n]]
      BY DEF Just
    <3> QED BY <3>1, <3>2 DEF Nothing
  <2> QED BY <1>2, <2>1, <2>2
<1> QED BY <1>1, <1>2

\* A step that leaves every rendezvous alone and no copy under way.
LEMMA TransfersFrame ==
  ASSUME Transfers, UNCHANGED <<state, retcode, msg, unacked>>,
         busy' \notin Threads
  PROVE  Transfers'
  BY DEF Transfers, CopyUndisturbed, Agreement, Owed

\* The VM going down changes nothing but the fault.
LEMMA TransfersCrash ==
  ASSUME Transfers, NEW why, Crash(why)
  PROVE  Transfers'
  BY DEF Crash, rpVars, portalVars, callVars, Transfers, CopyUndisturbed,
     Agreement, Owed

\* Steps of receive0: a transfer that succeeded is owed to its sender.
LEMMA TransfersReceive ==
  ASSUME Types, Transfers, NEW t \in Threads, Receive0(t)
  PROVE  Transfers'
<1> USE DistinctNames
<1>1. ASSUME CallOnClosed(t, "receive") \/ CallFromWrongIsolate(t, "receive", receiver)
      PROVE  Transfers'
  BY <1>1, TransfersFrame DEF CallOnClosed, CallFromWrongIsolate, Runs, Quiet, rpVars, vmVars
<1>2. ASSUME NEW r \in RPs, ReceiveFirst(t, r) PROVE Transfers'
  <2>1. busy' \notin Threads /\ state[r] = "IDLE" /\ state' = [state EXCEPT ![r] = "RECEIVING"]
        /\ UNCHANGED <<retcode, msg, unacked>>
    BY <1>2 DEF ReceiveFirst, Receives, Runs, Quiet, Idle, vmVars
  <2> QED BY <2>1 DEF Transfers, CopyUndisturbed, Agreement, Owed, Types, RendezvousTypes
<1>3. ASSUME NEW r \in RPs, ReceiveAgain(t, r) PROVE Transfers'
  BY <1>3, TransfersFrame DEF ReceiveAgain, Receives, Runs, Quiet, rpVars, vmVars
<1>4. ASSUME NEW r \in RPs, BeginCopy(t, r) PROVE Transfers'
  <2>1. Agreement'
    BY <1>4 DEF BeginCopy, rpVars, Transfers, Agreement, Owed
  <2>2. CopyUndisturbed'
    BY <1>4 DEF BeginCopy, Receives, Runs, rpVars, Transfers, CopyUndisturbed, Agreement, Types, CallTypes
  <2> QED BY <2>1, <2>2 DEF Transfers
<1>5. ASSUME NEW r \in RPs, NEW ok \in BOOLEAN, EndCopy(t, r, ok) PROVE Transfers'
  <2>1. /\ busy = t /\ ptr[lnk[t]] = r /\ busy' = Null /\ UNCHANGED msg
        /\ retcode' = [retcode EXCEPT ![r] = IF ok THEN "OK" ELSE "ERROR"]
        /\ unacked' = IF ok THEN [unacked EXCEPT ![r][arg[t]] = @ + 1] ELSE unacked
        /\ state' = [state EXCEPT ![r] = "DONE"]
    BY <1>5 DEF EndCopy, Transferred
  <2>2. unacked[r] = Nothing /\ msg[r] \in {arg[t], Null} /\ arg[t] \in Messages
    BY <2>1 DEF Transfers, CopyUndisturbed, Types, CallShape, CallTypes
  <2>3. ok => unacked'[r] = Just(arg[t])
    BY <2>1, <2>2, NothingAndOne DEF Types, RendezvousTypes
  <2>4. Agreement'
    BY <2>1, <2>2, <2>3 DEF Transfers, Agreement, Owed, Types, RendezvousTypes
  <2> QED BY <2>1, <2>4 DEF Transfers, CopyUndisturbed
<1>6. ASSUME NEW r \in RPs, ReceiveOnClosed(t, r) PROVE Transfers'
  <2>1. CASE Crash("staleRefid")
    BY <2>1, TransfersCrash
  <2>2. CASE ~Crash("staleRefid")
    BY <1>6, <2>2, TransfersFrame DEF ReceiveOnClosed, Receives, Runs, Quiet, vmVars
  <2> QED BY <2>1, <2>2
<1>7. ASSUME NEW r \in RPs, NEW l \in LinkObjs, ReceiveLink(t, r, l) PROVE Transfers'
  <2>1. CASE Crash("nullRendezvous")
    BY <2>1, TransfersCrash
  <2>2. CASE ~Crash("nullRendezvous")
    <3>1. /\ busy' \notin Threads /\ UNCHANGED msg /\ state[r] \in {"SENDING", "RENDEZVOUS"}
          /\ retcode' = [retcode EXCEPT ![r] = "OK"]
          /\ unacked' = [unacked EXCEPT ![r][msg[r]] = @ + 1]
          /\ state' = [state EXCEPT ![r] = "DONE"] /\ msg[r] \in Messages
      BY <1>7, <2>2 DEF ReceiveLink, Transferred, Receives, Runs, Quiet, vmVars, Messages
    <3>2. unacked[r] = Nothing
      BY <3>1 DEF Transfers, Agreement
    <3>3. unacked'[r] = Just(msg[r])
      BY <3>1, <3>2, NothingAndOne DEF Types, RendezvousTypes
    <3>4. Agreement'
      BY <3>1, <3>3 DEF Transfers, Agreement, Owed, Types, RendezvousTypes
    <3> QED BY <3>1, <3>4 DEF Transfers, CopyUndisturbed
  <2> QED BY <2>1, <2>2
<1> QED BY <1>1, <1>2, <1>3, <1>4, <1>5, <1>6, <1>7 DEF Receive0

\* Steps of send0: the sender takes what it is owed.
LEMMA TransfersSend ==
  ASSUME Types, Transfers, NEW t \in Threads, Send0(t)
  PROVE  Transfers'
<1> USE DistinctNames
<1>0. op[t] = "send" => arg[t] \in Messages /\ arg[t] # Null
  BY DEF Types, CallTypes, CallShape
<1>1. ASSUME CallOnClosed(t, "send") \/ CallFromWrongIsolate(t, "send", sender)
      PROVE  Transfers'
  BY <1>1, TransfersFrame DEF CallOnClosed, CallFromWrongIsolate, Runs, Quiet, rpVars, vmVars
<1>2. ASSUME NEW r \in RPs, SendFirst(t, r) PROVE Transfers'
  <2>1. /\ busy' \notin Threads /\ state[r] = "IDLE" /\ state' = [state EXCEPT ![r] = "SENDING"]
        /\ msg' = [msg EXCEPT ![r] = arg[t]] /\ UNCHANGED <<retcode, unacked>>
    BY <1>2 DEF SendFirst, Sends, Runs, Quiet, Idle, vmVars
  <2> QED BY <2>1 DEF Transfers, CopyUndisturbed, Agreement, Owed, Types, RendezvousTypes
<1>3. ASSUME NEW r \in RPs, SendToReceiver(t, r) PROVE Transfers'
  <2>1. /\ busy' \notin Threads /\ state[r] = "RECEIVING" /\ state' = [state EXCEPT ![r] = "RENDEZVOUS"]
        /\ msg' = [msg EXCEPT ![r] = arg[t]] /\ UNCHANGED <<retcode, unacked>>
    BY <1>3 DEF SendToReceiver, Sends, Runs, Quiet, vmVars
  <2> QED BY <2>1 DEF Transfers, CopyUndisturbed, Agreement, Owed, Types, RendezvousTypes
<1>4. ASSUME NEW r \in RPs, SendAgain(t, r) PROVE Transfers'
  BY <1>4, TransfersFrame DEF SendAgain, Sends, Runs, Quiet, rpVars, vmVars
<1>5. ASSUME NEW r \in RPs, SendDone(t, r) PROVE Transfers'
  <2>1. /\ busy' \notin Threads /\ UNCHANGED retcode /\ state[r] = "DONE" /\ msg[r] = arg[t]
        /\ msg' = [msg EXCEPT ![r] = Null] /\ state' = [state EXCEPT ![r] = "IDLE"]
        /\ unacked' = IF retcode[r] = "OK"
                      THEN [unacked EXCEPT ![r][arg[t]] = @ - 1] ELSE unacked
        /\ arg[t] \in Messages /\ arg[t] # Null
    BY <1>0, <1>5 DEF SendDone, OwnMessage, Sends, Runs, Quiet, vmVars
  <2>2. retcode[r] = "OK" => unacked[r] = Just(arg[t])
    BY <2>1 DEF Transfers, Agreement, Owed
  <2>3. unacked'[r] = Nothing
    BY <2>1, <2>2, NothingAndOne DEF Transfers, Agreement, Types, RendezvousTypes
  <2>4. Agreement'
    BY <2>1, <2>3 DEF Transfers, Agreement, Owed, Types, RendezvousTypes
  <2> QED BY <2>1, <2>4 DEF Transfers, CopyUndisturbed
<1>6. ASSUME NEW r \in RPs, SendOnClosed(t, r) PROVE Transfers'
  <2>1. /\ busy' \notin Threads /\ UNCHANGED <<state, retcode, unacked>> /\ state[r] = "CLOSED"
        /\ msg' = [msg EXCEPT ![r] = Null]
    BY <1>6 DEF SendOnClosed, Sends, Runs, Quiet, vmVars
  <2> QED BY <2>1 DEF Transfers, CopyUndisturbed, Agreement, Owed, Types, RendezvousTypes
<1> QED BY <1>1, <1>2, <1>3, <1>4, <1>5, <1>6 DEF Send0

\* close(), and a finalizer that runs inside a copy.
LEMMA TransfersClose ==
  ASSUME Types, Transfers, NEW l \in LinkObjs, ptr[l] # Null, NEW i,
         busy \in Threads => l \in Droppable /\ ~InUse(l),
         CloseLink(l, i)
  PROVE  Transfers'
<1>1. CASE Crash("staleRefid")
  BY <1>1, TransfersCrash
<1>2. CASE ~Crash("staleRefid")
  <2> DEFINE r == ptr[l]
             m == LeftOnClose(r, i)
  <2>1. /\ msg' = [msg EXCEPT ![r] = m] /\ m \in {msg[r], Null}
        /\ state' = [state EXCEPT ![r] = "CLOSED"]
        /\ ptr' = [ptr EXCEPT ![l] = Null]
        /\ UNCHANGED <<retcode, unacked, lnk, arg, busy>>
    BY <1>2 DEF CloseLink, LeftOnClose, callVars, vmVars
  <2>2. r \in RPs
    BY DEF Types, PointerTypes
  <2> HIDE DEF r, m
  <2>3. Agreement'
    BY <2>1, <2>2 DEF Transfers, Agreement, Owed, Types, RendezvousTypes
  <2>4. CopyUndisturbed'
    <3>1. SUFFICES ASSUME busy \in Threads PROVE CopyUndisturbed'
      BY <2>1 DEF CopyUndisturbed
    <3>2. lnk[busy] # l /\ lnk[busy] \in LinkObjs /\ ptr[lnk[busy]] \in RPs
      BY <3>1 DEF InUse, Types, CallShape, CallTypes, PointerTypes, Transfers, CopyUndisturbed
    <3>3. ptr'[lnk'[busy']] = ptr[lnk[busy]] /\ arg'[busy'] = arg[busy]
      BY <2>1, <3>2 DEF Types, PointerTypes
    <3> QED BY <2>1, <2>2, <3>1, <3>2, <3>3 DEF Transfers, CopyUndisturbed, Types, RendezvousTypes
  <2> QED BY <2>3, <2>4 DEF Transfers
<1> QED BY <1>1, <1>2

\* Every step keeps both sides in agreement.
LEMMA TransfersInductive ==
  ASSUME Types, Transfers, [Next]_vars
  PROVE  Transfers'
<1> USE DistinctNames
<1>1. ASSUME NEW t \in Threads, NEW l,
             \/ StartReceive(t, l) \/ StartGetLinks(t)
             \/ \E m \in Messages : StartSend(t, l, m)
      PROVE  Transfers'
  BY <1>1, TransfersFrame DEF StartReceive, StartGetLinks, StartSend, Begin, CanCall, Quiet, rpVars, vmVars
<1>2. ASSUME NEW t \in Threads, NEW l \in LinkObjs, NEW r \in RPs,
             NEW e \in Endpoints, NewLink(t, l, r, e)
      PROVE  Transfers'
  <2>1. /\ busy' \notin Threads /\ state' = [state EXCEPT ![r] = "IDLE"]
        /\ retcode' = [retcode EXCEPT ![r] = "OK"]
        /\ msg' = [msg EXCEPT ![r] = Null] /\ unacked' = [unacked EXCEPT ![r] = Nothing]
    BY <1>2 DEF NewLink, CanCall, Quiet, vmVars
  <2> QED BY <2>1 DEF Transfers, CopyUndisturbed, Agreement, Owed, Types, RendezvousTypes
<1>3. ASSUME NEW t \in Threads, NEW l \in LinkObjs, Close(t, l)
      PROVE  Transfers'
  BY <1>3, TransfersClose DEF Close, CanCall, Quiet
<1>4. ASSUME NEW l \in LinkObjs, Finalize(l)
      PROVE  Transfers'
  <2>1. LinkIso[l] \in Isolates
    BY Placement
  <2>2. busy \in Threads => l \in Droppable /\ ~InUse(l)
    BY <1>4, <2>1 DEF Finalize
  <2> QED BY <1>4, <2>1, <2>2, TransfersClose DEF Finalize
<1>5. ASSUME NEW t \in Threads, NEW i \in Isolates, NEW n \in 0..MaxPortal,
             NEW la \in [1..n -> LinkObjs], NEW isNull \in BOOLEAN,
             SetLinks(t, i, n, la, isNull)
      PROVE  Transfers'
  BY <1>5, TransfersCrash, TransfersFrame DEF SetLinks, CanCall, Quiet, rpVars, vmVars
<1>6. ASSUME NEW t \in Threads, GetLinkCount(t)
      PROVE  Transfers'
  BY <1>6, TransfersFrame DEF GetLinkCount, Runs, Quiet, rpVars, vmVars
<1>7. ASSUME NEW t \in Threads, NEW la \in [1..len[t] -> LinkObjs], GetLinks(t, la)
      PROVE  Transfers'
  BY <1>7, TransfersCrash, TransfersFrame DEF GetLinks, Runs, Quiet, rpVars, vmVars
<1>8. ASSUME NEW i \in Isolates, Shutdown(i)
      PROVE  Transfers'
  BY <1>8, TransfersCrash, TransfersFrame DEF Shutdown, Quiet, rpVars, vmVars
<1>9. ASSUME NEW i \in Isolates, StopIsolate(i) \/ TaskFinalized(i)
      PROVE  Transfers'
  BY <1>9, TransfersFrame DEF StopIsolate, TaskFinalized, Quiet, rpVars
<1>10. ASSUME NEW t \in Threads, EndThread(t)
      PROVE  Transfers'
  BY <1>10, TransfersFrame, Placement DEF EndThread, rpVars
<1>11. CASE UNCHANGED vars
  BY <1>11 DEF vars, rpVars, callVars, vmVars, Transfers, CopyUndisturbed, Agreement, Owed
<1>12. ASSUME NEW t \in Threads, Calls(t) PROVE Transfers'
  BY <1>1, <1>2, <1>3, <1>5, <1>12, Placement DEF Calls
<1>13. ASSUME NEW t \in Threads, ThreadStep(t) PROVE Transfers'
  BY <1>6, <1>7, <1>13, TransfersReceive, TransfersSend DEF ThreadStep
<1> QED BY <1>4, <1>8, <1>9, <1>10, <1>11, <1>12, <1>13, Placement DEF Next

-----------------------------------------------------------------------------
(* Stranded messages                                                       *)

Cleaning == OwnLinks /\ Ends /\ Cleaners

\* A step that puts no message in, and after which a Link that could clean one
\* out still can, or need not.
LEMMA CleanersKept ==
  ASSUME Cleaners,
         \A r \in RPs :
           /\ msg'[r] \in {msg[r], Null} /\ sender'[r] = sender[r]
           /\ \A l \in LinkObjs : ptr[l] = r /\ LinkIso[l] = sender[r]
                                    => ptr'[l] = r \/ msg'[r] = Null
  PROVE  Cleaners'
  BY DEF Cleaners, HasCleaner

\* A step that changes no call, no pointer and no rendezvous point.
LEMMA CleaningFrame ==
  ASSUME Types, Cleaning, UNCHANGED <<msg, sender, receiver, ptr>>,
         \A u \in Threads : lnk'[u] \in {lnk[u], Null}
  PROVE  Cleaning'
  BY DEF Cleaning, OwnLinks, Ends, Cleaners, HasCleaner

\* Steps of receive0: the receiver's Link is nobody's cleaner.
LEMMA CleaningReceive ==
  ASSUME DistinctEnds, Types, Cleaning, NEW t \in Threads, Receive0(t)
  PROVE  Cleaning'
<1> USE DistinctNames
<1>0. /\ op[t] = "receive" => lnk[t] \in LinkObjs
      /\ lnk \in [Threads -> LinkObjs \cup {Null}]
  BY DEF Types, CallTypes, CallShape
<1>1. ASSUME CallOnClosed(t, "receive") \/ CallFromWrongIsolate(t, "receive", receiver)
      PROVE  Cleaning'
  BY <1>0, <1>1, CleaningFrame DEF CallOnClosed, CallFromWrongIsolate, Return, rpVars
<1>2. ASSUME NEW r \in RPs, ReceiveFirst(t, r) \/ ReceiveAgain(t, r) \/ BeginCopy(t, r)
      PROVE  Cleaning'
  BY <1>2, CleaningFrame DEF ReceiveFirst, ReceiveAgain, BeginCopy, Wait, rpVars
<1>3. ASSUME NEW r \in RPs, NEW ok \in BOOLEAN, EndCopy(t, r, ok) PROVE Cleaning'
  BY <1>0, <1>3, CleaningFrame DEF EndCopy, Transferred, Return
<1>4. ASSUME NEW r \in RPs, ReceiveOnClosed(t, r) PROVE Cleaning'
  <2>1. CASE Crash("staleRefid")
    BY <2>1, CleaningFrame DEF Crash, rpVars, callVars
  <2>2. CASE ~Crash("staleRefid")
    <3>1. /\ ptr' = [ptr EXCEPT ![lnk[t]] = Null]
          /\ lnk' = [lnk EXCEPT ![t] = Null]
          /\ UNCHANGED <<msg, sender, receiver>>
          /\ lnk[t] \in LinkObjs /\ ptr[lnk[t]] = r /\ receiver[r] = ThreadIso[t]
      BY <1>0, <1>4, <2>2 DEF ReceiveOnClosed, Receives, Runs, Return
    <3>2. LinkIso[lnk[t]] = receiver[r] /\ LinkIso[lnk[t]] \in Isolates
      BY <3>1, Placement DEF Cleaning, OwnLinks
    <3>3. LinkIso[lnk[t]] # sender[r]
      BY <3>2 DEF Cleaning, Ends, DistinctEnds
    <3>4. Cleaners'
      BY <3>1, <3>3, CleanersKept DEF Cleaning, Types, PointerTypes
    <3> QED BY <1>0, <3>1, <3>4 DEF Cleaning, OwnLinks, Ends
  <2> QED BY <2>1, <2>2
<1>5. ASSUME NEW r \in RPs, NEW l \in LinkObjs, ReceiveLink(t, r, l) PROVE Cleaning'
  <2>1. CASE Crash("nullRendezvous")
    BY <2>1, CleaningFrame DEF Crash, rpVars, callVars
  <2>2. CASE ~Crash("nullRendezvous")
    <3>1. /\ ptr' = [ptr EXCEPT ![l] = ptr[msg[r]]] /\ ptr[l] = Null
          /\ lnk' = [lnk EXCEPT ![t] = Null]
          /\ UNCHANGED <<msg, sender, receiver>>
      BY <1>5, <2>2 DEF ReceiveLink, Transferred, Return, Fresh
    <3>2. Cleaners'
      BY <3>1, CleanersKept DEF Cleaning, Types, PointerTypes
    <3> QED BY <1>0, <3>1, <3>2 DEF Cleaning, OwnLinks, Ends
  <2> QED BY <2>1, <2>2
<1> QED BY <1>1, <1>2, <1>3, <1>4, <1>5 DEF Receive0

\* Steps of send0: the sender's own Link is the cleaner of its message.
LEMMA CleaningSend ==
  ASSUME Types, Cleaning, NEW t \in Threads, Send0(t)
  PROVE  Cleaning'
<1> USE DistinctNames
<1>0. /\ op[t] = "send" => lnk[t] \in LinkObjs
      /\ lnk \in [Threads -> LinkObjs \cup {Null}]
  BY DEF Types, CallTypes, CallShape
<1>1. ASSUME CallOnClosed(t, "send") \/ CallFromWrongIsolate(t, "send", sender)
      PROVE  Cleaning'
  BY <1>0, <1>1, CleaningFrame DEF CallOnClosed, CallFromWrongIsolate, Return, rpVars
<1>2. ASSUME NEW r \in RPs, SendAgain(t, r) PROVE Cleaning'
  BY <1>2, CleaningFrame DEF SendAgain, Wait, rpVars
<1>3. ASSUME NEW r \in RPs, SendFirst(t, r) \/ SendToReceiver(t, r)
      PROVE  Cleaning'
  <2>1. /\ msg' = [msg EXCEPT ![r] = arg[t]]
        /\ UNCHANGED <<lnk, ptr, sender, receiver>>
        /\ lnk[t] \in LinkObjs /\ ptr[lnk[t]] = r /\ sender[r] = ThreadIso[t]
    BY <1>0, <1>3 DEF SendFirst, SendToReceiver, Sends, Runs, Wait, SignalAndWait
  <2>2. LinkIso[lnk[t]] = sender[r]
    BY <2>1 DEF Cleaning, OwnLinks
  <2> QED BY <2>1, <2>2 DEF Cleaning, OwnLinks, Ends, Cleaners, HasCleaner, Types, RendezvousTypes
<1>4. ASSUME NEW r \in RPs, SendDone(t, r) PROVE Cleaning'
  <2>1. /\ msg' = [msg EXCEPT ![r] = Null]
        /\ lnk' = [lnk EXCEPT ![t] = Null]
        /\ UNCHANGED <<ptr, sender, receiver>>
    BY <1>4 DEF SendDone, Return
  <2> QED BY <1>0, <2>1 DEF Cleaning, OwnLinks, Ends, Cleaners, HasCleaner, Types, RendezvousTypes
<1>5. ASSUME NEW r \in RPs, SendOnClosed(t, r) PROVE Cleaning'
  <2>1. /\ msg' = [msg EXCEPT ![r] = Null]
        /\ lnk' = [lnk EXCEPT ![t] = Null]
        /\ ptr' = [ptr EXCEPT ![lnk[t]] = Null]
        /\ lnk[t] \in LinkObjs /\ ptr[lnk[t]] = r
        /\ UNCHANGED <<sender, receiver>>
    BY <1>0, <1>5 DEF SendOnClosed, Sends, Runs, Return
  <2>2. Cleaners'
    BY <2>1, CleanersKept DEF Cleaning, Types, RendezvousTypes, PointerTypes
  <2> QED BY <1>0, <2>1, <2>2 DEF Cleaning, OwnLinks, Ends
<1> QED BY <1>1, <1>2, <1>3, <1>4, <1>5 DEF Send0

\* close() cleans out the message of its own isolate, and takes no other
\* message's cleaner away.
LEMMA CleaningClose ==
  ASSUME Types, Cleaning, NEW l \in LinkObjs, ptr[l] # Null,
         CloseLink(l, LinkIso[l])
  PROVE  Cleaning'
<1>1. CASE Crash("staleRefid")
  BY <1>1, CleaningFrame DEF Crash, rpVars, callVars
<1>2. CASE ~Crash("staleRefid")
  <2>1. /\ msg' = [msg EXCEPT ![ptr[l]] = LeftOnClose(ptr[l], LinkIso[l])]
        /\ ptr' = [ptr EXCEPT ![l] = Null]
        /\ UNCHANGED <<lnk, sender, receiver>>
    BY <1>2 DEF CloseLink, callVars
  <2>2. Cleaners'
    BY <2>1, CleanersKept DEF LeftOnClose, Cleaning, Types, RendezvousTypes, PointerTypes
  <2> QED BY <2>1, <2>2 DEF Cleaning, OwnLinks, Ends
<1> QED BY <1>1, <1>2

\* Every step leaves a cleaner to each message.
LEMMA CleaningInductive ==
  ASSUME DistinctEnds, Types, Cleaning, [Next]_vars
  PROVE  Cleaning'
<1> USE DistinctNames
<1>0. lnk \in [Threads -> LinkObjs \cup {Null}]
  BY DEF Types, CallTypes
<1>1. ASSUME NEW t \in Threads, NEW l \in LinkObjs,
             \/ StartReceive(t, l) \/ \E m \in Messages : StartSend(t, l, m)
      PROVE  Cleaning'
  <2>1. /\ UNCHANGED <<msg, sender, receiver, ptr>> /\ LinkIso[l] = ThreadIso[t]
        /\ lnk' = [lnk EXCEPT ![t] = l]
    BY <1>1 DEF StartReceive, StartSend, Begin, rpVars
  <2> QED BY <1>0, <2>1 DEF Cleaning, OwnLinks, Ends, Cleaners, HasCleaner
<1>2. ASSUME NEW t \in Threads, StartGetLinks(t) \/ GetLinkCount(t) \/ EndThread(t)
      PROVE  Cleaning'
  BY <1>0, <1>2, CleaningFrame DEF StartGetLinks, GetLinkCount, EndThread, Begin, Wait, rpVars
<1>3. ASSUME NEW t \in Threads, NEW l \in LinkObjs, NEW r \in RPs,
             NEW e \in Endpoints, NewLink(t, l, r, e)
      PROVE  Cleaning'
  <2>1. /\ ptr[l] = Null /\ ptr' = [ptr EXCEPT ![l] = r]
        /\ sender' = [sender EXCEPT ![r] = e[1]]
        /\ receiver' = [receiver EXCEPT ![r] = e[2]]
        /\ msg' = [msg EXCEPT ![r] = Null] /\ UNCHANGED lnk
    BY <1>3 DEF NewLink, Fresh, callVars
  <2>2. e = <<e[1], e[2]>>
    BY Placement
  <2>3. Ends'
    BY <2>1, <2>2 DEF Cleaning, Ends, Types, RendezvousTypes
  <2> QED BY <2>1, <2>3 DEF Cleaning, OwnLinks, Cleaners, HasCleaner, Types, RendezvousTypes, PointerTypes
<1>4. ASSUME NEW t \in Threads, NEW l \in LinkObjs, Close(t, l)
      PROVE  Cleaning'
  BY <1>4, CleaningClose DEF Close
<1>5. ASSUME NEW l \in LinkObjs, Finalize(l)
      PROVE  Cleaning'
  BY <1>5, CleaningClose DEF Finalize
<1>6. ASSUME NEW t \in Threads, NEW i \in Isolates, NEW n \in 0..MaxPortal,
             NEW la \in [1..n -> LinkObjs], NEW isNull \in BOOLEAN,
             SetLinks(t, i, n, la, isNull)
      PROVE  Cleaning'
  BY <1>6, CleaningFrame DEF SetLinks, Crash, rpVars, callVars
<1>7. ASSUME NEW t \in Threads, NEW la \in [1..len[t] -> LinkObjs], GetLinks(t, la)
      PROVE  Cleaning'
  <2>1. /\ UNCHANGED <<msg, sender, receiver>>
        /\ UNCHANGED lnk \/ lnk' = [lnk EXCEPT ![t] = Null]
    BY <1>7 DEF GetLinks, Crash, Return, rpVars, callVars
  <2>2. \A l \in LinkObjs : ptr[l] # Null => ptr'[l] = ptr[l]
    BY <1>7, GetLinksFills
  <2>3. Cleaners'
    BY <2>1, <2>2, CleanersKept DEF Cleaning
  <2> QED BY <1>0, <2>1, <2>3 DEF Cleaning, OwnLinks, Ends
<1>8. ASSUME NEW i \in Isolates, Shutdown(i)
      PROVE  Cleaning'
  BY <1>8, CleaningFrame DEF Shutdown, Crash, rpVars, callVars
<1>9. ASSUME NEW i \in Isolates, StopIsolate(i) \/ TaskFinalized(i)
      PROVE  Cleaning'
  BY <1>9, CleaningFrame DEF StopIsolate, TaskFinalized, rpVars, callVars
<1>10. CASE UNCHANGED vars
  BY <1>10, CleaningFrame DEF vars, rpVars, callVars
<1>11. ASSUME NEW t \in Threads, Calls(t) PROVE Cleaning'
  BY <1>1, <1>2, <1>3, <1>4, <1>6, <1>11, Placement DEF Calls
<1>12. ASSUME NEW t \in Threads, ThreadStep(t) PROVE Cleaning'
  BY <1>2, <1>7, <1>12, CleaningReceive, CleaningSend DEF ThreadStep
<1> QED BY <1>2, <1>5, <1>8, <1>9, <1>10, <1>11, <1>12, Placement DEF Next

-----------------------------------------------------------------------------
(* rp_decref's fatal error                                                 *)

\* Two Links hold a point: its count is not one.
LEMMA SecondHolder ==
  ASSUME RefcountExact, NEW r \in RPs, NEW l \in LinkHolders(r),
         NEW k \in LinkHolders(r), l # k
  PROVE  refcount[r] # 1
<1>1. /\ IsFiniteSet(LinkHolders(r)) /\ Cardinality(LinkHolders(r)) \in Nat
      /\ Cardinality(SlotHolders(r)) \in Nat
  BY HoldersFinite
<1>2. Cardinality({l, k}) = 2
  <2>1. IsFiniteSet({l}) /\ Cardinality({l}) = 1
    BY FS_Singleton
  <2>2. Cardinality({l} \cup {k}) = Cardinality({l}) + 1
    BY <2>1, FS_AddElement
  <2>3. {l} \cup {k} = {l, k}
    OBVIOUS
  <2> QED BY <2>1, <2>2, <2>3
<1>3. Cardinality({l, k}) <= Cardinality(LinkHolders(r))
  BY <1>1, FS_Subset
<1>4. refcount[r] = Cardinality(LinkHolders(r)) + Cardinality(SlotHolders(r))
  BY DEF RefcountExact
<1> QED BY <1>1, <1>2, <1>3, <1>4

\* With a cleaner for every message the native never finds a message in a point
\* that goes away with the Link that is let go.
LEMMA NoStaleDecref ==
  ASSUME Types, RefcountExact, Cleaning, NEW l \in LinkObjs, ptr[l] \in RPs,
         NEW m, m # Null => msg[ptr[l]] # Null /\ LinkIso[l] # sender[ptr[l]]
  PROVE  ~StaleOnDecref(ptr[l], m)
<1> SUFFICES ASSUME m # Null PROVE refcount[ptr[l]] # 1
  BY DEF StaleOnDecref
<1>1. PICK k \in LinkObjs : ptr[k] = ptr[l] /\ LinkIso[k] = sender[ptr[l]]
  BY DEF Cleaning, Cleaners, HasCleaner
<1>2. k # l /\ k \in LinkHolders(ptr[l]) /\ l \in LinkHolders(ptr[l])
  BY <1>1 DEF LinkHolders
<1> QED BY <1>2, SecondHolder

\* Nor does portal_free: the cleaner is a Link.
LEMMA NoStaleFree ==
  ASSUME Types, RefcountExact, Cleaning, NEW i, NEW fresh \in [RPs -> Nat]
  PROVE  ~StaleOnFree(i, fresh)
<1> SUFFICES ASSUME NEW r \in RPs, msg[r] # Null
             PROVE  Repointed(i, fresh)[r] # 0
  BY DEF StaleOnFree
<1>1. PICK k \in LinkObjs : ptr[k] = r
  BY DEF Cleaning, Cleaners, HasCleaner
<1>2. IsFiniteSet(LinkHolders(r)) /\ Cardinality(LinkHolders(r)) \in Nat
  BY HoldersFinite
<1>3. Cardinality(LinkHolders(r)) # 0
  BY <1>1, <1>2, FS_EmptySet DEF LinkHolders
<1>4. /\ Cardinality(PortalHolders(i, r)) \in Nat
      /\ Cardinality(SlotHolders(r)) - Cardinality(PortalHolders(i, r)) \in Nat
  <2> DEFINE rest == SlotHolders(r) \ PortalHolders(i, r)
  <2>1. /\ Cardinality(rest) \in Nat
        /\ Cardinality(PortalHolders(i, r)) \in Nat
        /\ Cardinality(SlotHolders(r))
             = Cardinality(rest) + Cardinality(PortalHolders(i, r))
    BY PortalSplit
  <2> HIDE DEF rest
  <2> QED BY <2>1
<1>5. refcount[r] = Cardinality(LinkHolders(r)) + Cardinality(SlotHolders(r))
  BY DEF RefcountExact
<1>6. Repointed(i, fresh)[r]
        = refcount[r] - Cardinality(PortalHolders(i, r)) + fresh[r]
  BY DEF Repointed
<1>7. Cardinality(SlotHolders(r)) \in Nat /\ fresh[r] \in Nat
  BY HoldersFinite
<1> QED BY <1>2, <1>3, <1>4, <1>5, <1>6, <1>7

\* How many of n array entries are r.
LEMMA CountedType ==
  ASSUME NEW n \in Nat, NEW f
  PROVE  [r \in RPs |-> Cardinality({k \in 1..n : f[k] = r})] \in [RPs -> Nat]
<1>1. IsFiniteSet(1..n)
  BY FS_Interval
<1>2. \A r \in RPs : {k \in 1..n : f[k] = r} \in SUBSET (1..n)
  OBVIOUS
<1>3. \A r \in RPs : Cardinality({k \in 1..n : f[k] = r}) \in Nat
  BY <1>1, <1>2, FS_Subset, FS_CardinalityType
<1> QED BY <1>3

\* close() and finalize() do not bring the VM down.
LEMMA StaleClose ==
  ASSUME Types, RefcountExact, Cleaning, NoStaleRefid,
         NEW l \in LinkObjs, ptr[l] # Null, CloseLink(l, LinkIso[l])
  PROVE  NoStaleRefid'
<1>1. ptr[l] \in RPs
  BY DEF Types, PointerTypes
<1>2. ~StaleOnDecref(ptr[l], LeftOnClose(ptr[l], LinkIso[l]))
  BY <1>1, NoStaleDecref DEF LeftOnClose
<1> QED BY <1>2 DEF CloseLink, NoStaleRefid, vmVars

\* No step does, on a link between different isolates.
LEMMA NoStaleInductive ==
  ASSUME DistinctEnds, Types, RefcountExact, Cleaning, NoStaleRefid, [Next]_vars
  PROVE  NoStaleRefid'
<1>1. ASSUME NEW t \in Threads, Receive0(t) PROVE NoStaleRefid'
  <2>1. ASSUME NEW r \in RPs, ReceiveOnClosed(t, r) PROVE NoStaleRefid'
    <3>1. lnk[t] \in LinkObjs /\ ptr[lnk[t]] = r /\ receiver[r] = ThreadIso[t]
      BY <2>1 DEF ReceiveOnClosed, Receives, Runs, Types, CallTypes, CallShape
    <3>2. LinkIso[lnk[t]] = receiver[r] /\ LinkIso[lnk[t]] \in Isolates
      BY <3>1, Placement, DistinctNames DEF Cleaning, OwnLinks
    <3>3. LinkIso[lnk[t]] # sender[r]
      BY <3>2, DistinctNames DEF Cleaning, Ends, DistinctEnds
    <3>4. ~StaleOnDecref(r, msg[r])
      BY <3>1, <3>3, NoStaleDecref
    <3> QED BY <2>1, <3>4 DEF ReceiveOnClosed, NoStaleRefid, vmVars
  <2>2. ASSUME CallOnClosed(t, "receive") \/ CallFromWrongIsolate(t, "receive", receiver)
        PROVE  NoStaleRefid'
    BY <2>2 DEF CallOnClosed, CallFromWrongIsolate, NoStaleRefid, vmVars
  <2>3. ASSUME NEW r \in RPs,
               \/ ReceiveFirst(t, r) \/ ReceiveAgain(t, r) \/ BeginCopy(t, r)
               \/ \E ok \in BOOLEAN : EndCopy(t, r, ok)
               \/ \E l \in LinkObjs : ReceiveLink(t, r, l)
        PROVE  NoStaleRefid'
    BY <2>3 DEF ReceiveFirst, ReceiveAgain, BeginCopy, EndCopy, ReceiveLink, Crash,
       NoStaleRefid, vmVars
  <2> QED BY <1>1, <2>1, <2>2, <2>3 DEF Receive0
<1>2. ASSUME NEW t \in Threads, Send0(t) PROVE NoStaleRefid'
  BY <1>2 DEF Send0, CallOnClosed, CallFromWrongIsolate, SendFirst, SendToReceiver,
     SendAgain, SendDone, SendOnClosed, NoStaleRefid, vmVars
<1>3. ASSUME NEW t \in Threads, NEW i \in Isolates, NEW n \in 0..MaxPortal,
             NEW la \in [1..n -> LinkObjs], NEW isNull \in BOOLEAN,
             SetLinks(t, i, n, la, isNull)
      PROVE  NoStaleRefid'
  <2> DEFINE pl == [k \in 1..n |-> ptr[la[k]]]
             added == [r \in RPs |-> Cardinality({k \in 1..n : ptr[la[k]] = r})]
  <2>1. added = [r \in RPs |-> Cardinality({k \in 1..n : pl[k] = r})]
    <3>1. ASSUME NEW r \in RPs
          PROVE  {k \in 1..n : ptr[la[k]] = r} = {k \in 1..n : pl[k] = r}
      OBVIOUS
    <3> HIDE DEF pl
    <3> QED BY <3>1, Zenon
  <2>2. n \in Nat
    BY FinitePools
  <2>3. added \in [RPs -> Nat]
    <3> HIDE DEF pl, added
    <3> QED BY <2>1, <2>2, CountedType
  <2>4. ~StaleOnFree(i, added)
    <3> HIDE DEF added
    <3> QED BY <2>3, NoStaleFree
  <2> QED BY <1>3, <2>4 DEF SetLinks, NoStaleRefid, vmVars
<1>4. ASSUME NEW t \in Threads, NEW la \in [1..len[t] -> LinkObjs], GetLinks(t, la)
      PROVE  NoStaleRefid'
  <2> DEFINE i == ThreadIso[t]
             n == IF count[i] > 0 THEN len[t] ELSE 0
             held == [k \in 1..n |-> slot[<<i, k>>]]
             taken == [r \in RPs |-> Cardinality({k \in 1..n : slot[<<i, k>>] = r})]
  <2>1. taken = [r \in RPs |-> Cardinality({k \in 1..n : held[k] = r})]
    <3>1. ASSUME NEW r \in RPs
          PROVE  {k \in 1..n : slot[<<i, k>>] = r} = {k \in 1..n : held[k] = r}
      <4> HIDE DEF n
      <4> QED OBVIOUS
    <3> HIDE DEF held, n
    <3> QED BY <3>1, Zenon
  <2>2. n \in Nat
    BY FinitePools DEF Types, CallTypes
  <2>3. taken \in [RPs -> Nat]
    <3> HIDE DEF held, taken, n
    <3> QED BY <2>1, <2>2, CountedType
  <2>4. ~StaleOnFree(i, taken)
    <3> HIDE DEF taken
    <3> QED BY <2>3, NoStaleFree
  <2>5. \/ Crash("outOfBounds") \/ StaleOnFree(i, taken) \/ UNCHANGED vmVars
    BY <1>4, Zenon DEF GetLinks
  <2> QED BY <2>4, <2>5 DEF Crash, NoStaleRefid, vmVars
<1>5. ASSUME NEW i \in Isolates, Shutdown(i) PROVE NoStaleRefid'
  <2>1. [r \in RPs |-> 0] \in [RPs -> Nat]
    OBVIOUS
  <2>2. ~StaleOnFree(i, [r \in RPs |-> 0])
    BY <2>1, NoStaleFree
  <2> QED BY <1>5, <2>2 DEF Shutdown, NoStaleRefid, vmVars
<1>6. ASSUME NEW t \in Threads, Calls(t) PROVE NoStaleRefid'
  <2>1. ASSUME NEW l \in LinkObjs, Close(t, l) PROVE NoStaleRefid'
    BY <2>1, StaleClose DEF Close
  <2>2. ASSUME NEW l, \/ StartReceive(t, l) \/ StartGetLinks(t)
                      \/ \E m \in Messages : StartSend(t, l, m)
                      \/ \E r \in RPs, e \in Endpoints : NewLink(t, l, r, e)
        PROVE  NoStaleRefid'
    BY <2>2 DEF StartReceive, StartGetLinks, StartSend, Begin, NewLink, NoStaleRefid, vmVars
  <2> QED BY <1>3, <1>6, <2>1, <2>2, Placement DEF Calls
<1>7. ASSUME NEW l \in LinkObjs, Finalize(l) PROVE NoStaleRefid'
  BY <1>7, StaleClose DEF Finalize
<1>8. ASSUME NEW t \in Threads, GetLinkCount(t) \/ EndThread(t) PROVE NoStaleRefid'
  BY <1>8 DEF GetLinkCount, EndThread, NoStaleRefid, vmVars
<1>9. ASSUME NEW i, StopIsolate(i) \/ TaskFinalized(i) PROVE NoStaleRefid'
  BY <1>9 DEF StopIsolate, TaskFinalized, NoStaleRefid
<1>10. CASE UNCHANGED vars
  BY <1>10 DEF vars, vmVars, NoStaleRefid
<1>11. ASSUME NEW t \in Threads, ThreadStep(t) PROVE NoStaleRefid'
  BY <1>1, <1>2, <1>4, <1>8, <1>11 DEF ThreadStep
<1> QED BY <1>5, <1>6, <1>7, <1>8, <1>9, <1>10, <1>11 DEF Next

-----------------------------------------------------------------------------
(* Owners of a handshake                                                   *)

\* The call of thread u goes on, on the same rendezvous.
CallKept(u) == /\ op'[u] = op[u] /\ lnk'[u] = lnk[u] /\ ptr'[lnk[u]] = ptr[lnk[u]]
               /\ op[u] = "send" => arg'[u] = arg[u]

\* Thread u may be the owner of a handshake on r.
Owns(u, r) == /\ op[u] \in {"send", "receive"} /\ ptr[lnk[u]] = r
              /\ op[u] = "send" => ThreadIso[u] = sender[r]
              /\ op[u] = "receive" => ThreadIso[u] = receiver[r]

\* A rendezvous point that is left alone keeps its owner.
LEMMA OwnerKept ==
  ASSUME NEW r, OwnerAt(r), UNCHANGED <<state[r], msg[r], sender[r], receiver[r]>>,
         dying \subseteq dying',
         \A u \in Threads : Owns(u, r) => CallKept(u) \/ ThreadIso[u] \in dying'
  PROVE  OwnerAt(r)'
<1>1. CASE Underway(r) /\ sender[r] \notin dying'
  <2>1. PICK u \in Threads : /\ op[u] = "send" /\ arg[u] = msg[r]
                             /\ ptr[lnk[u]] = r /\ ThreadIso[u] = sender[r]
    BY <1>1 DEF OwnerAt, SendOwner
  <2>2. CallKept(u)
    BY <1>1, <2>1 DEF Owns
  <2> QED BY <1>1, <2>1, <2>2 DEF OwnerAt, SendOwner, CallKept, Underway
<1>2. CASE state[r] = "RECEIVING" /\ receiver[r] \notin dying'
  <2>1. PICK u \in Threads : /\ op[u] = "receive" /\ ptr[lnk[u]] = r
                             /\ ThreadIso[u] = receiver[r]
    BY <1>2 DEF OwnerAt, ReceiveOwner
  <2>2. CallKept(u)
    BY <1>2, <2>1 DEF Owns
  <2> QED BY <1>2, <2>1, <2>2 DEF OwnerAt, ReceiveOwner, CallKept, Underway
<1> QED BY <1>1, <1>2 DEF OwnerAt, Underway

\* No rendezvous point is touched.
LEMMA OwnersFrame ==
  ASSUME Owners, UNCHANGED <<state, msg, sender, receiver>>, dying \subseteq dying',
         \A u \in Threads, r \in RPs :
           Owns(u, r) => CallKept(u) \/ ThreadIso[u] \in dying'
  PROVE  Owners'
  BY OwnerKept DEF Owners

\* One is, and needs no owner any more or has one.
LEMMA OwnersChange ==
  ASSUME Owners, NEW r \in RPs, OwnerAt(r)', UNCHANGED <<sender, receiver, dying>>,
         \A q \in RPs : q # r => state'[q] = state[q] /\ msg'[q] = msg[q],
         \A u \in Threads, q \in RPs : Owns(u, q) /\ q # r => CallKept(u)
  PROVE  Owners'
<1> SUFFICES ASSUME NEW q \in RPs, q # r PROVE OwnerAt(q)'
  BY DEF Owners
<1> QED BY OwnerKept DEF Owners

\* Steps of receive0: the receiver becomes owner, or passes the handshake
\* back to the sender.
LEMMA OwnersReceive ==
  ASSUME Types, CopyUndisturbed, CopyHasSender, Owners, NEW t \in Threads, Receive0(t)
  PROVE  Owners'
<1> USE DistinctNames
<1>0. /\ \A u \in Threads : op[u] \in {"send", "receive"} => lnk[u] \in LinkObjs
      /\ op \in [Threads -> Ops] /\ lnk \in [Threads -> LinkObjs \cup {Null}]
      /\ arg \in [Threads -> Messages \cup {Null}]
      /\ state \in [RPs -> States] /\ ptr \in [LinkObjs -> RPs \cup {Null}]
  BY DEF Types, CallTypes, CallShape, RendezvousTypes, PointerTypes
<1>1. ASSUME CallOnClosed(t, "receive") \/ CallFromWrongIsolate(t, "receive", receiver)
      PROVE  Owners'
  <2>1. /\ UNCHANGED <<state, msg, sender, receiver, dying, ptr>> /\ Returned(t)
        /\ op[t] = "receive" /\ (ptr[lnk[t]] = Null \/ receiver[ptr[lnk[t]]] # ThreadIso[t])
    BY <1>1 DEF CallOnClosed, CallFromWrongIsolate, Runs, Return, Returned, rpVars, vmVars
  <2>2. \A u \in Threads, r \in RPs : Owns(u, r) => CallKept(u)
    BY <1>0, <2>1 DEF Owns, CallKept, Returned
  <2> QED BY <2>1, <2>2, OwnersFrame
<1>2. ASSUME NEW r \in RPs, ReceiveFirst(t, r) PROVE Owners'
  <2>1. /\ UNCHANGED <<msg, sender, receiver, dying, op, lnk, arg, ptr>>
        /\ state' = [state EXCEPT ![r] = "RECEIVING"]
        /\ op[t] = "receive" /\ ptr[lnk[t]] = r /\ receiver[r] = ThreadIso[t]
    BY <1>2 DEF ReceiveFirst, Receives, Runs, Wait, vmVars
  <2>2. OwnerAt(r)'
    BY <1>0, <2>1 DEF OwnerAt, ReceiveOwner, Underway
  <2> QED BY <1>0, <2>1, <2>2, OwnersChange DEF CallKept
<1>3. ASSUME NEW r \in RPs, ReceiveAgain(t, r) PROVE Owners'
  BY <1>3, OwnersFrame DEF ReceiveAgain, Wait, rpVars, vmVars, CallKept
<1>4. ASSUME NEW r \in RPs, BeginCopy(t, r) PROVE Owners'
  <2>1. /\ UNCHANGED <<state, msg, sender, receiver, dying, op, lnk, ptr>>
        /\ op[t] = "receive" /\ arg' = [arg EXCEPT ![t] = msg[r]]
    BY <1>4 DEF BeginCopy, Receives, Runs, rpVars
  <2>2. \A u \in Threads : CallKept(u)
    BY <1>0, <2>1 DEF CallKept
  <2> QED BY <2>1, <2>2, OwnersFrame
<1>5. ASSUME NEW r \in RPs, op[t] = "receive", ptr[lnk[t]] = r,
             sender[r] \in dying \/ msg[r] = Null \/ SendOwner(r),
             UNCHANGED <<msg, sender, receiver, dying>>,
             Returned(t), state' = [state EXCEPT ![r] = "DONE"],
             \A l \in LinkObjs : ptr[l] # Null => ptr'[l] = ptr[l]
      PROVE  Owners'
  <2>1. ASSUME NEW u \in Threads, u # t, NEW p \in RPs, ptr[lnk[u]] = p,
               op[u] \in {"send", "receive"}
        PROVE  CallKept(u)
    BY <1>0, <1>5, <2>1 DEF CallKept, Returned
  <2>2. OwnerAt(r)'
    <3>1. ASSUME sender[r] \notin dying, msg[r] # Null PROVE SendOwner(r)'
      <4>1. PICK u \in Threads : /\ op[u] = "send" /\ arg[u] = msg[r]
                                 /\ ptr[lnk[u]] = r /\ ThreadIso[u] = sender[r]
        BY <1>5, <3>1 DEF SendOwner
      <4>2. CallKept(u)
        BY <1>5, <2>1, <4>1
      <4> QED BY <1>5, <4>1, <4>2 DEF SendOwner, CallKept
    <3> QED BY <1>0, <1>5, <3>1 DEF OwnerAt, Underway
  <2>3. \A u \in Threads, p \in RPs : Owns(u, p) /\ p # r => CallKept(u)
    BY <1>5, <2>1 DEF Owns
  <2> QED BY <1>0, <1>5, <2>2, <2>3, OwnersChange
<1>6. ASSUME NEW r \in RPs, NEW ok \in BOOLEAN, EndCopy(t, r, ok) PROVE Owners'
  <2>1. op[t] = "receive" /\ ptr[lnk[t]] = r /\ msg[r] \in {arg[t], Null} /\ busy = t
    BY <1>6 DEF EndCopy, CopyUndisturbed, Types, CallShape
  <2>2. /\ UNCHANGED <<msg, sender, receiver, dying, ptr>>
        /\ Returned(t) /\ state' = [state EXCEPT ![r] = "DONE"]
    BY <1>6 DEF EndCopy, Transferred, Return, Returned
  <2>3. sender[r] \in dying \/ msg[r] = Null \/ SendOwner(r)
    BY <2>1 DEF CopyHasSender, CopyOwner, SendOwner
  <2> QED BY <1>5, <2>1, <2>2, <2>3
<1>7. ASSUME NEW r \in RPs, ReceiveOnClosed(t, r) PROVE Owners'
  <2>1. CASE Crash("staleRefid")
    BY <2>1, OwnersFrame DEF Crash, rpVars, callVars, CallKept
  <2>2. CASE ~Crash("staleRefid")
    <3>1. /\ ptr[lnk[t]] = r /\ state[r] = "CLOSED" /\ lnk[t] \in LinkObjs
          /\ UNCHANGED <<state, msg, sender, receiver, dying>> /\ Returned(t)
          /\ ptr' = [ptr EXCEPT ![lnk[t]] = Null]
      BY <1>0, <1>7, <2>2 DEF ReceiveOnClosed, Receives, Runs, Return, Returned, vmVars
    <3>2. OwnerAt(r)'
      BY <3>1 DEF OwnerAt, Underway
    <3>3. \A u \in Threads, q \in RPs : Owns(u, q) /\ q # r => CallKept(u)
      BY <1>0, <3>1 DEF Owns, CallKept, Returned
    <3> QED BY <3>1, <3>2, <3>3, OwnersChange
  <2> QED BY <2>1, <2>2
<1>8. ASSUME NEW r \in RPs, NEW l \in LinkObjs, ReceiveLink(t, r, l) PROVE Owners'
  <2>1. CASE Crash("nullRendezvous")
    BY <2>1, OwnersFrame DEF Crash, rpVars, callVars, CallKept
  <2>2. CASE ~Crash("nullRendezvous")
    <3>1. op[t] = "receive" /\ ptr[lnk[t]] = r /\ state[r] \in {"SENDING", "RENDEZVOUS"}
      BY <1>8 DEF ReceiveLink, Receives, Runs
    <3>2. /\ UNCHANGED <<msg, sender, receiver, dying>>
          /\ Returned(t) /\ state' = [state EXCEPT ![r] = "DONE"]
          /\ ptr[l] = Null /\ ptr' = [ptr EXCEPT ![l] = ptr[msg[r]]]
      BY <1>8, <2>2 DEF ReceiveLink, Transferred, Return, Returned, Fresh, vmVars
    <3>3. sender[r] \in dying \/ SendOwner(r)
      BY <3>1 DEF Owners, OwnerAt, Underway
    <3> QED BY <1>0, <1>5, <3>1, <3>2, <3>3
  <2> QED BY <2>1, <2>2
<1> QED BY <1>1, <1>2, <1>3, <1>4, <1>6, <1>7, <1>8 DEF Receive0

\* Steps of send0: the sender becomes owner, or ends the handshake.
LEMMA OwnersSend ==
  ASSUME Types, Owners, NEW t \in Threads, Send0(t)
  PROVE  Owners'
<1> USE DistinctNames
<1>0. /\ \A u \in Threads : op[u] \in {"send", "receive"} => lnk[u] \in LinkObjs
      /\ op \in [Threads -> Ops] /\ lnk \in [Threads -> LinkObjs \cup {Null}]
      /\ arg \in [Threads -> Messages \cup {Null}]
      /\ msg \in [RPs -> Messages \cup {Null}]
      /\ state \in [RPs -> States] /\ ptr \in [LinkObjs -> RPs \cup {Null}]
  BY DEF Types, CallTypes, CallShape, RendezvousTypes, PointerTypes
<1>1. ASSUME CallOnClosed(t, "send") \/ CallFromWrongIsolate(t, "send", sender)
      PROVE  Owners'
  <2>1. /\ UNCHANGED <<state, msg, sender, receiver, dying, ptr>> /\ Returned(t)
        /\ op[t] = "send" /\ (ptr[lnk[t]] = Null \/ sender[ptr[lnk[t]]] # ThreadIso[t])
    BY <1>1 DEF CallOnClosed, CallFromWrongIsolate, Runs, Return, Returned, rpVars, vmVars
  <2>2. \A u \in Threads, r \in RPs : Owns(u, r) => CallKept(u)
    BY <1>0, <2>1 DEF Owns, CallKept, Returned
  <2> QED BY <2>1, <2>2, OwnersFrame
<1>2. ASSUME NEW r \in RPs, SendFirst(t, r) \/ SendToReceiver(t, r) PROVE Owners'
  <2>1. /\ UNCHANGED <<sender, receiver, dying, op, lnk, arg, ptr>>
        /\ state' = [state EXCEPT ![r] = "SENDING"] \/ state' = [state EXCEPT ![r] = "RENDEZVOUS"]
        /\ msg' = [msg EXCEPT ![r] = arg[t]]
        /\ op[t] = "send" /\ ptr[lnk[t]] = r /\ sender[r] = ThreadIso[t]
    BY <1>2 DEF SendFirst, SendToReceiver, Sends, Runs, Wait, SignalAndWait, vmVars
  <2>2. OwnerAt(r)'
    BY <1>0, <2>1 DEF OwnerAt, SendOwner, Underway
  <2> QED BY <1>0, <2>1, <2>2, OwnersChange DEF CallKept
<1>3. ASSUME NEW r \in RPs, SendAgain(t, r) PROVE Owners'
  BY <1>3, OwnersFrame DEF SendAgain, Wait, rpVars, vmVars, CallKept
<1>4. ASSUME NEW r \in RPs, SendDone(t, r) \/ SendOnClosed(t, r) PROVE Owners'
  <2>1. /\ ptr[lnk[t]] = r /\ lnk[t] \in LinkObjs
        /\ UNCHANGED <<sender, receiver, dying>> /\ Returned(t)
        /\ msg' = [msg EXCEPT ![r] = Null]
        /\ (UNCHANGED state /\ state[r] = "CLOSED") \/ state' = [state EXCEPT ![r] = "IDLE"]
        /\ UNCHANGED ptr \/ ptr' = [ptr EXCEPT ![lnk[t]] = Null]
    BY <1>0, <1>4 DEF SendDone, SendOnClosed, Sends, Runs, Return, Returned, vmVars
  <2>2. OwnerAt(r)'
    BY <1>0, <2>1 DEF OwnerAt, Underway
  <2>3. \A u \in Threads, q \in RPs : Owns(u, q) /\ q # r => CallKept(u)
    BY <1>0, <2>1 DEF Owns, CallKept, Returned
  <2> QED BY <1>0, <2>1, <2>2, <2>3, OwnersChange
<1> QED BY <1>1, <1>2, <1>3, <1>4 DEF Send0

\* close() and finalize(): a closed rendezvous needs no owner.
LEMMA OwnersClose ==
  ASSUME Types, Owners, NEW l \in LinkObjs, ptr[l] # Null, NEW i, CloseLink(l, i)
  PROVE  Owners'
<1> USE DistinctNames
<1>1. CASE Crash("staleRefid")
  BY <1>1, OwnersFrame DEF Crash, rpVars, callVars, CallKept
<1>2. CASE ~Crash("staleRefid")
  <2>0. PICK r \in RPs : ptr[l] = r
    BY DEF Types, PointerTypes
  <2>1. /\ msg' = [msg EXCEPT ![r] = LeftOnClose(r, i)]
        /\ state' = [state EXCEPT ![r] = "CLOSED"]
        /\ ptr' = [ptr EXCEPT ![l] = Null]
        /\ UNCHANGED <<sender, receiver, dying, op, lnk, arg>>
    BY <1>2, <2>0 DEF CloseLink, callVars, vmVars
  <2>2. \A u \in Threads, q \in RPs : Owns(u, q) /\ q # r => CallKept(u)
    BY <2>0, <2>1 DEF Owns, CallKept, Types, CallTypes, CallShape, PointerTypes
  <2>3. OwnerAt(r)'
    BY <2>1 DEF OwnerAt, Underway, Types, RendezvousTypes
  <2> QED BY <2>1, <2>2, <2>3, OwnersChange DEF Types, RendezvousTypes
<1> QED BY <1>1, <1>2

\* Every step leaves an owner to each handshake.
LEMMA OwnersInductive ==
  ASSUME Types, CopyUndisturbed, CopyHasSender, Owners, [Next]_vars
  PROVE  Owners'
<1> USE DistinctNames
<1>0. /\ \A u \in Threads : op[u] \in {"send", "receive"} => lnk[u] \in LinkObjs
      /\ op \in [Threads -> Ops] /\ lnk \in [Threads -> LinkObjs \cup {Null}]
      /\ arg \in [Threads -> Messages \cup {Null}]
      /\ msg \in [RPs -> Messages \cup {Null}]
      /\ state \in [RPs -> States] /\ ptr \in [LinkObjs -> RPs \cup {Null}]
  BY DEF Types, CallTypes, CallShape, RendezvousTypes, PointerTypes
<1>1. ASSUME NEW t \in Threads, NEW l, \/ StartReceive(t, l) \/ StartGetLinks(t)
                                       \/ \E m \in Messages : StartSend(t, l, m)
      PROVE  Owners'
  <2>1. /\ UNCHANGED <<state, msg, sender, receiver, dying, ptr>> /\ op[t] = "idle"
        /\ \A u \in Threads : u # t => UNCHANGED <<op[u], lnk[u], arg[u]>>
    BY <1>0, <1>1 DEF StartReceive, StartGetLinks, StartSend, Begin, CanCall, rpVars, vmVars
  <2> QED BY <2>1, OwnersFrame DEF Owns, CallKept
<1>2. ASSUME NEW t \in Threads, NEW l \in LinkObjs, NEW r \in RPs,
             NEW e \in Endpoints, NewLink(t, l, r, e)
      PROVE  Owners'
  <2>1. /\ ptr[l] = Null /\ ptr' = [ptr EXCEPT ![l] = r]
        /\ sender' = [sender EXCEPT ![r] = e[1]]
        /\ receiver' = [receiver EXCEPT ![r] = e[2]]
        /\ state' = [state EXCEPT ![r] = "IDLE"]
        /\ msg' = [msg EXCEPT ![r] = Null] /\ UNCHANGED <<op, lnk, arg, dying>>
    BY <1>2 DEF NewLink, Fresh, callVars, vmVars
  <2>2. OwnerAt(r)'
    BY <1>0, <2>1 DEF OwnerAt, Underway
  <2>3. ASSUME NEW q \in RPs, q # r PROVE OwnerAt(q)'
    <3>1. \A u \in Threads : Owns(u, q) => CallKept(u)
      BY <1>0, <2>1 DEF Owns, CallKept
    <3>2. UNCHANGED <<state[q], msg[q], sender[q], receiver[q]>> /\ dying \subseteq dying'
      BY <1>0, <2>1, <2>3 DEF Types, RendezvousTypes
    <3>3. OwnerAt(q)
      BY DEF Owners
    <3> QED BY <3>1, <3>2, <3>3, OwnerKept
  <2> QED BY <2>2, <2>3 DEF Owners
<1>3. ASSUME NEW t \in Threads, NEW l \in LinkObjs, Close(t, l)
      PROVE  Owners'
  BY <1>3, OwnersClose DEF Close
<1>4. ASSUME NEW l \in LinkObjs, Finalize(l)
      PROVE  Owners'
  BY <1>4, OwnersClose DEF Finalize
<1>5. ASSUME NEW t \in Threads, NEW i, NEW n, NEW la, NEW isNull,
             SetLinks(t, i, n, la, isNull)
      PROVE  Owners'
  BY <1>5, OwnersFrame DEF SetLinks, Crash, rpVars, callVars, vmVars, CallKept
<1>6. ASSUME NEW t \in Threads, GetLinkCount(t) \/ EndThread(t)
      PROVE  Owners'
  <2>1. /\ UNCHANGED <<state, msg, sender, receiver, dying, ptr>>
        /\ op[t] = "getLinkCount" \/ ThreadIso[t] \in dying'
        /\ \A u \in Threads : u # t => UNCHANGED <<op[u], lnk[u], arg[u]>>
    BY <1>0, <1>6 DEF GetLinkCount, EndThread, Runs, Wait, rpVars, vmVars
  <2> QED BY <2>1, OwnersFrame DEF Owns, CallKept
<1>7. ASSUME NEW t \in Threads, NEW la \in [1..len[t] -> LinkObjs], GetLinks(t, la)
      PROVE  Owners'
  <2>1. /\ UNCHANGED <<state, msg, sender, receiver, dying>> /\ op[t] = "getLinks"
        /\ \A u \in Threads : u # t => UNCHANGED <<op[u], lnk[u], arg[u]>>
    <3>1. /\ UNCHANGED <<state, msg, sender, receiver, dying>> /\ op[t] = "getLinks"
          /\ UNCHANGED <<op, lnk, arg>> \/ Returned(t)
      BY <1>7 DEF GetLinks, Runs, Crash, Return, Returned, rpVars, callVars, vmVars
    <3> QED BY <1>0, <3>1 DEF Returned
  <2>2. \A l \in LinkObjs : ptr[l] # Null => ptr'[l] = ptr[l]
    BY <1>7, GetLinksFills
  <2> QED BY <1>0, <2>1, <2>2, OwnersFrame DEF Owns, CallKept
<1>8. ASSUME NEW i, Shutdown(i) \/ StopIsolate(i) \/ TaskFinalized(i)
      PROVE  Owners'
  BY <1>8, OwnersFrame DEF Shutdown, StopIsolate, TaskFinalized, Crash, rpVars,
     callVars, vmVars, CallKept
<1>9. CASE UNCHANGED vars
  BY <1>9, OwnersFrame DEF vars, rpVars, callVars, vmVars, CallKept
<1>10. ASSUME NEW t \in Threads, Calls(t) PROVE Owners'
  BY <1>1, <1>2, <1>3, <1>5, <1>10 DEF Calls
<1>11. ASSUME NEW t \in Threads, ThreadStep(t) PROVE Owners'
  BY <1>6, <1>7, <1>11, OwnersReceive, OwnersSend DEF ThreadStep
<1> QED BY <1>4, <1>6, <1>8, <1>9, <1>10, <1>11 DEF Next

\* A finalizer in the middle of copy() does not touch the Links in use.
LEMMA CopyHasSenderInductive ==
  ASSUME Types, Owners, CopyHasSender, [Next]_vars
  PROVE  CopyHasSender'
<1> USE DistinctNames
<1>0. /\ \A u \in Threads : op[u] \in {"send", "receive"} => lnk[u] \in LinkObjs
      /\ op \in [Threads -> Ops] /\ lnk \in [Threads -> LinkObjs \cup {Null}]
      /\ arg \in [Threads -> Messages \cup {Null}]
      /\ ptr \in [LinkObjs -> RPs \cup {Null}]
      /\ busy \in Threads => op[busy] = "receive"
  BY DEF Types, CallTypes, CallShape, PointerTypes
<1>1. ASSUME busy' \notin Threads PROVE CopyHasSender'
  BY <1>1 DEF CopyHasSender
<1>2. ASSUME NEW t \in Threads, NEW r \in RPs, BeginCopy(t, r) PROVE CopyHasSender'
  <2>1. /\ op[t] = "receive" /\ ptr[lnk[t]] = r /\ state[r] \in {"SENDING", "RENDEZVOUS"}
        /\ busy' = t /\ arg' = [arg EXCEPT ![t] = msg[r]]
        /\ UNCHANGED <<sender, dying, op, lnk, ptr>>
    BY <1>2 DEF BeginCopy, Receives, Runs, rpVars
  <2>2. sender[r] \in dying \/ SendOwner(r)
    BY <2>1 DEF Owners, OwnerAt, Underway
  <2>3. CASE SendOwner(r)
    <3>1. PICK s \in Threads : /\ op[s] = "send" /\ arg[s] = msg[r]
                               /\ ptr[lnk[s]] = r /\ ThreadIso[s] = sender[r]
      BY <2>3 DEF SendOwner
    <3> QED BY <1>0, <2>1, <3>1 DEF CopyHasSender, CopyOwner
  <2> QED BY <2>1, <2>2, <2>3 DEF CopyHasSender
<1>3. ASSUME NEW l \in LinkObjs, Finalize(l), busy \in Threads PROVE CopyHasSender'
  <2>1. LinkIso[l] \in Isolates
    BY Placement
  <2>2. ~InUse(l) /\ (UNCHANGED ptr \/ ptr' = [ptr EXCEPT ![l] = Null])
        /\ UNCHANGED <<sender, dying, op, lnk, arg, busy>>
    BY <1>3, <2>1 DEF Finalize, CloseLink, Crash, rpVars, callVars, vmVars
  <2>3. \A u \in Threads : lnk[u] \in LinkObjs => ptr'[lnk[u]] = ptr[lnk[u]]
    BY <1>0, <2>2 DEF InUse
  <2> QED BY <1>0, <1>3, <2>2, <2>3 DEF CopyHasSender, CopyOwner
<1>4. ASSUME NEW t \in Threads, Calls(t) PROVE busy' \notin Threads
  <2>1. ASSUME NEW l, \/ StartReceive(t, l) \/ StartGetLinks(t) \/ Close(t, l)
                      \/ \E m \in Messages : StartSend(t, l, m)
        PROVE  busy' \notin Threads
    BY <2>1 DEF StartReceive, StartSend, StartGetLinks, Begin, CanCall, Quiet, Close, CloseLink,
       Crash, vmVars
  <2>2. ASSUME NEW l, NEW r, NEW e, NewLink(t, l, r, e) PROVE busy' \notin Threads
    BY <2>2 DEF NewLink, CanCall, Quiet, vmVars
  <2>3. ASSUME NEW i, NEW n, NEW la, NEW isNull, SetLinks(t, i, n, la, isNull)
        PROVE  busy' \notin Threads
    BY <2>3 DEF SetLinks, CanCall, Quiet, Crash, vmVars
  <2> QED BY <1>4, <2>1, <2>2, <2>3 DEF Calls
<1>5. ASSUME NEW t \in Threads, ThreadStep(t), \A r \in RPs : ~BeginCopy(t, r)
      PROVE  busy' \notin Threads
  <2>1. ASSUME NEW r \in RPs, NEW ok, EndCopy(t, r, ok) PROVE busy' \notin Threads
    BY <2>1 DEF EndCopy
  <2>2. ASSUME NEW r \in RPs, NEW l, ReceiveFirst(t, r) \/ ReceiveAgain(t, r) \/ ReceiveOnClosed(t, r)
                                    \/ ReceiveLink(t, r, l)
        PROVE  busy' \notin Threads
    BY <2>2 DEF ReceiveFirst, ReceiveAgain, ReceiveOnClosed, ReceiveLink, Receives, Runs, Quiet,
       Crash, vmVars
  <2>3. ASSUME NEW what, NEW end, CallOnClosed(t, what) \/ CallFromWrongIsolate(t, what, end)
        PROVE  busy' \notin Threads
    BY <2>3 DEF CallOnClosed, CallFromWrongIsolate, Runs, Quiet, vmVars
  <2>4. ASSUME NEW r \in RPs, SendFirst(t, r) \/ SendToReceiver(t, r) \/ SendAgain(t, r)
                              \/ SendDone(t, r) \/ SendOnClosed(t, r)
        PROVE  busy' \notin Threads
    BY <2>4 DEF SendFirst, SendToReceiver, SendAgain, SendDone, SendOnClosed, Sends, Runs, Quiet, vmVars
  <2>5. ASSUME GetLinkCount(t) \/ \E la \in [1..len[t] -> LinkObjs] : GetLinks(t, la)
        PROVE  busy' \notin Threads
    BY <2>5 DEF GetLinkCount, GetLinks, Runs, Quiet, Crash, vmVars
  <2> QED BY <1>5, <2>1, <2>2, <2>3, <2>4, <2>5 DEF ThreadStep, Receive0, Send0
<1>6. ASSUME NEW t \in Threads, EndThread(t) PROVE busy' \notin Threads
  BY <1>6, Placement DEF EndThread
<1>7. ASSUME NEW i \in Isolates, StopIsolate(i) \/ TaskFinalized(i) \/ Shutdown(i)
      PROVE  busy' \notin Threads
  BY <1>7 DEF StopIsolate, TaskFinalized, Shutdown, Quiet, Crash, vmVars
<1>8. ASSUME NEW l \in LinkObjs, Finalize(l), busy \notin Threads PROVE busy' \notin Threads
  BY <1>8 DEF Finalize, CloseLink, Crash, vmVars
<1>9. CASE UNCHANGED vars
  BY <1>9 DEF vars, rpVars, callVars, vmVars, CopyHasSender, CopyOwner
<1>10. ASSUME NEW t \in Threads, ThreadStep(t) PROVE CopyHasSender'
  BY <1>1, <1>2, <1>5, <1>10
<1> QED BY <1>1, <1>3, <1>4, <1>6, <1>7, <1>8, <1>9, <1>10, Placement DEF Next

\* The end of copy() undoes what a finalizer did to rendezvous point r.
Undone(r) ==
  /\ busy \in Threads /\ ptr[lnk[busy]] = r /\ state'[r] = "DONE"
  /\ \/ sender[r] \in dying
     \/ \E s \in Threads : op[s] = "send" /\ arg[s] = arg[busy] /\ ptr[lnk[s]] = r

\* A closed rendezvous point stays closed until it is allocated again, but for that.
LEMMA ClosedStep ==
  ASSUME Types, CopyHasSender, [Next]_vars,
         NEW r \in RPs, Live(r), state[r] = "CLOSED"
  PROVE  state'[r] = "CLOSED" \/ Undone(r)
<1>0. state \in [RPs -> States]
  BY DEF Types, RendezvousTypes
<1>1. ASSUME NEW t \in Threads, Receive0(t) PROVE state'[r] = "CLOSED" \/ Undone(r)
  <2>1. ASSUME NEW q \in RPs, NEW ok \in BOOLEAN, EndCopy(t, q, ok)
        PROVE  state'[r] = "CLOSED" \/ Undone(r)
    <3>1. busy = t /\ ptr[lnk[t]] = q /\ state' = [state EXCEPT ![q] = "DONE"]
      BY <2>1 DEF EndCopy, Transferred
    <3>2. CASE q = r
      BY <1>0, <3>1, <3>2 DEF Undone, CopyHasSender, CopyOwner
    <3> QED BY <1>0, <3>1, <3>2
  <2>2. ASSUME CallOnClosed(t, "receive") \/ CallFromWrongIsolate(t, "receive", receiver)
        PROVE  state'[r] = "CLOSED"
    BY <2>2 DEF CallOnClosed, CallFromWrongIsolate, rpVars
  <2>3. ASSUME NEW q \in RPs,
               \/ ReceiveFirst(t, q) \/ ReceiveAgain(t, q) \/ BeginCopy(t, q)
               \/ ReceiveOnClosed(t, q) \/ \E l \in LinkObjs : ReceiveLink(t, q, l)
        PROVE  state'[r] = "CLOSED"
    BY <1>0, <2>3 DEF ReceiveFirst, ReceiveAgain, BeginCopy, ReceiveOnClosed,
       ReceiveLink, Transferred, Idle, Crash, rpVars
  <2> QED BY <1>1, <2>1, <2>2, <2>3 DEF Receive0
<1>2. ASSUME NEW t \in Threads, Send0(t) PROVE state'[r] = "CLOSED"
  BY <1>0, <1>2 DEF Send0, CallOnClosed, CallFromWrongIsolate, SendFirst,
     SendToReceiver, SendAgain, SendDone, SendOnClosed, Idle, rpVars
<1>3. ASSUME NEW l \in LinkObjs, NEW i, CloseLink(l, i) PROVE state'[r] = "CLOSED"
  BY <1>0, <1>3 DEF CloseLink, Crash, rpVars
<1>4. ASSUME NEW t \in Threads, Calls(t) PROVE state'[r] = "CLOSED"
  <2>1. ASSUME NEW l, NEW q \in RPs, NEW e, NewLink(t, l, q, e)
        PROVE  state'[r] = "CLOSED"
    BY <1>0, <2>1 DEF NewLink
  <2>2. ASSUME NEW i, NEW n, NEW la, NEW isNull, SetLinks(t, i, n, la, isNull)
        PROVE  state' = state
    BY <2>2 DEF SetLinks, Crash, rpVars
  <2>3. ASSUME NEW l, \/ StartReceive(t, l) \/ StartGetLinks(t)
                      \/ \E m \in Messages : StartSend(t, l, m)
        PROVE  state' = state
    BY <2>3 DEF StartReceive, StartGetLinks, StartSend, Begin, rpVars
  <2> QED BY <1>3, <1>4, <2>1, <2>2, <2>3 DEF Calls, Close
<1>5. ASSUME NEW t \in Threads, ThreadStep(t) PROVE state'[r] = "CLOSED" \/ Undone(r)
  <2>1. ASSUME NEW la, GetLinks(t, la) PROVE state' = state
    BY <2>1 DEF GetLinks, Crash, rpVars
  <2> QED BY <1>1, <1>2, <1>5, <2>1 DEF ThreadStep, GetLinkCount, rpVars
<1>6. ASSUME NEW l \in LinkObjs, Finalize(l) PROVE state'[r] = "CLOSED"
  BY <1>3, <1>6 DEF Finalize
<1>7. ASSUME NEW i, Shutdown(i) \/ StopIsolate(i) \/ TaskFinalized(i) \/ EndThread(i)
      PROVE  state'[r] = "CLOSED"
  BY <1>7 DEF Shutdown, StopIsolate, TaskFinalized, EndThread, Crash, rpVars
<1>8. CASE UNCHANGED vars
  BY <1>8 DEF vars, rpVars
<1> QED BY <1>4, <1>5, <1>6, <1>7, <1>8 DEF Next

-----------------------------------------------------------------------------
(* Theorems                                                                *)

\* The start: nothing allocated, nobody in a native.
LEMMA HandshakeInit ==
  ASSUME Init
  PROVE  /\ BlockedForAReason /\ Transfers /\ Cleaning /\ Owners /\ CopyHasSender
         /\ NoStaleRefid
<1> USE DistinctNames
<1>1. BlockedForAReason
  BY DEF Init, BlockedForAReason
<1>2. Transfers
  BY DEF Init, Transfers, CopyUndisturbed, Agreement, Owed
<1>3. Cleaning
  BY DEF Init, Cleaning, OwnLinks, Ends, Cleaners
<1>4. Owners
  BY DEF Init, Owners, OwnerAt, Underway
<1>5. CopyHasSender
  BY DEF Init, CopyHasSender
<1> QED BY <1>1, <1>2, <1>3, <1>4, <1>5 DEF Init, NoStaleRefid

\* Exact counts and types, which everything else rests on.
LEMMA Base == Spec => [](Types /\ RefcountExact)
<1>1. Init => Types /\ RefcountExact
  BY InitCounts
<1>2. Types /\ RefcountExact /\ [Next]_vars => (Types /\ RefcountExact)'
  BY TypesInductive, CountInductive
<1> QED BY <1>1, <1>2, PTL DEF Spec

\* No thread sleeps in send0, receive0 or getLinkCount0 although it could go on:
\* every change of a rendezvous or a portal that matters to a blocked thread
\* signals it, and a signal reaches all of them.
THEOREM NoWakeupIsLost == Spec => []NoLostWakeup
<1>1. Init => BlockedForAReason
  BY HandshakeInit
<1>2. Types /\ RefcountExact /\ BlockedForAReason /\ [Next]_vars => BlockedForAReason'
  BY BlockedInductive
<1>3. Types /\ BlockedForAReason => NoLostWakeup
  BY BlockedCannotProceed
<1> QED BY <1>1, <1>2, <1>3, Base, PTL DEF Spec

\* What receive0 took out is what exactly one send0 reports, finalizers in the
\* middle of copy() and dying isolates included.
THEOREM BothSidesAgree == Spec => []SendReceiptAgreement
<1>1. Init => Transfers
  BY HandshakeInit
<1>2. Types /\ Transfers /\ [Next]_vars => Transfers'
  BY TransfersInductive
<1>3. Transfers => SendReceiptAgreement
  <2>1. ASSUME Transfers, NEW r \in RPs
        PROVE  CASE state[r] = "DONE" /\ retcode[r] = "OK" ->
                      \E m \in Messages : unacked[r] = Just(m) /\ msg[r] \in {m, Null}
                 [] state[r] = "CLOSED" ->
                      unacked[r] \in {Nothing} \cup {Just(m) : m \in Messages}
                 [] OTHER -> unacked[r] = Nothing
    BY <2>1 DEF Transfers, Agreement, Owed
  <2> QED BY <2>1 DEF SendReceiptAgreement
<1> QED BY <1>1, <1>2, <1>3, Base, PTL DEF Spec

\* Between different isolates, a message left in a rendezvous point can always
\* be cleaned out by a Link of the sending isolate.
THEOREM MessagesHaveCleaners ==
  ASSUME DistinctEnds
  PROVE  Spec => []StrandedMessageHasCleaner
<1>1. Init => Cleaning
  BY HandshakeInit
<1>2. Types /\ Cleaning /\ [Next]_vars => Cleaning'
  BY CleaningInductive
<1>3. Cleaning => StrandedMessageHasCleaner
  BY DEF Cleaning, Cleaners, HasCleaner, StrandedMessageHasCleaner, LinkHolders
<1> QED BY <1>1, <1>2, <1>3, Base, PTL DEF Spec

\* So rp_decref never finds "refcount 0 with stale refid!" there: the fatal
\* error needs a link of an isolate with itself.
THEOREM NoFatalErrorBetweenIsolates ==
  ASSUME DistinctEnds
  PROVE  Spec => []NoStaleRefid
<1>1. Init => Cleaning /\ NoStaleRefid
  BY HandshakeInit
<1>2. Types /\ RefcountExact /\ Cleaning /\ NoStaleRefid /\ [Next]_vars
        => (Cleaning /\ NoStaleRefid)'
  BY CleaningInductive, NoStaleInductive
<1> QED BY <1>1, <1>2, Base, PTL DEF Spec

\* What the two theorems below rest on.
LEMMA OwnersAlways == Spec => [](Types /\ Transfers /\ Owners /\ CopyHasSender)
<1>1. Init => Transfers /\ Owners /\ CopyHasSender
  BY HandshakeInit
<1>2. Types /\ Transfers /\ Owners /\ CopyHasSender /\ [Next]_vars
        => (Transfers /\ Owners /\ CopyHasSender)'
  BY TransfersInductive, OwnersInductive, CopyHasSenderInductive DEF Transfers
<1> QED BY <1>1, <1>2, Base, PTL DEF Spec

\* A handshake in progress belongs to a thread inside send0 or receive0, or its
\* isolate is being stopped, whatever is left to finalizers; only a copy whose
\* message a finalizer took away in the middle of it may stay without one.
THEOREM HandshakesHaveOwners == Spec => []HandshakeHasOwner
<1>1. Owners => HandshakeHasOwner
  BY DEF Owners, OwnerAt, Underway, SendOwner, ReceiveOwner, HandshakeHasOwner
<1> QED BY <1>1, OwnersAlways, PTL

\* CLOSED, "no further operations permitted", is left only by a receive0 that
\* finds its link closed by a finalizer after copy(), under a sender that is
\* still inside send0 with that message or being stopped.
THEOREM ClosedLinksStayClosed == Spec => ClosedUnlessCopied
<1>1. Types /\ CopyHasSender /\ [Next]_vars
        => [\A r \in RPs :
              Live(r) /\ state[r] = "CLOSED" /\ Live(r)' /\ state'[r] # "CLOSED"
              => /\ busy \in Threads /\ ptr[lnk[busy]] = r /\ state'[r] = "DONE"
                 /\ \/ sender[r] \in dying
                    \/ \E s \in Threads : /\ op[s] = "send" /\ arg[s] = arg[busy]
                                          /\ ptr[lnk[s]] = r]_vars
  BY ClosedStep DEF Undone
<1> QED BY <1>1, OwnersAlways, PTL DEF Spec, ClosedUnlessCopied
=============================================================================
