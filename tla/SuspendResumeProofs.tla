------------------------- MODULE SuspendResumeProofs -------------------------
(***************************************************************************)
(* Proofs about SuspendResume, for any number of MIDlets, suspensions and  *)
(* acts.                                                                   *)
(***************************************************************************)
EXTENDS SuspendResume, ListFacts

(* What the threads of the AMS execute.                                    *)
Monitors == {"this", "lock", "midletProxies"}
Calling == {"drop", "removed", "remove", "start", "suspend", "resume", "suspendImpl",
            "suspended0", "terminate", "terminateNotPaused", "pauseMidlet", "activateAll",
            "create", "isResumePending", "getMIDlets", "terminatePauseAll"}
Statements == [do : {"enter", "exit"} \cup Calling, of : Midlets \cup Monitors \cup {None}]

At(c, i, d, x) == i \in DOMAIN c /\ c[i].do = d /\ c[i].of = x
Has(c, d, x) == \E i \in DOMAIN c : At(c, i, d, x)

(* A thread that is about to suspend the system will leave its monitor,    *)
(* one that completes the suspension the lock; both come before all else.  *)
(* Who enters a monitor leaves it behind the next statement, and a proxy's *)
(* removal is reported.                                                    *)
Shape(c) ==
  /\ c \in Seq(Statements)
  /\ \A i \in DOMAIN c :
       /\ c[i].do = "suspend" => i = 1 /\ At(c, 2, "exit", "this")
       /\ c[i].do = "suspendImpl" => i = 1 /\ At(c, 2, "suspended0", None)
       /\ c[i].do = "suspended0" =>
            /\ i = 1 \/ (i = 2 /\ c[1].do = "suspendImpl")
            /\ At(c, i + 1, "exit", "lock")
       /\ c[i].do = "enter" => c[i].of # "midletProxies" /\ At(c, i + 2, "exit", c[i].of)
       /\ c[i].do = "remove" => At(c, i + 2, "removed", c[i].of)

(* What the event thread does to the list of proxies ms: the MIDlets it    *)
(* still has to pause have a proxy, which nothing else it does concerns,   *)
(* and the monitor of the list is left after that.  A proxy is made last,  *)
(* when an older one is gone or goes first.                                *)
Concerns == {"pauseMidlet", "terminate", "terminateNotPaused", "remove"}
Loop(c, ms) ==
  /\ \A i \in DOMAIN c : c[i].do = "pauseMidlet" =>
       /\ c[i].of \in Elems(ms)
       /\ \E j \in DOMAIN c : j > i /\ At(c, j, "exit", "midletProxies")
       /\ \A j \in DOMAIN c : j # i /\ c[j].of = c[i].of => c[j].do \notin Concerns
  /\ \A i \in DOMAIN c : c[i].do = "create" =>
       i = Len(c) /\ (c[i].of \in Elems(ms) => Has(c, "remove", c[i].of))

EventNames == {"CREATE", "ACTIVE", "PAUSED", "RS_PAUSED", "DESTROYED", "RESUME_REQUEST",
               "FOREGROUND", "FATAL_ERROR", "PAUSE_ALL", "ACTIVATE_ALL", "activate", "pause"}
Events == [type : EventNames, of : Midlets \cup {None}]
Works == {"idle", "constructor", "startApp", "pauseApp", "suspend", "destroyApp"}

Types ==
  /\ TypeOK
  /\ list \in Seq(Midlets) /\ NoRepeat(list) /\ amsq \in Seq(Events)
  /\ inbox \in [Midlets -> Seq({"activate", "pause"})] /\ work \in [Midlets -> Works]

Threads ==
  /\ code \in [AMSThreads -> Seq(Statements)]
  /\ \A t \in AMSThreads : Shape(code[t])

(* Only one thread suspends the system, and only the active one; only one  *)
(* completes a suspension, and while it does nothing is depended on.       *)
Lonely(d) ==
  \A t, u \in AMSThreads : Has(code[t], d, None) /\ Has(code[u], d, None) => t = u
Suspending ==
  /\ Lonely("suspend") /\ Lonely("suspendImpl")
  /\ \A t \in AMSThreads : Has(code[t], "suspend", None) => state = "ACTIVE"
  /\ \A t \in AMSThreads : Has(code[t], "suspendImpl", None) => state = "SUSPENDING" /\ deps = {}

(* In a suspended system a request waits for a resumption that comes       *)
(* before it: the native side was active.                                  *)
QueuedAt(q, i, e) == i \in DOMAIN q /\ q[i] = Event(e, None)
Resumes == (\E i \in DOMAIN amsq : QueuedAt(amsq, i, "ACTIVATE_ALL")) \/ Has(code["E"], "resume", None)
ResumesFirst ==
  \E i \in DOMAIN amsq :
    /\ QueuedAt(amsq, i, "PAUSE_ALL")
    /\ \/ Has(code["E"], "resume", None)
       \/ \E j \in DOMAIN amsq : j < i /\ QueuedAt(amsq, j, "ACTIVATE_ALL")
Promised ==
  sr \in {"SUSPENDING", "RESUMING"} =>
    \/ Ahead("suspend", None) \/ Ahead("suspended0", None) \/ state = "SUSPENDING"
    \/ state = "ACTIVE" /\ (Queued("PAUSE_ALL") \/ Ahead("start", None))
    \/ state = "SUSPENDED" /\ ResumesFirst
Backed ==
  sr = "ACTIVE" /\ state = "SUSPENDED" => Ahead("suspended0", None) \/ Resumes

IInv ==
  /\ Types /\ Threads /\ Loop(code["E"], list) /\ Suspending
  /\ TimerWhileSuspending /\ Promised /\ Backed /\ DependencyHasProxy

USE Cast DEF At

-----------------------------------------------------------------------------
(* Statements.                                                             *)

\* What is left of s without the first k statements.
Suffix(s, k, r) ==
  /\ k \in 0 .. Len(s) /\ r \in Seq(Statements) /\ Len(r) = Len(s) - k
  /\ \A i \in 1 .. Len(r) : r[i] = s[k + i]

\* LeaveMonitors drops the exits at the beginning.
LEMMA Leaves ==
  ASSUME NEW s \in Seq(Statements)
  PROVE  \E k \in Nat : Suffix(s, k, LeaveMonitors(s)) /\ \A i \in 1 .. k : s[i].do = "exit"
<1> DEFINE busy == {i \in DOMAIN s : s[i].do # "exit"}
<1>1. CASE busy = {}
  <2>1. LeaveMonitors(s) = << >>
    BY <1>1 DEF LeaveMonitors
  <2>2. Suffix(s, Len(s), << >>)
    BY DEF Suffix
  <2>3. \A i \in 1 .. Len(s) : s[i].do = "exit"
    BY <1>1
  <2>4. Len(s) \in Nat
    OBVIOUS
  <2> QED BY <2>1, <2>2, <2>3, <2>4
<1>2. CASE busy # {}
  <2> DEFINE n == CHOOSE i \in busy : \A j \in busy : i <= j
  <2>1. \E i \in busy : \A j \in busy : i <= j
    <3>1. busy \in SUBSET Nat
      OBVIOUS
    <3> QED BY <1>2, <3>1, LeastExists
  <2>2. n \in busy /\ \A j \in busy : n <= j
    BY <2>1
  <2>3. LeaveMonitors(s) = SubSeq(s, n, Len(s))
    BY <1>2 DEF LeaveMonitors
  <2> HIDE DEF n
  <2>4. n \in 1 .. Len(s) /\ n - 1 \in Nat /\ n = (n - 1) + 1
    BY <2>2
  <2>5. Suffix(s, n - 1, SubSeq(s, n, Len(s)))
    BY <2>4 DEF Suffix
  <2>6. \A i \in 1 .. n - 1 : s[i].do = "exit"
    BY <2>2, <2>4
  <2> QED BY <2>3, <2>4, <2>5, <2>6
<1> QED BY <1>1, <1>2

\* The end of what a thread executes has the same shape.
LEMMA ShapeSuffix ==
  ASSUME NEW s, NEW k, NEW r, Shape(s), Suffix(s, k, r)
  PROVE  Shape(r)
<1>1. s \in Seq(Statements) /\ r \in Seq(Statements)
  BY DEF Shape, Suffix
<1>2. ASSUME NEW i \in DOMAIN r
      PROVE  k + i \in DOMAIN s /\ r[i] = s[k + i] /\ i \in Nat /\ k \in Nat /\ i >= 1
  BY <1>1 DEF Suffix
<1>3. \A i \in Nat : i >= 1 /\ k + i \in DOMAIN s => i \in DOMAIN r
  BY <1>1 DEF Suffix
<1>4. ASSUME NEW i \in DOMAIN r
      PROVE  /\ r[i].do = "suspend" => i = 1 /\ At(r, 2, "exit", "this")
             /\ r[i].do = "suspendImpl" => i = 1 /\ At(r, 2, "suspended0", None)
  <2>1. r[i].do \in {"suspend", "suspendImpl"} => k + i = 1
    BY <1>2 DEF Shape
  <2>2. k + i = 1 => k = 0 /\ i = 1
    BY <1>2
  <2>3. k = 0 => \A j \in Nat : j \in DOMAIN s => j \in DOMAIN r /\ r[j] = s[j]
    BY <1>1 DEF Suffix
  <2>4. /\ r[i].do = "suspend" => At(s, 2, "exit", "this")
        /\ r[i].do = "suspendImpl" => At(s, 2, "suspended0", None)
    <3>1. PICK j \in DOMAIN s : r[i].do = s[j].do
      BY <1>2
    <3>2. /\ s[j].do = "suspend" => At(s, 2, "exit", "this")
          /\ s[j].do = "suspendImpl" => At(s, 2, "suspended0", None)
      BY <3>1 DEF Shape
    <3> QED BY <3>1, <3>2
  <2>5. k = 0 => \A d, x : At(s, 2, d, x) => At(r, 2, d, x)
    BY <2>3
  <2> QED BY <2>1, <2>2, <2>4, <2>5
<1>5. ASSUME NEW i \in DOMAIN r, r[i].do = "suspended0"
      PROVE  (i = 1 \/ (i = 2 /\ r[1].do = "suspendImpl")) /\ At(r, i + 1, "exit", "lock")
  <2>1. k + i = 1 \/ (k + i = 2 /\ s[1].do = "suspendImpl")
    BY <1>2, <1>5 DEF Shape
  <2>2. At(s, (k + i) + 1, "exit", "lock")
    BY <1>2, <1>5 DEF Shape
  <2>3. At(r, i + 1, "exit", "lock")
    <3>1. (k + i) + 1 = k + (i + 1) /\ i + 1 \in Nat /\ i + 1 >= 1
      BY <1>2
    <3> QED BY <1>2, <1>3, <2>2, <3>1
  <2>4. i = 1 \/ (i = 2 /\ k = 0)
    BY <1>2, <2>1
  <2>5. k = 0 => r[1] = s[1]
    BY <1>2 DEF Suffix
  <2> QED BY <2>1, <2>3, <2>4, <2>5
<1>6. ASSUME NEW i \in DOMAIN r
      PROVE  /\ r[i].do = "enter" => r[i].of # "midletProxies" /\ At(r, i + 2, "exit", r[i].of)
             /\ r[i].do = "remove" => At(r, i + 2, "removed", r[i].of)
  <2>1. (k + i) + 2 = k + (i + 2) /\ i + 2 \in Nat /\ i + 2 >= 1
    BY <1>2
  <2>2. \A d, x : At(s, (k + i) + 2, d, x) => At(r, i + 2, d, x)
    BY <1>2, <1>3, <2>1
  <2>3. s[k + i] = r[i] /\ k + i \in DOMAIN s
    BY <1>2
  <2>4. /\ s[k + i].do = "enter" => s[k + i].of # "midletProxies" /\ At(s, (k + i) + 2, "exit", s[k + i].of)
        /\ s[k + i].do = "remove" => At(s, (k + i) + 2, "removed", s[k + i].of)
    BY <2>3 DEF Shape
  <2>5. r[i].do = "enter" => r[i].of # "midletProxies" /\ At(r, i + 2, "exit", r[i].of)
    BY <2>2, <2>3, <2>4
  <2>6. r[i].do = "remove" => At(r, i + 2, "removed", r[i].of)
    BY <2>2, <2>3, <2>4
  <2> QED BY <2>5, <2>6
<1> QED BY <1>1, <1>4, <1>5, <1>6 DEF Shape

\* Statements joined, and where each of them is.
Concatenates(a, b) ==
  /\ a \o b \in Seq(Statements) /\ Len(a \o b) = Len(a) + Len(b)
  /\ \A i \in 1 .. Len(a) + Len(b) : (a \o b)[i] = IF i <= Len(a) THEN a[i] ELSE b[i - Len(a)]
\* It is what \o does.
LEMMA Joins ==
  ASSUME NEW a \in Seq(Statements), NEW b \in Seq(Statements)
  PROVE  Concatenates(a, b)
BY JoinedAt DEF Concatenates

\* A thread is not about to suspend the system or complete a suspension.
Plain(c) == \A i \in DOMAIN c : c[i].do \notin {"suspend", "suspendImpl", "suspended0"}

\* Statements before others.
LEMMA ShapeJoined ==
  ASSUME NEW a, NEW b, Shape(a), Shape(b), Plain(b)
  PROVE  Shape(a \o b) /\ \A d, x : Has(a \o b, d, x) <=> Has(a, d, x) \/ Has(b, d, x)
<1> DEFINE c == a \o b
<1>1. /\ a \in Seq(Statements) /\ b \in Seq(Statements)
      /\ Len(a) \in Nat /\ Len(b) \in Nat /\ DOMAIN a = 1 .. Len(a) /\ DOMAIN b = 1 .. Len(b)
  BY DEF Shape
<1>2. /\ c \in Seq(Statements) /\ Len(c) = Len(a) + Len(b)
      /\ \A i \in 1 .. Len(a) + Len(b) : c[i] = IF i <= Len(a) THEN a[i] ELSE b[i - Len(a)]
  BY <1>1, JoinedAt
<1> HIDE DEF c
<1>3. DOMAIN c = 1 .. Len(a) + Len(b)
  BY <1>1, <1>2
<1>4. \A i \in DOMAIN a : i \in DOMAIN c /\ c[i] = a[i]
  BY <1>1, <1>2, <1>3
<1>5. ASSUME NEW i \in DOMAIN b
      PROVE  Len(a) + i \in DOMAIN c /\ c[Len(a) + i] = b[i]
  <2>1. i \in 1 .. Len(b) /\ Len(a) \in Nat /\ Len(b) \in Nat
    BY <1>1
  <2>2. Len(a) + i \in 1 .. Len(a) + Len(b) /\ ~ (Len(a) + i <= Len(a)) /\ (Len(a) + i) - Len(a) = i
    BY <2>1
  <2>3. c[Len(a) + i] = b[(Len(a) + i) - Len(a)]
    BY <1>2, <2>2
  <2> QED BY <1>3, <2>2, <2>3
<1>6. ASSUME NEW i \in DOMAIN c
      PROVE  i \in DOMAIN a \/ \E j \in DOMAIN b : i = Len(a) + j
  <2>1. i \in DOMAIN a \/ i - Len(a) \in DOMAIN b
    BY <1>1, <1>3
  <2> QED BY <1>1, <1>3, <2>1
<1>7. \A d, x : Has(c, d, x) <=> Has(a, d, x) \/ Has(b, d, x)
  BY <1>4, <1>5, <1>6 DEF Has
<1>8. ASSUME NEW i \in DOMAIN a
      PROVE  /\ c[i].do = "suspend" => i = 1 /\ At(c, 2, "exit", "this")
             /\ c[i].do = "suspendImpl" => i = 1 /\ At(c, 2, "suspended0", None)
             /\ c[i].do = "suspended0" => /\ i = 1 \/ (i = 2 /\ c[1].do = "suspendImpl")
                                          /\ At(c, i + 1, "exit", "lock")
             /\ c[i].do = "enter" => c[i].of # "midletProxies" /\ At(c, i + 2, "exit", c[i].of)
             /\ c[i].do = "remove" => At(c, i + 2, "removed", c[i].of)
  <2>1. \A j, d, x : At(a, j, d, x) => At(c, j, d, x)
    BY <1>4
  <2>2. i = 2 => c[1] = a[1]
    BY <1>1, <1>4
  <2>3. a[i] = c[i] /\ i \in DOMAIN a
    BY <1>4
  <2>4. /\ a[i].do = "suspend" => i = 1 /\ At(a, 2, "exit", "this")
        /\ a[i].do = "suspendImpl" => i = 1 /\ At(a, 2, "suspended0", None)
        /\ a[i].do = "suspended0" => /\ i = 1 \/ (i = 2 /\ a[1].do = "suspendImpl")
                                     /\ At(a, i + 1, "exit", "lock")
    BY DEF Shape
  <2>5. /\ a[i].do = "enter" => a[i].of # "midletProxies" /\ At(a, i + 2, "exit", a[i].of)
        /\ a[i].do = "remove" => At(a, i + 2, "removed", a[i].of)
    BY DEF Shape
  <2>6. /\ c[i].do = "suspend" => i = 1 /\ At(c, 2, "exit", "this")
        /\ c[i].do = "suspendImpl" => i = 1 /\ At(c, 2, "suspended0", None)
        /\ c[i].do = "suspended0" => /\ i = 1 \/ (i = 2 /\ c[1].do = "suspendImpl")
                                     /\ At(c, i + 1, "exit", "lock")
    BY <2>1, <2>2, <2>3, <2>4
  <2>7. /\ c[i].do = "enter" => c[i].of # "midletProxies" /\ At(c, i + 2, "exit", c[i].of)
        /\ c[i].do = "remove" => At(c, i + 2, "removed", c[i].of)
    BY <2>1, <2>3, <2>5
  <2> QED BY <2>6, <2>7
<1>9. ASSUME NEW i \in DOMAIN c, NEW j \in DOMAIN b, i = Len(a) + j
      PROVE  /\ c[i].do \notin {"suspend", "suspendImpl", "suspended0"}
             /\ c[i].do = "enter" => c[i].of # "midletProxies" /\ At(c, i + 2, "exit", c[i].of)
             /\ c[i].do = "remove" => At(c, i + 2, "removed", c[i].of)
  <2>1. c[i] = b[j] /\ i + 2 = Len(a) + (j + 2)
    BY <1>1, <1>5, <1>9
  <2>2. \A d, x : At(b, j + 2, d, x) => At(c, i + 2, d, x)
    BY <1>5, <2>1
  <2> QED BY <2>1, <2>2 DEF Plain, Shape
<1>10. Shape(c)
  <2> SUFFICES ASSUME NEW i \in DOMAIN c
               PROVE  /\ c[i].do = "suspend" => i = 1 /\ At(c, 2, "exit", "this")
                      /\ c[i].do = "suspendImpl" => i = 1 /\ At(c, 2, "suspended0", None)
                      /\ c[i].do = "suspended0" => /\ i = 1 \/ (i = 2 /\ c[1].do = "suspendImpl")
                                                   /\ At(c, i + 1, "exit", "lock")
                      /\ c[i].do = "enter" => c[i].of # "midletProxies" /\ At(c, i + 2, "exit", c[i].of)
                      /\ c[i].do = "remove" => At(c, i + 2, "removed", c[i].of)
    BY <1>2 DEF Shape
  <2> QED BY <1>6, <1>8, <1>9
<1> QED BY <1>7, <1>10 DEF c

\* The first statement and the others.
LEMMA FirstAndOthers ==
  ASSUME NEW c, Shape(c), c # << >>
  PROVE  /\ Shape(Tail(c))
         /\ Head(c) = c[1] /\ 1 \in DOMAIN c
         /\ Head(c).do # "suspendImpl" => Plain(Tail(c))
         /\ \A d, x : Has(c, d, x) <=> At(c, 1, d, x) \/ Has(Tail(c), d, x)
<1> DEFINE r == Tail(c)
<1>1. c \in Seq(Statements)
  BY DEF Shape
<1>2. /\ r \in Seq(Statements) /\ Len(r) = Len(c) - 1 /\ Len(c) >= 1 /\ Len(c) \in Nat
      /\ \A i \in 1 .. Len(r) : r[i] = c[1 + i]
  BY <1>1
<1>3. Head(c) = c[1] /\ 1 \in DOMAIN c
  BY <1>1
<1> HIDE DEF r
<1>4. Suffix(c, 1, r)
  BY <1>2 DEF Suffix
<1>5. DOMAIN c = 1 .. Len(c) /\ DOMAIN r = 1 .. Len(r)
  BY <1>1, <1>2
<1>6. \A i \in DOMAIN r : 1 + i \in DOMAIN c /\ 1 + i # 1 /\ r[i] = c[1 + i]
  BY <1>2, <1>5
<1>7. \A i \in DOMAIN c : i = 1 \/ (i - 1 \in DOMAIN r /\ i = 1 + (i - 1))
  BY <1>2, <1>5
<1>8. ASSUME Head(c).do # "suspendImpl"
      PROVE  Plain(r)
  <2>1. \A i \in DOMAIN c : i # 1 => c[i].do \notin {"suspend", "suspendImpl", "suspended0"}
    BY <1>3, <1>8 DEF Shape
  <2> QED BY <1>6, <2>1 DEF Plain
<1>9. \A d, x : Has(c, d, x) <=> At(c, 1, d, x) \/ Has(r, d, x)
  BY <1>3, <1>6, <1>7 DEF Has
<1> QED BY <1>3, <1>4, <1>8, <1>9, ShapeSuffix DEF r

\* Leaving monitors loses no statement.
LEMMA LeavesAll ==
  ASSUME NEW s, Shape(s)
  PROVE  /\ Shape(LeaveMonitors(s))
         /\ \A d, x : d # "exit" => (Has(LeaveMonitors(s), d, x) <=> Has(s, d, x))
<1> DEFINE r == LeaveMonitors(s)
<1>1. s \in Seq(Statements)
  BY DEF Shape
<1>2. PICK k \in Nat : Suffix(s, k, r) /\ \A i \in 1 .. k : s[i].do = "exit"
  BY <1>1, Leaves
<1> HIDE DEF r
<1>3. DOMAIN s = 1 .. Len(s) /\ DOMAIN r = 1 .. Len(r) /\ Len(s) \in Nat /\ r \in Seq(Statements)
  BY <1>1, <1>2 DEF Suffix
<1>4. \A i \in DOMAIN r : k + i \in DOMAIN s /\ r[i] = s[k + i]
  BY <1>2, <1>3 DEF Suffix
<1>5. \A i \in DOMAIN s : i \in 1 .. k \/ (i - k \in DOMAIN r /\ i = k + (i - k))
  BY <1>2, <1>3 DEF Suffix
<1>6. \A d, x : d # "exit" => (Has(r, d, x) <=> Has(s, d, x))
  BY <1>2, <1>4, <1>5 DEF Has
<1> QED BY <1>2, <1>6, ShapeSuffix DEF r

-----------------------------------------------------------------------------
(* Monitors.                                                               *)

\* A function that is one to one and reaches everything.
LEMMA OneToOne ==
  ASSUME NEW S, NEW T, NEW f \in [S -> T], \A x, y \in S : f[x] = f[y] => x = y,
         \A z \in T : \E x \in S : f[x] = z
  PROVE  ExistsBijection(S, T)
<1>1. f \in Injection(S, T)
  BY DEF Injection, IsInjective
<1>2. f \in Surjection(S, T)
  BY DEF Surjection
<1> QED BY <1>1, <1>2 DEF ExistsBijection, Bijection

\* Who will leave a monitor that it does not enter first has it.
LEMMA HoldsToLeave ==
  ASSUME NEW t \in AMSThreads, Shape(code[t]), NEW i, NEW x,
         At(code[t], i, "exit", x), i > 2 => ~ At(code[t], i - 2, "enter", x)
  PROVE  Holds(t, x)
<1> DEFINE c == code[t]
           In == {j \in DOMAIN c : c[j].do = "enter" /\ c[j].of = x}
           Out == {j \in DOMAIN c : c[j].do = "exit" /\ c[j].of = x}
           two == [j \in In |-> j + 2]
           To == {j + 2 : j \in In}
<1>1. c \in Seq(Statements) /\ DOMAIN c = 1 .. Len(c) /\ Len(c) \in Nat
  BY DEF Shape
<1>2. IsFiniteSet(DOMAIN c)
  BY <1>1, FirstPlaces
<1>3. IsFiniteSet(In) /\ IsFiniteSet(Out)
  BY <1>2, FS_Subset
<1>4. \A j \in In : j + 2 \in Out /\ j + 2 # i /\ j \in Nat
  <2> SUFFICES ASSUME NEW j \in In PROVE j + 2 \in Out /\ j + 2 # i /\ j \in Nat
    OBVIOUS
  <2>1. j + 2 \in Out
    BY DEF Shape
  <2>2. j + 2 = i => i > 2 /\ i - 2 = j
    BY <1>1
  <2> QED BY <1>1, <2>1, <2>2
<1>5. ExistsBijection(In, To)
  <2>1. two \in [In -> To] /\ \A j, k \in In : two[j] = two[k] => j = k
    BY <1>4
  <2>2. \A y \in To : \E j \in In : two[j] = y
    OBVIOUS
  <2> HIDE DEF two, In, To
  <2> QED BY <2>1, <2>2, OneToOne
<1>6. IsFiniteSet(To) /\ Cardinality(To) = Cardinality(In)
  BY <1>3, <1>5, FS_Bijection, Zenon
<1>7. i \in Out /\ i \notin To /\ To \subseteq Out
  BY <1>4
<1>8. Cardinality(To \cup {i}) = Cardinality(To) + 1 /\ IsFiniteSet(To \cup {i})
  BY <1>6, <1>7, FS_AddElement
<1>9. Cardinality(To \cup {i}) <= Cardinality(Out)
  BY <1>3, <1>7, FS_Subset
<1>10. Cardinality(In) \in Nat /\ Cardinality(Out) \in Nat
  BY <1>3, FS_CardinalityType
<1>11. Cardinality(Out) > Cardinality(In)
  BY <1>6, <1>8, <1>9, <1>10
<1> QED BY <1>11 DEF Holds, Times

\* Who is about to suspend the system has its monitor, who completes a
\* suspension has the lock, and who pauses MIDlets has the list of proxies.
LEMMA Locked ==
  ASSUME NEW t \in AMSThreads, Shape(code[t])
  PROVE  /\ Has(code[t], "suspend", None) => Holds(t, "this")
         /\ Has(code[t], "suspendImpl", None) \/ Has(code[t], "suspended0", None) => Holds(t, "lock")
         /\ \A i : At(code[t], i, "exit", "midletProxies") => Holds(t, "midletProxies")
<1> DEFINE c == code[t]
<1>1. ASSUME NEW i, At(c, i, "suspend", None)
      PROVE  Holds(t, "this")
  <2>1. At(c, 2, "exit", "this")
    BY <1>1 DEF Shape
  <2> QED BY <2>1, HoldsToLeave
<1>2. ASSUME NEW i, At(c, i, "suspended0", None)
      PROVE  Holds(t, "lock")
  <2>1. At(c, i + 1, "exit", "lock")
    BY <1>2 DEF Shape
  <2>2. i = 1 \/ (i = 2 /\ c[1].do = "suspendImpl")
    BY <1>2 DEF Shape
  <2>3. i + 1 > 2 => ~ At(c, (i + 1) - 2, "enter", "lock")
    BY <2>2
  <2> QED BY <2>1, <2>3, HoldsToLeave
<1>3. ASSUME NEW i, At(c, i, "suspendImpl", None)
      PROVE  Holds(t, "lock")
  <2>1. At(c, 2, "suspended0", None)
    BY <1>3 DEF Shape
  <2> QED BY <1>2, <2>1
<1>4. ASSUME NEW i, At(c, i, "exit", "midletProxies")
      PROVE  Holds(t, "midletProxies")
  <2>1. ~ At(c, i - 2, "enter", "midletProxies")
    BY DEF Shape
  <2> QED BY <1>4, <2>1, HoldsToLeave
<1> QED BY <1>1, <1>2, <1>3, <1>4 DEF Has

-----------------------------------------------------------------------------
(* Steps of a thread.                                                      *)

(* Thread t goes on with calls in place of its first statement: all its    *)
(* other statements stay ahead, and none but calls come in.                *)
Moves(t, calls) ==
  /\ Threads'
  /\ \A u \in AMSThreads \ {t} : code'[u] = code[u]
  /\ \A d, x : d # "exit" /\ Has(code[t], d, x) => At(code[t], 1, d, x) \/ Has(code'[t], d, x)
  /\ \A d, x : d # "exit" /\ Has(code'[t], d, x) => Has(calls, d, x) \/ Has(code[t], d, x)
  /\ \A d, x : d # "exit" /\ Has(calls, d, x) => Has(code'[t], d, x)
  /\ \A d \in {"suspend", "suspendImpl"} : Has(code'[t], d, None) => Has(calls, d, None)

\* Statements without effect on others.
LEMMA Nothing ==
  Shape(<< >>) /\ Plain(<< >>) /\ \A d, x : ~ Has(<< >>, d, x)
BY DEF Shape, Plain, Has

\* A thread that executes a statement leaves what it begins, and all others alone.
LEMMA MovesOn ==
  ASSUME Threads, NEW t \in AMSThreads, NEW calls, Shape(calls), code[t] # << >>, Then(t, calls),
         calls = << >> \/ Head(code[t]).do # "suspendImpl"
  PROVE  Moves(t, calls)
<1> DEFINE c == code[t]
           r == Tail(c)
           s == calls \o r
<1>1. Shape(c) /\ c # << >> /\ code \in [AMSThreads -> Seq(Statements)]
  BY DEF Threads
<1>2. code' = [code EXCEPT ![t] = LeaveMonitors(s)]
  BY DEF Then
<1>3. /\ Shape(r) /\ Head(c) = c[1] /\ 1 \in DOMAIN c
      /\ Head(c).do # "suspendImpl" => Plain(r)
      /\ \A d, x : Has(c, d, x) <=> At(c, 1, d, x) \/ Has(r, d, x)
  BY <1>1, FirstAndOthers, Zenon
<1>4. Shape(s) /\ \A d, x : Has(s, d, x) <=> Has(calls, d, x) \/ Has(r, d, x)
  <2>1. CASE calls = << >>
    <3>1. s = r
      BY <1>3, <2>1 DEF Shape
    <3> QED BY <1>3, <2>1, <3>1, Nothing
  <2>2. CASE Head(c).do # "suspendImpl"
    BY <1>3, <2>2, ShapeJoined, Zenon
  <2> QED BY <2>1, <2>2
<1>5. \A d \in {"suspend", "suspendImpl"} : ~ Has(r, d, None)
  <2>1. CASE Head(c).do # "suspendImpl"
    BY <1>3, <2>1 DEF Plain, Has
  <2>2. CASE Head(c).do = "suspendImpl"
    <3>1. DOMAIN r = 1 .. Len(c) - 1 /\ DOMAIN c = 1 .. Len(c) /\ \A i \in DOMAIN r : r[i] = c[i + 1]
      BY <1>1 DEF Shape
    <3>2. \A i \in DOMAIN r : i + 1 \in DOMAIN c /\ i + 1 # 1
      BY <3>1
    <3>3. \A i \in DOMAIN c : i # 1 => c[i].do \notin {"suspend", "suspendImpl"}
      BY <1>1 DEF Shape
    <3>4. \A i \in DOMAIN r : r[i].do \notin {"suspend", "suspendImpl"}
      BY <3>1, <3>2, <3>3
    <3> QED BY <3>4 DEF Has
  <2> QED BY <2>1, <2>2
<1> HIDE DEF c, r, s
<1>6. Shape(LeaveMonitors(s)) /\ \A d, x : d # "exit" => (Has(LeaveMonitors(s), d, x) <=> Has(s, d, x))
  BY <1>4, LeavesAll
<1>7. code'[t] = LeaveMonitors(s) /\ \A u \in AMSThreads \ {t} : code'[u] = code[u]
  BY <1>1, <1>2
<1>8. Threads'
  <2>1. LeaveMonitors(s) \in Seq(Statements)
    BY <1>6 DEF Shape
  <2>2. code' \in [AMSThreads -> Seq(Statements)]
    BY <1>1, <1>2, <2>1
  <2>3. \A u \in AMSThreads : Shape(code'[u])
    BY <1>6, <1>7 DEF Threads
  <2> QED BY <2>2, <2>3 DEF Threads
<1>9. \A d, x : d # "exit" => (Has(code'[t], d, x) <=> Has(calls, d, x) \/ Has(r, d, x))
  BY <1>4, <1>6, <1>7
<1>10. /\ \A d, x : d # "exit" /\ Has(code[t], d, x) => At(code[t], 1, d, x) \/ Has(code'[t], d, x)
       /\ \A d, x : d # "exit" /\ Has(code'[t], d, x) => Has(calls, d, x) \/ Has(code[t], d, x)
  BY <1>3, <1>9, Zenon DEF c
<1> QED BY <1>5, <1>7, <1>8, <1>9, <1>10, Zenon DEF Moves

\* A thread that had nothing to do starts with body.
LEMMA Starts ==
  ASSUME Threads, NEW t \in AMSThreads, NEW body, Shape(body), code[t] = << >>, Calls(t, body)
  PROVE  Moves(t, body)
<1>1. code \in [AMSThreads -> Seq(Statements)] /\ body \in Seq(Statements)
  BY DEF Threads, Shape
<1>2. code' = [code EXCEPT ![t] = body]
  BY DEF Calls
<1>3. code'[t] = body /\ \A u \in AMSThreads \ {t} : code'[u] = code[u]
  BY <1>1, <1>2
<1>4. Threads'
  <2>1. code' \in [AMSThreads -> Seq(Statements)]
    BY <1>1, <1>2
  <2>2. \A u \in AMSThreads : Shape(code'[u])
    BY <1>3 DEF Threads
  <2> QED BY <2>1, <2>2 DEF Threads
<1>5. \A d, x : ~ Has(code[t], d, x)
  BY Nothing, Zenon
<1> QED BY <1>3, <1>4, <1>5, Zenon DEF Moves

\* The statements with which a suspension or a resumption begins and ends.
Marks == {"start", "suspend", "suspendImpl", "suspended0", "resume"}
SameMarks == \A u \in AMSThreads, d \in Marks : Has(code'[u], d, None) <=> Has(code[u], d, None)

\* A statement that is no mark and calls none keeps them.
LEMMA MarksStay ==
  ASSUME NEW t \in AMSThreads, NEW calls, Moves(t, calls),
         \A d \in Marks : ~ At(code[t], 1, d, None) /\ ~ Has(calls, d, None)
  PROVE  SameMarks
<1> SUFFICES ASSUME NEW u \in AMSThreads, NEW d \in Marks
             PROVE  Has(code'[u], d, None) <=> Has(code[u], d, None)
  BY DEF SameMarks
<1>1. d # "exit"
  BY DEF Marks
<1>2. CASE u = t
  BY <1>1, <1>2 DEF Moves
<1>3. CASE u # t
  BY <1>3 DEF Moves
<1> QED BY <1>2, <1>3

\* What is ahead of some thread stays ahead unless t executes it.
LEMMA StaysAhead ==
  ASSUME NEW t \in AMSThreads, NEW calls, Moves(t, calls), NEW d, NEW x, d # "exit",
         Ahead(d, x), ~ At(code[t], 1, d, x)
  PROVE  Ahead(d, x)'
<1>1. PICK u \in AMSThreads : Has(code[u], d, x)
  BY DEF Ahead, Has
<1>2. Has(code'[u], d, x)
  BY <1>1 DEF Moves
<1> QED BY <1>2 DEF Ahead, Has

-----------------------------------------------------------------------------
(* What a step keeps.                                                      *)

\* Suspensions and their timer.
LEMMA SuspendingSame ==
  ASSUME Suspending, TimerWhileSuspending, state' = state, task' # "none" <=> task # "none",
         \A u \in AMSThreads, d \in {"suspend", "suspendImpl"} :
           Has(code'[u], d, None) <=> Has(code[u], d, None),
         deps' \subseteq deps \/ \A u \in AMSThreads : ~ Has(code[u], "suspendImpl", None)
  PROVE  Suspending' /\ TimerWhileSuspending'
<1>1. Ahead("suspend", None)' <=> Ahead("suspend", None)
  <2>1. \A u \in AMSThreads : Has(code'[u], "suspend", None) <=> Has(code[u], "suspend", None)
    OBVIOUS
  <2> QED BY <2>1 DEF Ahead, Has
<1>2. TimerWhileSuspending'
  BY <1>1 DEF TimerWhileSuspending
<1>3. Suspending'
  BY DEF Suspending, Lonely
<1> QED BY <1>2, <1>3

\* Then the suspension is as far as it was, unless a dependency is added to it.
LEMMA StillSuspending ==
  ASSUME Suspending, TimerWhileSuspending, SameMarks, state' = state,
         task' # "none" <=> task # "none",
         deps' \subseteq deps \/ \A u \in AMSThreads : ~ Has(code[u], "suspendImpl", None)
  PROVE  Suspending' /\ TimerWhileSuspending'
<1>1. \A u \in AMSThreads, d \in {"suspend", "suspendImpl"} :
        Has(code'[u], d, None) <=> Has(code[u], d, None)
  BY DEF SameMarks, Marks
<1> QED BY <1>1, SuspendingSame

(* The queue r has everything of q in front.                               *)
Extends(r, q) ==
  /\ r \in Seq(Events) /\ q \in Seq(Events)
  /\ Len(q) <= Len(r) /\ \A i \in 1 .. Len(q) : r[i] = q[i]
AllEvents == {"PAUSE_ALL", "ACTIVATE_ALL"}
(* Of the events for all MIDlets none is taken from the queue.             *)
QueueKeeps ==
  \/ Extends(amsq', amsq)
  \/ amsq # << >> /\ Head(amsq).type \notin AllEvents /\ Extends(amsq', Tail(amsq))

\* A queue extends itself, and is extended by what is sent.
LEMMA Extended ==
  ASSUME NEW q \in Seq(Events)
  PROVE  /\ Extends(q, q)
         /\ \A e \in Events : Extends(Append(q, e), q)
         /\ \A b \in Seq(Events) : Extends(q \o b, q)
<1>1. Extends(q, q)
  BY DEF Extends
<1>2. ASSUME NEW e \in Events PROVE Extends(Append(q, e), q)
  BY DEF Extends
<1>3. ASSUME NEW b \in Seq(Events) PROVE Extends(q \o b, q)
  BY JoinedAt DEF Extends
<1> QED BY <1>1, <1>2, <1>3

\* An event and one before another, in the next queue if in this one.
Precedes(q, e, f) == \E i, j \in DOMAIN q : i < j /\ QueuedAt(q, i, e) /\ QueuedAt(q, j, f)
InQueue(q, e) == \E i \in DOMAIN q : QueuedAt(q, i, e)
\* A queue that is kept keeps its requests, in their order.
LEMMA QueueHas ==
  ASSUME amsq \in Seq(Events), QueueKeeps
  PROVE  /\ \A e \in AllEvents : InQueue(amsq, e) => InQueue(amsq', e)
         /\ \A e, f \in AllEvents : Precedes(amsq, e, f) => Precedes(amsq', e, f)
<1> DEFINE r == amsq'
           q == amsq
<1> SUFFICES \E k \in Nat : \A i \in DOMAIN q, e \in AllEvents :
               QueuedAt(q, i, e) => i - k \in DOMAIN r /\ QueuedAt(r, i - k, e)
  BY DEF InQueue, Precedes
<1>1. CASE Extends(r, q)
  <2>1. \A i \in DOMAIN q : i - 0 = i /\ i \in DOMAIN r /\ r[i] = q[i]
    BY <1>1 DEF Extends
  <2> QED BY <2>1 DEF QueuedAt
<1>2. CASE q # << >> /\ Head(q).type \notin AllEvents /\ Extends(r, Tail(q))
  <2>1. Head(q) = q[1]
    BY <1>2
  <2>2. \A i \in DOMAIN q : i # 1 => i - 1 \in DOMAIN r /\ r[i - 1] = q[i]
    BY <1>2 DEF Extends
  <2>3. \A e \in AllEvents : ~ QueuedAt(q, 1, e)
    BY <1>2, <2>1 DEF QueuedAt, Event
  <2> QED BY <2>2, <2>3 DEF QueuedAt
<1> QED BY <1>1, <1>2 DEF QueueKeeps

\* Requests.
MarksKept == \A u \in AMSThreads, d \in Marks : Has(code[u], d, None) => Has(code'[u], d, None)
\* A request stays on its way while marks and events of the system are kept,
LEMMA PromisedKept ==
  ASSUME amsq \in Seq(Events), Promised, Backed, MarksKept, state' = state, QueueKeeps,
         sr' = sr \/ {sr, sr'} \subseteq {"SUSPENDING", "RESUMING"}
  PROVE  Promised' /\ Backed'
<1>1. \A d \in Marks : Ahead(d, None) => Ahead(d, None)'
  <2>1. \A d \in Marks, u \in AMSThreads : Has(code[u], d, None) => Has(code'[u], d, None)
    BY DEF MarksKept
  <2> QED BY <2>1 DEF Ahead, Has
<1>2. Has(code["E"], "resume", None) => Has(code'["E"], "resume", None)
  BY DEF MarksKept, AMSThreads, Marks
<1>3. InQueue(amsq, "ACTIVATE_ALL") => InQueue(amsq', "ACTIVATE_ALL")
  BY QueueHas DEF AllEvents
<1>4. InQueue(amsq, "PAUSE_ALL") => InQueue(amsq', "PAUSE_ALL")
  BY QueueHas DEF AllEvents
<1>5. Precedes(amsq, "ACTIVATE_ALL", "PAUSE_ALL") => Precedes(amsq', "ACTIVATE_ALL", "PAUSE_ALL")
  BY QueueHas DEF AllEvents
<1>6. Queued("PAUSE_ALL") => Queued("PAUSE_ALL")'
  BY <1>4 DEF Queued, InQueue, QueuedAt
<1>7. Resumes => Resumes'
  BY <1>2, <1>3 DEF Resumes, InQueue
<1>8. ResumesFirst => ResumesFirst'
  BY <1>2, <1>4, <1>5 DEF ResumesFirst, InQueue, Precedes
<1>9. Promised'
  BY <1>1, <1>6, <1>8 DEF Promised, Marks
<1>10. Backed'
  BY <1>1, <1>7 DEF Backed, Marks
<1> QED BY <1>9, <1>10

\* in particular when the marks stay the same.
LEMMA StillPromised ==
  ASSUME amsq \in Seq(Events), Promised, Backed, SameMarks, state' = state, QueueKeeps,
         sr' = sr \/ {sr, sr'} \subseteq {"SUSPENDING", "RESUMING"}
  PROVE  Promised' /\ Backed'
<1>1. MarksKept
  BY DEF MarksKept, SameMarks
<1> QED BY <1>1, PromisedKept

-----------------------------------------------------------------------------
(* The event thread's loop over the proxies.                               *)

\* Leaving monitors does not disturb it.
LEMMA LoopLeaves ==
  ASSUME NEW s \in Seq(Statements), NEW ms, Loop(s, ms)
  PROVE  Loop(LeaveMonitors(s), ms)
<1> DEFINE r == LeaveMonitors(s)
<1>1. PICK k \in Nat : Suffix(s, k, r) /\ \A i \in 1 .. k : s[i].do = "exit"
  BY Leaves
<1> HIDE DEF r
<1>2. /\ DOMAIN s = 1 .. Len(s) /\ DOMAIN r = 1 .. Len(r) /\ Len(s) \in Nat /\ Len(r) \in Nat
      /\ r \in Seq(Statements) /\ Len(r) = Len(s) - k
  BY <1>1 DEF Suffix
<1>3. \A i \in DOMAIN r : k + i \in DOMAIN s /\ r[i] = s[k + i]
  BY <1>1, <1>2 DEF Suffix
<1>4. \A i \in DOMAIN s : i \in 1 .. k \/ (i - k \in DOMAIN r /\ i = k + (i - k))
  BY <1>1, <1>2
<1>5. \A d, x : d # "exit" /\ Has(s, d, x) => Has(r, d, x)
  BY <1>1, <1>3, <1>4 DEF Has
<1>6. ASSUME NEW i \in DOMAIN r, r[i].do = "pauseMidlet"
      PROVE  /\ r[i].of \in Elems(ms)
             /\ \E j \in DOMAIN r : j > i /\ At(r, j, "exit", "midletProxies")
             /\ \A j \in DOMAIN r : j # i /\ r[j].of = r[i].of => r[j].do \notin Concerns
  <2>1. k + i \in DOMAIN s /\ s[k + i].do = "pauseMidlet" /\ r[i] = s[k + i]
    BY <1>3, <1>6
  <2>2. PICK j \in DOMAIN s : j > k + i /\ At(s, j, "exit", "midletProxies")
    BY <2>1 DEF Loop
  <2>3. j - k \in DOMAIN r /\ j - k > i /\ r[j - k] = s[j]
    BY <1>2, <1>3, <1>4, <2>2
  <2>4. \A n \in DOMAIN r : n # i => k + n # k + i
    BY <1>2
  <2>5. \A n \in DOMAIN s : n # k + i /\ s[n].of = s[k + i].of => s[n].do \notin Concerns
    BY <2>1 DEF Loop
  <2>6. \A n \in DOMAIN r : n # i /\ r[n].of = r[i].of => r[n].do \notin Concerns
    BY <1>3, <2>1, <2>4, <2>5
  <2>7. r[i].of \in Elems(ms)
    BY <2>1 DEF Loop
  <2> QED BY <2>2, <2>3, <2>6, <2>7
<1>7. ASSUME NEW i \in DOMAIN r, r[i].do = "create"
      PROVE  i = Len(r) /\ (r[i].of \in Elems(ms) => Has(r, "remove", r[i].of))
  <2>1. k + i \in DOMAIN s /\ s[k + i].do = "create" /\ r[i] = s[k + i]
    BY <1>3, <1>7
  <2>2. k + i = Len(s) /\ (r[i].of \in Elems(ms) => Has(s, "remove", r[i].of))
    BY <2>1 DEF Loop
  <2> QED BY <1>2, <1>5, <2>2
<1> QED BY <1>6, <1>7 DEF Loop, r

\* Nor does a step that concerns at most the MIDlet of its statement.
LEMMA LoopGoes ==
  ASSUME NEW c, Shape(c), c # << >>, NEW calls \in Seq(Statements), NEW ms, NEW ns, Loop(c, ms),
         \A i \in DOMAIN calls :
           /\ calls[i].do \notin {"create", "pauseMidlet"}
           /\ calls[i].do \in Concerns => c[1].do \in Concerns /\ c[1].of = calls[i].of,
         Elems(ns) \subseteq Elems(ms),
         \A m \in Elems(ms) : m \in Elems(ns) <=> ~ At(c, 1, "remove", m)
  PROVE  Loop(LeaveMonitors(calls \o Tail(c)), ns)
<1> DEFINE b == Tail(c)
           s == calls \o b
           l == Len(calls)
<1>1. /\ c \in Seq(Statements) /\ DOMAIN c = 1 .. Len(c) /\ Len(c) \in Nat /\ 1 \in DOMAIN c
      /\ b \in Seq(Statements) /\ Len(b) = Len(c) - 1 /\ \A i \in 1 .. Len(c) - 1 : b[i] = c[i + 1]
      /\ l \in Nat /\ DOMAIN calls = 1 .. l
  BY DEF Shape
<1> HIDE DEF b
<1>2. /\ s \in Seq(Statements) /\ Len(s) = l + (Len(c) - 1)
      /\ \A i \in 1 .. l + (Len(c) - 1) : s[i] = IF i <= l THEN calls[i] ELSE b[i - l]
  <2>1. /\ s \in Seq(Statements) /\ Len(s) = Len(calls) + Len(b)
        /\ \A i \in 1 .. Len(calls) + Len(b) : s[i] = IF i <= Len(calls) THEN calls[i] ELSE b[i - Len(calls)]
    <3>1. Concatenates(calls, b)
      BY <1>1, Joins, Zenon
    <3> QED BY <3>1 DEF Concatenates
  <2> HIDE DEF s
  <2> QED BY <1>1, <2>1
<1> HIDE DEF s, l
<1>3. DOMAIN s = 1 .. l + (Len(c) - 1)
  BY <1>1, <1>2
<1>4. \A i \in DOMAIN s : \/ i \in DOMAIN calls /\ s[i] = calls[i]
                          \/ i > l /\ (i - l) + 1 \in DOMAIN c /\ (i - l) + 1 # 1 /\ s[i] = c[(i - l) + 1]
  <2> SUFFICES ASSUME NEW i \in DOMAIN s, i > l
               PROVE  (i - l) + 1 \in DOMAIN c /\ (i - l) + 1 # 1 /\ s[i] = c[(i - l) + 1]
    BY <1>1, <1>2, <1>3
  <2>1. i - l \in 1 .. Len(c) - 1 /\ s[i] = b[i - l]
    BY <1>1, <1>2, <1>3
  <2> QED BY <1>1, <2>1
<1>5. \A j \in DOMAIN c : j # 1 => (l + j) - 1 \in DOMAIN s /\ s[(l + j) - 1] = c[j]
  <2> SUFFICES ASSUME NEW j \in DOMAIN c, j # 1
               PROVE  (l + j) - 1 \in DOMAIN s /\ s[(l + j) - 1] = c[j]
    OBVIOUS
  <2>1. j - 1 \in 1 .. Len(c) - 1 /\ (l + j) - 1 \in DOMAIN s /\ ((l + j) - 1) - l = j - 1 /\ (l + j) - 1 > l
    BY <1>1, <1>3
  <2>2. b[j - 1] = c[(j - 1) + 1] /\ (j - 1) + 1 = j
    <3>1. b[j - 1] = c[(j - 1) + 1]
      BY <1>1, <2>1
    <3>2. j \in Nat
      BY <1>1
    <3> QED BY <3>1, <3>2
  <2>3. \A n \in DOMAIN s : n > l => s[n] = b[n - l]
    BY <1>1, <1>2, <1>3
  <2> QED BY <2>1, <2>2, <2>3
<1>6. ASSUME NEW i \in DOMAIN s, s[i].do = "pauseMidlet"
      PROVE  /\ s[i].of \in Elems(ns)
             /\ \E j \in DOMAIN s : j > i /\ At(s, j, "exit", "midletProxies")
             /\ \A j \in DOMAIN s : j # i /\ s[j].of = s[i].of => s[j].do \notin Concerns
  <2> DEFINE n == (i - l) + 1
  <2>1. n \in DOMAIN c /\ n # 1 /\ s[i] = c[n] /\ i > l /\ i \in Nat
    BY <1>3, <1>4, <1>6
  <2>2. /\ c[n].of \in Elems(ms)
        /\ \A j \in DOMAIN c : j # n /\ c[j].of = c[n].of => c[j].do \notin Concerns
    BY <1>6, <2>1 DEF Loop
  <2>3. PICK j \in DOMAIN c : j > n /\ At(c, j, "exit", "midletProxies")
    BY <1>6, <2>1 DEF Loop
  <2>4. (l + j) - 1 \in DOMAIN s /\ (l + j) - 1 > i /\ s[(l + j) - 1] = c[j]
    <3>1. j \in Nat /\ i \in Nat /\ l \in Nat /\ j > (i - l) + 1 /\ i > l
      BY <1>1, <2>1, <2>3
    <3>2. j # 1 /\ (l + j) - 1 > i
      BY <3>1
    <3> QED BY <1>5, <3>2
  <2>5. c[1].of = c[n].of => c[1].do \notin Concerns
    BY <1>1, <2>1, <2>2
  <2>6. c[n].of \in Elems(ns)
    BY <2>2, <2>5 DEF Concerns
  <2>7. ASSUME NEW h \in DOMAIN s, h # i, s[h].of = s[i].of
        PROVE  s[h].do \notin Concerns
    <3>1. CASE h \in DOMAIN calls /\ s[h] = calls[h]
      BY <2>1, <2>5, <2>7, <3>1
    <3>2. CASE h > l /\ (h - l) + 1 \in DOMAIN c /\ s[h] = c[(h - l) + 1]
      <4>1. (h - l) + 1 # n
        <5>1. h \in Nat /\ l \in Nat
          BY <1>1, <1>3
        <5>2. i \in Nat /\ h # i
          BY <2>1, <2>7
        <5> QED BY <5>1, <5>2
      <4> QED BY <2>1, <2>2, <2>7, <3>2, <4>1
    <3> QED BY <1>4, <3>1, <3>2
  <2> QED BY <2>1, <2>3, <2>4, <2>6, <2>7
<1>7. ASSUME NEW i \in DOMAIN s, s[i].do = "create"
      PROVE  i = Len(s) /\ (s[i].of \in Elems(ns) => Has(s, "remove", s[i].of))
  <2> DEFINE n == (i - l) + 1
  <2>1. n \in DOMAIN c /\ n # 1 /\ s[i] = c[n] /\ i > l /\ i \in Nat
    BY <1>3, <1>4, <1>7
  <2>2. n = Len(c) /\ (c[n].of \in Elems(ms) => Has(c, "remove", c[n].of))
    BY <1>7, <2>1 DEF Loop
  <2>3. i = Len(s)
    <3>1. Len(s) = l + (Len(c) - 1) /\ Len(c) \in Nat /\ l \in Nat
      BY <1>1, <1>2
    <3>2. (i - l) + 1 = Len(c) /\ i \in Nat
      BY <2>1, <2>2
    <3> HIDE DEF n
    <3> QED BY <3>1, <3>2
  <2>4. ASSUME c[n].of \in Elems(ns) PROVE Has(s, "remove", c[n].of)
    <3>1. PICK j \in DOMAIN c : At(c, j, "remove", c[n].of)
      BY <2>2, <2>4 DEF Has
    <3>2. j # 1
      BY <2>4, <3>1
    <3> QED BY <1>5, <3>1, <3>2 DEF Has
  <2> QED BY <2>1, <2>3, <2>4
<1>8. Loop(s, ns)
  BY <1>6, <1>7 DEF Loop
<1> QED BY <1>2, <1>8, LoopLeaves DEF s, b

-----------------------------------------------------------------------------
(* Calls.                                                                  *)

\* One statement that needs no other behind it.
Simple == {"drop", "start", "terminate", "terminateNotPaused", "create", "activateAll",
           "isResumePending", "getMIDlets", "terminatePauseAll"}
\* What a thread does that begins with one of them.
LEMMA OneCall ==
  ASSUME NEW d \in Simple, NEW m \in Midlets \cup {None}
  PROVE  /\ Shape(<<Do(d, m)>>) /\ Plain(<<Do(d, m)>>)
         /\ \A e, x : Has(<<Do(d, m)>>, e, x) <=> e = d /\ x = m
<1> DEFINE c == <<Do(d, m)>>
<1>1. Do(d, m) \in Statements /\ Do(d, m).do = d /\ Do(d, m).of = m
  BY DEF Statements, Calling, Do, Simple
<1>2. c \in Seq(Statements) /\ DOMAIN c = {1} /\ c[1] = Do(d, m)
  BY <1>1
<1> HIDE DEF c
<1>3. \A i \in DOMAIN c : c[i].do = d
  BY <1>1, <1>2
<1>4. Shape(c) /\ Plain(c)
  BY <1>2, <1>3 DEF Shape, Plain, Simple
<1>5. \A e, x : Has(c, e, x) <=> e = d /\ x = m
  BY <1>1, <1>2 DEF Has
<1> QED BY <1>4, <1>5 DEF c

\* The removal of a proxy, with the notification.
LEMMA Removal ==
  ASSUME NEW m \in Midlets
  PROVE  /\ Shape(RemoveMidletProxy(m)) /\ Plain(RemoveMidletProxy(m))
         /\ Has(RemoveMidletProxy(m), "remove", m) /\ Has(RemoveMidletProxy(m), "removed", m)
         /\ \A i \in DOMAIN RemoveMidletProxy(m) :
              RemoveMidletProxy(m)[i].do \notin Marks \cup {"create", "pauseMidlet"}
         /\ \A i \in DOMAIN RemoveMidletProxy(m) :
              RemoveMidletProxy(m)[i].do \in Concerns => RemoveMidletProxy(m)[i].of = m
<1> DEFINE c == RemoveMidletProxy(m)
<1>1. /\ Do("remove", m) \in Statements /\ Enter("this") \in Statements
      /\ Do("removed", m) \in Statements /\ Exit("this") \in Statements
  BY DEF Statements, Calling, Monitors, Do, Enter, Exit
<1> DEFINE a == <<Do("remove", m)>>
           b == <<Enter("this"), Do("removed", m), Exit("this")>>
<1>2. /\ a \in Seq(Statements) /\ Len(a) = 1 /\ a[1] = Do("remove", m)
      /\ b \in Seq(Statements) /\ Len(b) = 3
      /\ b[1] = Enter("this") /\ b[2] = Do("removed", m) /\ b[3] = Exit("this")
  BY <1>1
<1>3. /\ c \in Seq(Statements) /\ DOMAIN c = 1 .. 4
      /\ c[1] = Do("remove", m) /\ c[2] = Enter("this") /\ c[3] = Do("removed", m) /\ c[4] = Exit("this")
  <2>1. c = a \o b
    BY DEF RemoveMidletProxy, MidletRemoved
  <2> HIDE DEF a, b, c
  <2>2. /\ c \in Seq(Statements) /\ Len(c) = Len(a) + Len(b)
        /\ \A i \in 1 .. Len(a) + Len(b) : c[i] = IF i <= Len(a) THEN a[i] ELSE b[i - Len(a)]
    BY <1>2, <2>1, JoinedAt, Zenon
  <2> QED BY <1>2, <2>2
<1> HIDE DEF c
<1>4. /\ At(c, 1, "remove", m) /\ At(c, 2, "enter", "this")
      /\ At(c, 3, "removed", m) /\ At(c, 4, "exit", "this")
  BY <1>3 DEF Do, Enter, Exit
<1>5. \A i \in DOMAIN c : i = 1 \/ i = 2 \/ i = 3 \/ i = 4
  BY <1>3
<1>6. Shape(c) /\ Plain(c)
  BY <1>3, <1>4, <1>5 DEF Shape, Plain
<1>7. \A i \in DOMAIN c : c[i].do \notin Marks \cup {"create", "pauseMidlet"}
  BY <1>4, <1>5 DEF Marks
<1>8. \A i \in DOMAIN c : c[i].do \in Concerns => c[i].of = m
  BY <1>4, <1>5 DEF Concerns
<1> QED BY <1>4, <1>6, <1>7, <1>8 DEF Has, c

\* The completion of a suspension, when nothing is depended on.
LEMMA Completion ==
  ASSUME NEW s, NEW ds
  PROVE  /\ Shape(UpdateSuspendStatus(s, ds))
         /\ Has(UpdateSuspendStatus(s, ds), "suspendImpl", None) => s = "SUSPENDING" /\ ds = {}
         /\ \A i \in DOMAIN UpdateSuspendStatus(s, ds) :
              UpdateSuspendStatus(s, ds)[i].do \in {"suspendImpl", "suspended0", "exit"}
<1> DEFINE c == <<Do("suspendImpl", None), Do("suspended0", None), Exit("lock")>>
<1>1. /\ Do("suspendImpl", None) \in Statements /\ Do("suspended0", None) \in Statements
      /\ Exit("lock") \in Statements
  BY DEF Statements, Calling, Monitors, Do, Exit
<1>2. /\ c \in Seq(Statements) /\ DOMAIN c = 1 .. 3
      /\ c[1] = Do("suspendImpl", None) /\ c[2] = Do("suspended0", None) /\ c[3] = Exit("lock")
  BY <1>1
<1>3. UpdateSuspendStatus(s, ds) = IF s = "SUSPENDING" /\ ds = {} THEN c ELSE << >>
  BY DEF UpdateSuspendStatus
<1> HIDE DEF c
<1>4. At(c, 1, "suspendImpl", None) /\ At(c, 2, "suspended0", None) /\ At(c, 3, "exit", "lock")
  BY <1>2 DEF Do, Exit
<1>5. \A i \in DOMAIN c : i = 1 \/ i = 2 \/ i = 3
  BY <1>2
<1>6. Shape(c)
  BY <1>2, <1>4, <1>5 DEF Shape
<1>7. \A i \in DOMAIN c : c[i].do \in {"suspendImpl", "suspended0", "exit"}
  BY <1>4, <1>5
<1>8. \A i \in DOMAIN << >> : FALSE
  OBVIOUS
<1> QED BY <1>3, <1>6, <1>7, <1>8, Nothing

\* The suspension of the system, in its monitor.
LEMMA Entrance ==
  LET c == <<Do("suspend", None), Exit("this")>>
  IN  Shape(c) /\ \A d, x : d # "exit" => (Has(c, d, x) <=> d = "suspend" /\ x = None)
<1> DEFINE c == <<Do("suspend", None), Exit("this")>>
<1>1. Do("suspend", None) \in Statements /\ Exit("this") \in Statements
  BY DEF Statements, Calling, Monitors, Do, Exit
<1>2. c \in Seq(Statements) /\ DOMAIN c = 1 .. 2 /\ c[1] = Do("suspend", None) /\ c[2] = Exit("this")
  BY <1>1
<1> HIDE DEF c
<1>3. At(c, 1, "suspend", None) /\ At(c, 2, "exit", "this")
  BY <1>2 DEF Do, Exit
<1>4. \A i \in DOMAIN c : i = 1 \/ i = 2
  BY <1>2
<1>5. Shape(c)
  BY <1>2, <1>3, <1>4 DEF Shape
<1>6. \A d, x : d # "exit" => (Has(c, d, x) <=> d = "suspend" /\ x = None)
  BY <1>3, <1>4 DEF Has
<1> QED BY <1>5, <1>6 DEF c

\* The resumption of the system, under the lock.
LEMMA Resumption ==
  /\ Shape(Resume) /\ Plain(Resume)
  /\ \A d, x : d \notin {"enter", "exit"} => (Has(Resume, d, x) <=> d = "resume" /\ x = None)
<1> DEFINE c == Resume
<1>1. Enter("lock") \in Statements /\ Do("resume", None) \in Statements /\ Exit("lock") \in Statements
  BY DEF Statements, Calling, Monitors, Do, Enter, Exit
<1>2. /\ c \in Seq(Statements) /\ DOMAIN c = 1 .. 3
      /\ c[1] = Enter("lock") /\ c[2] = Do("resume", None) /\ c[3] = Exit("lock")
  BY <1>1 DEF Resume
<1> HIDE DEF c
<1>3. At(c, 1, "enter", "lock") /\ At(c, 2, "resume", None) /\ At(c, 3, "exit", "lock")
  BY <1>2 DEF Do, Enter, Exit
<1>4. \A i \in DOMAIN c : i = 1 \/ i = 2 \/ i = 3
  BY <1>2
<1>5. Shape(c) /\ Plain(c)
  BY <1>2, <1>3, <1>4 DEF Shape, Plain
<1>6. \A d, x : d \notin {"enter", "exit"} => (Has(c, d, x) <=> d = "resume" /\ x = None)
  BY <1>3, <1>4 DEF Has
<1> QED BY <1>5, <1>6 DEF c

-----------------------------------------------------------------------------
(* Types.                                                                  *)

States == {"none", "PAUSED", "ACTIVE_PENDING", "ACTIVE", "PAUSE_PENDING", "DESTROY_PENDING",
           "DESTROYED"}
SystemTypes ==
  /\ sr \in {"ACTIVE", "SUSPENDING", "RESUMING", "SUSPENDED"}
  /\ state \in {"ACTIVE", "SUSPENDING", "SUSPENDED"}
  /\ deps \subseteq Midlets /\ task \in {"none", "armed", "run"}
  /\ lastForeground \in Midlets \cup {None}
ProxyTypes ==
  /\ list \in Seq(Midlets) /\ NoRepeat(list) /\ fg \in Midlets /\ fresh \subseteq Midlets
  /\ lastCreated \in Midlets \cup {None}
AppTypes ==
  /\ peer \in [Midlets -> States] /\ work \in [Midlets -> Works]
  /\ inbox \in [Midlets -> Seq({"activate", "pause"})]
  /\ \A m \in Midlets : peer[m] = "none" => inbox[m] = << >> /\ work[m] = "idle"

\* Types consists of these parts.
LEMMA TypesParts ==
  /\ Types <=> SystemTypes /\ ProxyTypes /\ AppTypes /\ amsq \in Seq(Events)
  /\ Types' <=> SystemTypes' /\ ProxyTypes' /\ AppTypes' /\ amsq' \in Seq(Events)
<1>1. list \in Seq(Midlets) => ToSet(list) \subseteq Midlets
  BY DEF ToSet
<1>2. list' \in Seq(Midlets) => ToSet(list)' \subseteq Midlets
  BY DEF ToSet
<1>3. Types <=> SystemTypes /\ ProxyTypes /\ AppTypes /\ amsq \in Seq(Events)
  BY <1>1 DEF Types, TypeOK, SystemTypes, ProxyTypes, AppTypes, States, Alive
<1>4. Types' <=> SystemTypes' /\ ProxyTypes' /\ AppTypes' /\ amsq' \in Seq(Events)
  BY <1>2 DEF Types, TypeOK, SystemTypes, ProxyTypes, AppTypes, States, Alive
<1> QED BY <1>3, <1>4

(* Events go to the queue q of the AMS and to isolates that are alive.     *)
Posts(q) ==
  /\ Extends(amsq', q) /\ inbox' \in [Midlets -> Seq({"activate", "pause"})]
  /\ \A m \in Midlets : peer[m] = "none" => inbox'[m] = inbox[m]

\* So does SendEach,
LEMMA SentEach ==
  ASSUME AppTypes, NEW q \in Seq(Events), NEW e \in {"activate", "pause"}, NEW ms \in SUBSET Midlets,
         SendEach(e, ms, q)
  PROVE  Posts(q)
<1>1. Event(e, AppManager) \in Events
  BY DEF Event, Events, EventNames
<1>2. Extends(amsq', q)
  BY <1>1, Extended DEF SendEach
<1>3. ASSUME NEW m \in Midlets
      PROVE  inbox'[m] \in Seq({"activate", "pause"}) /\ (peer[m] = "none" => inbox'[m] = inbox[m])
  <2>1. inbox[m] \in Seq({"activate", "pause"})
    BY DEF AppTypes
  <2>2. inbox'[m] = IF m \in ms /\ HasIsolate(m) THEN Append(inbox[m], e) ELSE inbox[m]
    BY DEF SendEach
  <2> QED BY <2>1, <2>2 DEF HasIsolate, Alive
<1>4. inbox' \in [Midlets -> Seq({"activate", "pause"})]
  BY <1>3 DEF SendEach
<1> QED BY <1>2, <1>3, <1>4 DEF Posts

\* activating MIDlets, which takes marks of new proxies away,
LEMMA Activated ==
  ASSUME AppTypes, NEW q \in Seq(Events), NEW ms \in SUBSET Midlets, ActivateMidlets(ms, q)
  PROVE  Posts(q) /\ fresh' \subseteq fresh
<1> DEFINE live == {m \in ms : pstate[m] # "DESTROYED"}
<1>1. SendEach("activate", live, q) /\ fresh' = fresh \ live
  BY DEF ActivateMidlets
<1>2. live \in SUBSET Midlets
  OBVIOUS
<1> QED BY <1>1, <1>2, SentEach

\* and giving the foreground to a MIDlet.
LEMMA Foregrounded ==
  ASSUME AppTypes, NEW q \in Seq(Events), NEW new \in Midlets, SetForegroundMIDlet(new, q),
         fg \in Midlets, fresh \subseteq Midlets
  PROVE  Posts(q) /\ fresh' \subseteq Midlets /\ fg' \in Midlets
<1>1. CASE UNCHANGED <<fg, fresh, inbox>> /\ amsq' = q
  BY <1>1, Extended DEF Posts, AppTypes
<1>2. CASE fg' = new /\ ActivateMidlets({m \in {new} : pstate[m] = "PAUSED"}, q)
  <2>1. {m \in {new} : pstate[m] = "PAUSED"} \in SUBSET Midlets
    OBVIOUS
  <2>2. Posts(q) /\ fresh' \subseteq fresh
    BY <1>2, <2>1, Activated
  <2> QED BY <1>2, <2>2
<1> QED BY <1>1, <1>2 DEF SetForegroundMIDlet

\* The applications when only events were sent to them,
LEMMA AppsPosted ==
  ASSUME AppTypes, NEW q, Posts(q), peer' = peer, work' = work
  PROVE  AppTypes'
BY DEF AppTypes, Posts

\* when isolates have ended,
LEMMA AppsEnded ==
  ASSUME AppTypes, NEW m \in Midlets, EndIsolates({m}), inbox' = [inbox EXCEPT ![m] = << >>]
  PROVE  AppTypes'
<1>1. peer' \in [Midlets -> States] /\ work' \in [Midlets -> Works]
  BY DEF AppTypes, EndIsolates, States, Works
<1>2. inbox' \in [Midlets -> Seq({"activate", "pause"})]
  BY DEF AppTypes
<1>3. ASSUME NEW x \in Midlets, peer'[x] = "none"
      PROVE  inbox'[x] = << >> /\ work'[x] = "idle"
  BY <1>3 DEF AppTypes, EndIsolates
<1> QED BY <1>1, <1>2, <1>3 DEF AppTypes

\* and when one has reached another state.
LEMMA AppsStep ==
  ASSUME AppTypes, NEW m \in Midlets, NEW p \in States, NEW w \in Works,
         peer' = [peer EXCEPT ![m] = p], work' = [work EXCEPT ![m] = w], inbox' = inbox,
         p # "none" \/ (inbox[m] = << >> /\ w = "idle")
  PROVE  AppTypes'
<1>1. peer' \in [Midlets -> States] /\ work' \in [Midlets -> Works] /\ inbox' \in [Midlets -> Seq({"activate", "pause"})]
  BY DEF AppTypes
<1>2. ASSUME NEW x \in Midlets, peer'[x] = "none"
      PROVE  inbox'[x] = << >> /\ work'[x] = "idle"
  BY <1>2 DEF AppTypes
<1> QED BY <1>1, <1>2 DEF AppTypes

\* MIDletPeer.setState: a MIDlet does not lose its isolate by it.
LEMMA Renewed ==
  ASSUME NEW old \in States, NEW new \in States \ {"none"}
  PROVE  NewState(old, new) \in States \ {"none"} \/ (old = "none" /\ NewState(old, new) = new)
BY DEF NewState, States

\* Events of a MIDlet for the AMS.
LEMMA Notified ==
  ASSUME amsq \in Seq(Events), NEW m \in Midlets, NEW events \in Seq(EventNames), Notify(events, m)
  PROVE  Extends(amsq', amsq)
<1> DEFINE b == [i \in DOMAIN events |-> Event(events[i], m)]
<1>1. DOMAIN events = 1 .. Len(events) /\ Len(events) \in Nat
  OBVIOUS
<1>2. \A i \in 1 .. Len(events) : Event(events[i], m) \in Events
  BY DEF Event, Events
<1>3. b \in [1 .. Len(events) -> Events]
  BY <1>1, <1>2
<1>4. b \in Seq(Events)
  BY <1>1, <1>3, MadeList
<1>5. amsq' = amsq \o b
  BY DEF Notify
<1> QED BY <1>4, <1>5, Extended

\* What one removal and one creation make of the list of proxies.
LEMMA ListTypes ==
  ASSUME list \in Seq(Midlets), NoRepeat(list), NEW m \in Midlets
  PROVE  /\ RemoveFirst(list, m) \in Seq(Midlets) /\ NoRepeat(RemoveFirst(list, m))
         /\ Elems(RemoveFirst(list, m)) = Elems(list) \ {m}
         /\ Append(list, m) \in Seq(Midlets) /\ Elems(Append(list, m)) = Elems(list) \cup {m}
         /\ m \notin Elems(list) => NoRepeat(Append(list, m))
         /\ Contains(list, m) <=> m \in Elems(list)
<1>1. Contains(list, m) <=> m \in Elems(list)
  BY DEF Contains, Elems
<1>2. m \notin Elems(list) => RemoveFirst(list, m) = list
  BY <1>1 DEF RemoveFirst, Contains
<1>3. m \in Elems(list) =>
        /\ RemoveFirst(list, m) \in Seq(Midlets) /\ NoRepeat(RemoveFirst(list, m))
        /\ Elems(RemoveFirst(list, m)) = Elems(list) \ {m}
  BY Removed
<1>4. /\ RemoveFirst(list, m) \in Seq(Midlets) /\ NoRepeat(RemoveFirst(list, m))
      /\ Elems(RemoveFirst(list, m)) = Elems(list) \ {m}
  BY <1>2, <1>3
<1> QED BY <1>1, <1>4, Appended

-----------------------------------------------------------------------------
(* Steps that leave the threads of the AMS alone.                          *)

\* What is sent keeps the queue's events for all MIDlets.
LEMMA Sent ==
  ASSUME NEW q, Extends(amsq', q),
         q = amsq \/ (q = Tail(amsq) /\ amsq # << >> /\ Head(amsq).type \notin AllEvents)
  PROVE  QueueKeeps /\ amsq' \in Seq(Events)
BY DEF QueueKeeps, Extends

\* The event that is handled next, and the queue behind it.
LEMMA Taken ==
  ASSUME amsq \in Seq(Events), NEW e, NEW m, Gets(e, m)
  PROVE  /\ amsq # << >> /\ Head(amsq).type = e /\ Head(amsq) = amsq[1] /\ amsq[1] = Event(e, m)
         /\ Tail(amsq) \in Seq(Events) /\ Extends(Tail(amsq), Tail(amsq)) /\ code["E"] = << >>
<1>1. amsq # << >> /\ Head(amsq) = Event(e, m) /\ code["E"] = << >>
  BY DEF Gets
<1>2. Head(amsq).type = e
  BY <1>1 DEF Event
<1>3. Tail(amsq) \in Seq(Events) /\ Head(amsq) = amsq[1]
  BY <1>1
<1> QED BY <1>1, <1>2, <1>3, Extended

\* The invariant, when only events are sent or taken.
LEMMA QuietStep ==
  ASSUME IInv, Types', code' = code, UNCHANGED <<state, deps, task, list>>, QueueKeeps,
         sr' = sr \/ {sr, sr'} \subseteq {"SUSPENDING", "RESUMING"}
  PROVE  IInv'
<1>1. Types /\ Threads /\ Loop(code["E"], list) /\ Suspending /\ TimerWhileSuspending
      /\ Promised /\ Backed /\ DependencyHasProxy
  BY DEF IInv
<1>2. SameMarks
  BY DEF SameMarks
<1>3. Suspending' /\ TimerWhileSuspending'
  BY <1>1, <1>2, StillSuspending
<1>4. Promised' /\ Backed'
  <2>1. amsq \in Seq(Events) /\ state' = state
    BY <1>1 DEF Types
  <2> QED BY <1>1, <1>2, <2>1, StillPromised
<1>5. Threads' /\ Loop(code["E"], list)'
  BY <1>1 DEF Threads
<1>6. DependencyHasProxy'
  BY <1>1 DEF DependencyHasProxy, Ahead
<1> QED BY <1>3, <1>4, <1>5, <1>6 DEF IInv

\* The same, of the parts that may change.
LEMMA QuietEvents ==
  ASSUME IInv, code' = code, UNCHANGED <<sr, state, deps, task, list, lastForeground>>,
         ProxyTypes', AppTypes', NEW q, Extends(amsq', q),
         q = amsq \/ (q = Tail(amsq) /\ amsq # << >> /\ Head(amsq).type \notin AllEvents)
  PROVE  IInv'
<1>1. QueueKeeps /\ amsq' \in Seq(Events)
  BY Sent
<1>2. SystemTypes /\ ProxyTypes /\ AppTypes /\ amsq \in Seq(Events)
  BY TypesParts DEF IInv
<1>3. SystemTypes'
  BY <1>2 DEF SystemTypes
<1>4. Types'
  BY <1>1, <1>3, TypesParts
<1> QED BY <1>1, <1>4, QuietStep

\* What the invariant says, in parts.
LEMMA Parts ==
  ASSUME IInv
  PROVE  /\ SystemTypes /\ ProxyTypes /\ AppTypes /\ amsq \in Seq(Events) /\ Extends(amsq, amsq)
         /\ Threads /\ Loop(code["E"], list) /\ Suspending /\ TimerWhileSuspending
         /\ Promised /\ Backed /\ DependencyHasProxy
BY TypesParts, Extended DEF IInv

\* The life cycle of a MIDlet, but for what the application manager does in the MIDP system.
LEMMA AppSteps ==
  ASSUME IInv, NEW m \in Midlets,
         \/ HandleMIDletEvent(m) \/ Unregister(m) \/ StartAppReturns(m) \/ ResourcesSuspended(m)
         \/ DestroyAppReturns(m) \/ ConstructorReturns(m) \/ (StartSuite(m) /\ UNCHANGED code)
         \/ (PauseAppReturns(m) /\ UNCHANGED code)
  PROVE  IInv'
<1>1. /\ SystemTypes /\ ProxyTypes /\ AppTypes /\ amsq \in Seq(Events) /\ Extends(amsq, amsq)
  BY Parts, Zenon
<1>2. ASSUME UNCHANGED <<sr, system, proxies, code>>, AppTypes', Extends(amsq', amsq)
      PROVE  IInv'
  <2>1. ProxyTypes'
    BY <1>1, <1>2 DEF ProxyTypes, proxies
  <2> QED BY <1>2, <2>1, QuietEvents DEF system, proxies
<1>3. \A events \in Seq(EventNames) : Notify(events, m) => Extends(amsq', amsq)
  BY <1>1, Notified
<1>4. \A w \in Works, p \in States : p # "none" =>
        (peer' = [peer EXCEPT ![m] = p] /\ work' = [work EXCEPT ![m] = w] /\ inbox' = inbox => AppTypes')
  BY <1>1, AppsStep
<1>5. /\ peer[m] \in States /\ peer = [peer EXCEPT ![m] = peer[m]]
      /\ work[m] \in Works /\ work = [work EXCEPT ![m] = work[m]]
      /\ Ready(m) => peer[m] # "none"
  BY <1>1 DEF AppTypes, Ready, Alive
<1>6. CASE HandleMIDletEvent(m)
  <2>1. /\ inbox' = [inbox EXCEPT ![m] = Tail(inbox[m])] /\ work' = work
        /\ peer[m] # "none" /\ inbox[m] # << >> /\ UNCHANGED <<sr, amsq, system, proxies, code>>
    BY <1>1, <1>6 DEF HandleMIDletEvent, Alive, AppTypes
  <2>2. PICK p \in States \ {"none"} : peer' = [peer EXCEPT ![m] = p]
    <3>1. CASE peer' = peer
      BY <1>5, <2>1, <3>1
    <3>2. CASE SetState(m, Pending(Head(inbox[m])))
      <4>1. Pending(Head(inbox[m])) \in States \ {"none"}
        BY DEF Pending, States
      <4>2. NewState(peer[m], Pending(Head(inbox[m]))) \in States \ {"none"}
        BY <1>5, <2>1, <4>1, Renewed
      <4>3. peer' = [peer EXCEPT ![m] = NewState(peer[m], Pending(Head(inbox[m])))]
        BY <1>1, <3>2 DEF SetState, AppTypes
      <4> QED BY <4>2, <4>3
    <3> QED BY <1>6, <3>1, <3>2 DEF HandleMIDletEvent
  <2>3. AppTypes'
    <3>1. peer' \in [Midlets -> States] /\ work' \in [Midlets -> Works]
      BY <1>1, <2>1, <2>2 DEF AppTypes
    <3>2. inbox' \in [Midlets -> Seq({"activate", "pause"})]
      BY <1>1, <2>1 DEF AppTypes
    <3>3. \A x \in Midlets : peer'[x] = "none" => inbox'[x] = << >> /\ work'[x] = "idle"
      BY <1>1, <2>1, <2>2 DEF AppTypes
    <3> QED BY <3>1, <3>2, <3>3 DEF AppTypes
  <2> QED BY <1>1, <1>2, <2>1, <2>3
<1>7. CASE Unregister(m)
  <2>1. AppTypes'
    BY <1>1, <1>7, AppsEnded DEF Unregister
  <2>2. <<"DESTROYED">> \in Seq(EventNames)
    BY DEF EventNames
  <2>3. Extends(amsq', amsq)
    BY <1>3, <1>7, <2>2 DEF Unregister
  <2> QED BY <1>2, <1>7, <2>1, <2>3 DEF Unregister
<1>8. CASE StartAppReturns(m)
  <2>1. <<"ACTIVE">> \in Seq(EventNames) /\ <<"FOREGROUND", "ACTIVE">> \in Seq(EventNames)
    BY DEF EventNames
  <2>2. Extends(amsq', amsq)
    BY <1>3, <1>8, <2>1 DEF StartAppReturns
  <2>3. AppTypes'
    <3>1. "idle" \in Works
      BY DEF Works
    <3> QED BY <1>4, <1>5, <1>8, <3>1 DEF StartAppReturns
  <2> QED BY <1>2, <1>8, <2>2, <2>3 DEF StartAppReturns
<1>9. CASE ResourcesSuspended(m)
  <2>1. <<"RS_PAUSED">> \in Seq(EventNames)
    BY DEF EventNames
  <2>2. Extends(amsq', amsq)
    BY <1>3, <1>9, <2>1 DEF ResourcesSuspended
  <2>3. AppTypes'
    <3>1. "idle" \in Works
      BY DEF Works
    <3> QED BY <1>4, <1>5, <1>9, <3>1 DEF ResourcesSuspended
  <2> QED BY <1>2, <1>9, <2>2, <2>3 DEF ResourcesSuspended
<1>10. CASE DestroyAppReturns(m)
  <2>1. AppTypes'
    <3>1. "idle" \in Works
      BY DEF Works
    <3> QED BY <1>4, <1>5, <1>10, <3>1 DEF DestroyAppReturns
  <2> QED BY <1>1, <1>2, <1>10, <2>1 DEF DestroyAppReturns
<1>11. CASE ConstructorReturns(m)
  <2>1. AppTypes'
    <3>1. "idle" \in Works
      BY DEF Works
    <3> QED BY <1>4, <1>5, <1>11, <3>1 DEF ConstructorReturns
  <2> QED BY <1>1, <1>2, <1>11, <2>1 DEF ConstructorReturns
<1>12. CASE StartSuite(m) /\ UNCHANGED code
  <2>1. AppTypes'
    <3>1. {"startApp", "pauseApp", "destroyApp"} \subseteq Works
          /\ {"ACTIVE", "PAUSED", "DESTROYED"} \subseteq States \ {"none"}
      BY DEF Works, States
    <3> QED BY <1>4, <1>12, <3>1 DEF StartSuite
  <2> QED BY <1>1, <1>2, <1>12, <2>1 DEF StartSuite
<1>13. CASE PauseAppReturns(m) /\ UNCHANGED code
  <2>1. <<"PAUSED">> \in Seq(EventNames)
    BY DEF EventNames
  <2>2. Extends(amsq', amsq)
    BY <1>3, <1>13, <2>1 DEF PauseAppReturns
  <2>3. AppTypes'
    <3>1. "suspend" \in Works
      BY DEF Works
    <3> QED BY <1>4, <1>5, <1>13, <3>1 DEF PauseAppReturns
  <2> QED BY <1>2, <1>13, <2>2, <2>3 DEF PauseAppReturns
<1> QED BY <1>6, <1>7, <1>8, <1>9, <1>10, <1>11, <1>12, <1>13

\* What MIDlets and the user do on their own.
LEMMA OwnSteps ==
  ASSUME IInv, NEW m \in Midlets, OwnStep(m)
  PROVE  IInv'
<1>1. /\ SystemTypes /\ ProxyTypes /\ AppTypes /\ amsq \in Seq(Events) /\ Extends(amsq, amsq)
  BY Parts, Zenon
<1>2. ASSUME UNCHANGED <<sr, system, proxies, code>>, AppTypes', Extends(amsq', amsq)
      PROVE  IInv'
  <2>1. ProxyTypes'
    BY <1>1, <1>2 DEF ProxyTypes, proxies
  <2> QED BY <1>2, <2>1, QuietEvents DEF system, proxies
<1>3. \A events \in Seq(EventNames) : Notify(events, m) => Extends(amsq', amsq)
  BY <1>1, Notified
<1>4. \A w \in Works, p \in States : p # "none" =>
        (peer' = [peer EXCEPT ![m] = p] /\ work' = [work EXCEPT ![m] = w] /\ inbox' = inbox => AppTypes')
  BY <1>1, AppsStep
<1>5. /\ peer[m] \in States /\ work[m] \in Works /\ work = [work EXCEPT ![m] = work[m]]
      /\ Alive(m) => peer[m] # "none"
      /\ work[m] # "idle" => peer[m] # "none"
  BY <1>1 DEF AppTypes, Alive
<1>6. \A new \in States \ {"none"} : peer[m] # "none" => NewState(peer[m], new) \in States \ {"none"}
  BY <1>5, Renewed
<1>7. UNCHANGED apps => AppTypes'
  BY <1>1 DEF AppTypes, apps
<1>8. CASE Launch(m)
  <2>1. <<"CREATE">> \in Seq(EventNames) /\ "ACTIVE_PENDING" \in States \ {"none"} /\ "constructor" \in Works
    BY DEF EventNames, States, Works
  <2>2. Extends(amsq', amsq)
    BY <1>3, <1>8, <2>1 DEF Launch
  <2>3. AppTypes'
    BY <1>4, <1>5, <1>8, <2>1 DEF Launch
  <2> QED BY <1>2, <1>8, <2>2, <2>3 DEF Launch
<1>9. CASE ConstructorThrows(m)
  <2>1. AppTypes'
    BY <1>1, <1>9, AppsEnded DEF ConstructorThrows
  <2>2. <<"DESTROYED">> \in Seq(EventNames)
    BY DEF EventNames
  <2>3. Extends(amsq', amsq)
    BY <1>3, <1>9, <2>2 DEF ConstructorThrows
  <2> QED BY <1>2, <1>9, <2>1, <2>3 DEF ConstructorThrows
<1>10. CASE AppThrows(m)
  <2>1. "idle" \in Works /\ "DESTROY_PENDING" \in States \ {"none"} /\ work[m] # "idle"
    BY <1>10 DEF Works, States, AppThrows
  <2>2. peer' = [peer EXCEPT ![m] = NewState(peer[m], "DESTROY_PENDING")]
    BY <1>1, <1>10 DEF AppThrows, SetState, AppTypes
  <2>3. AppTypes'
    BY <1>4, <1>5, <1>6, <1>10, <2>1, <2>2 DEF AppThrows
  <2> QED BY <1>1, <1>2, <1>10, <2>3 DEF AppThrows
<1>11. CASE NotifyPaused(m)
  <2>1. <<"PAUSED">> \in Seq(EventNames) /\ << >> \in Seq(EventNames) /\ "PAUSED" \in States \ {"none"}
    BY DEF EventNames, States
  <2>2. Extends(amsq', amsq)
    BY <1>3, <1>11, <2>1 DEF NotifyPaused
  <2>3. peer' = [peer EXCEPT ![m] = NewState(peer[m], "PAUSED")]
    BY <1>1, <1>11 DEF NotifyPaused, SetState, AppTypes
  <2>4. AppTypes'
    BY <1>4, <1>5, <1>6, <1>11, <2>1, <2>3 DEF NotifyPaused
  <2> QED BY <1>2, <1>11, <2>2, <2>4 DEF NotifyPaused
<1>12. CASE NotifyDestroyed(m)
  <2>1. "DESTROYED" \in States
    BY DEF States
  <2>2. AppTypes'
    BY <1>4, <1>5, <1>12, <2>1 DEF NotifyDestroyed
  <2> QED BY <1>1, <1>2, <1>12, <2>2 DEF NotifyDestroyed
<1>13. CASE ResumeRequest(m)
  <2>1. <<"RESUME_REQUEST">> \in Seq(EventNames)
    BY DEF EventNames
  <2>2. Extends(amsq', amsq)
    BY <1>3, <1>13, <2>1 DEF ResumeRequest
  <2> QED BY <1>2, <1>7, <1>13, <2>2 DEF ResumeRequest
<1>14. CASE FatalError(m)
  <2>1. <<"FATAL_ERROR">> \in Seq(EventNames)
    BY DEF EventNames
  <2>2. Extends(amsq', amsq)
    BY <1>1, <1>3, <1>14, <2>1 DEF FatalError
  <2>3. AppTypes'
    BY <1>1, <1>7, <1>14, AppsEnded DEF FatalError
  <2> QED BY <1>2, <1>14, <2>2, <2>3 DEF FatalError
<1>15. CASE SelectForeground(m)
  <2>1. fg \in Midlets /\ fresh \subseteq Midlets
    BY <1>1 DEF ProxyTypes
  <2>2. Posts(amsq) /\ fresh' \subseteq Midlets /\ fg' \in Midlets
    BY <1>1, <1>15, <2>1, Foregrounded DEF SelectForeground
  <2>3. AppTypes'
    BY <1>1, <1>15, <2>2, AppsPosted DEF SelectForeground
  <2>4. ProxyTypes'
    BY <1>1, <1>15, <2>2 DEF ProxyTypes, SelectForeground, ClearLastCreated
  <2>5. Extends(amsq', amsq)
    BY <2>2 DEF Posts
  <2>6. UNCHANGED <<sr, state, deps, task, list, lastForeground>> /\ code' = code
    BY <1>15 DEF SelectForeground, system
  <2> QED BY <2>3, <2>4, <2>5, <2>6, QuietEvents
<1>16. CASE SetCurrent(m)
  <2>1. <<"FOREGROUND">> \in Seq(EventNames)
    BY DEF EventNames
  <2>2. Extends(amsq', amsq)
    BY <1>3, <1>16, <2>1 DEF SetCurrent
  <2>3. AppTypes'
    BY <1>1, <1>16 DEF SetCurrent, AppTypes
  <2> QED BY <1>2, <1>16, <2>2, <2>3 DEF SetCurrent
<1> QED BY <1>8, <1>9, <1>10, <1>11, <1>12, <1>13, <1>14, <1>15, <1>16 DEF OwnStep

\* Events that a handler of the AMS deals with at once.
LEMMA EventsHandled ==
  ASSUME IInv, NEW m \in Midlets,
         \/ HandleMIDletActiveNotifyEvent(m) \/ HandleMIDletPauseNotifyEvent(m)
         \/ HandleMIDletResumeRequestEvent(m) \/ HandleDisplayForegroundRequestEvent(m)
         \/ NoProxyFound(m) \/ HandleManagerEvent
  PROVE  IInv'
<1>1. /\ SystemTypes /\ ProxyTypes /\ AppTypes /\ amsq \in Seq(Events)
  BY Parts, Zenon
<1> DEFINE OneEvent == EventNames \ AllEvents
<1>2. PICK e \in OneEvent, x \in Midlets : Gets(e, x)
  BY DEF HandleMIDletActiveNotifyEvent, HandleMIDletPauseNotifyEvent, HandleMIDletResumeRequestEvent,
         HandleDisplayForegroundRequestEvent, NoProxyFound, HandleManagerEvent, Finds, EventNames, AllEvents
<1>3. /\ amsq # << >> /\ Head(amsq).type \notin AllEvents /\ Tail(amsq) \in Seq(Events)
      /\ Extends(Tail(amsq), Tail(amsq))
  BY <1>1, <1>2, Taken
<1> HIDE DEF OneEvent
<1>4. ASSUME UNCHANGED <<sr, system, list, code>>, ProxyTypes', AppTypes', Extends(amsq', Tail(amsq))
      PROVE  IInv'
  BY <1>3, <1>4, QuietEvents DEF system
<1>5. fg \in Midlets /\ fresh \subseteq Midlets
  BY <1>1 DEF ProxyTypes
<1>6. CASE HandleMIDletActiveNotifyEvent(m)
  <2>1. ProxyTypes' /\ AppTypes'
    BY <1>1, <1>6 DEF HandleMIDletActiveNotifyEvent, ProxyTypes, AppTypes, apps
  <2> QED BY <1>3, <1>4, <1>6, <2>1 DEF HandleMIDletActiveNotifyEvent
<1>7. CASE HandleMIDletPauseNotifyEvent(m)
  <2>1. BackgroundRequest(m) \in Midlets
    BY <1>5 DEF BackgroundRequest
  <2>2. Posts(Tail(amsq)) /\ fresh' \subseteq Midlets /\ fg' \in Midlets
    BY <1>1, <1>3, <1>5, <1>7, <2>1, Foregrounded DEF HandleMIDletPauseNotifyEvent
  <2>3. ProxyTypes'
    BY <1>1, <1>7, <2>2 DEF HandleMIDletPauseNotifyEvent, ProxyTypes
  <2>4. AppTypes'
    BY <1>1, <1>7, <2>2, AppsPosted DEF HandleMIDletPauseNotifyEvent
  <2> QED BY <1>4, <1>7, <2>2, <2>3, <2>4 DEF HandleMIDletPauseNotifyEvent, Posts
<1>8. CASE HandleMIDletResumeRequestEvent(m)
  <2>1. Posts(Tail(amsq)) /\ fresh' \subseteq fresh
    BY <1>1, <1>3, <1>8, Activated DEF HandleMIDletResumeRequestEvent
  <2>2. ProxyTypes'
    BY <1>1, <1>8, <2>1 DEF HandleMIDletResumeRequestEvent, ProxyTypes
  <2>3. AppTypes'
    BY <1>1, <1>8, <2>1, AppsPosted DEF HandleMIDletResumeRequestEvent
  <2> QED BY <1>4, <1>8, <2>1, <2>2, <2>3 DEF HandleMIDletResumeRequestEvent, Posts
<1>9. CASE HandleDisplayForegroundRequestEvent(m)
  <2>1. Posts(Tail(amsq)) /\ fresh' \subseteq Midlets /\ fg' \in Midlets
    <3>1. (IF m = lastCreated THEN m ELSE fg) \in Midlets
      BY <1>5
    <3> QED BY <1>1, <1>3, <1>5, <1>9, <3>1, Foregrounded DEF HandleDisplayForegroundRequestEvent
  <2>2. ProxyTypes'
    BY <1>1, <1>9, <2>1 DEF HandleDisplayForegroundRequestEvent, ProxyTypes, ClearLastCreated
  <2>3. AppTypes'
    BY <1>1, <1>9, <2>1, AppsPosted DEF HandleDisplayForegroundRequestEvent
  <2> QED BY <1>4, <1>9, <2>1, <2>2, <2>3 DEF HandleDisplayForegroundRequestEvent, Posts
<1>10. CASE NoProxyFound(m)
  <2>1. ProxyTypes' /\ AppTypes'
    BY <1>1, <1>10 DEF NoProxyFound, ProxyTypes, AppTypes, apps, proxies
  <2> QED BY <1>3, <1>4, <1>10, <2>1 DEF NoProxyFound, proxies
<1>11. CASE HandleManagerEvent
  <2>1. PICK f \in {"activate", "pause"} : Gets(f, AppManager) /\ SetState(AppManager, Pending(f))
    BY <1>11 DEF HandleManagerEvent
  <2>2. Pending(f) \in States \ {"none"} /\ AppManager \in Midlets
    BY DEF Pending, States
  <2>3. peer' = [peer EXCEPT ![AppManager] = NewState(peer[AppManager], Pending(f))]
    BY <1>1, <2>1 DEF SetState, AppTypes
  <2>4. NewState(peer[AppManager], Pending(f)) \in States \ {"none"}
    <3>1. NewState("none", Pending(f)) = Pending(f)
      BY DEF NewState
    <3> QED BY <1>1, <2>2, <3>1, Renewed DEF AppTypes
  <2>5. work' = [work EXCEPT ![AppManager] = work[AppManager]] /\ inbox' = inbox
        /\ work[AppManager] \in Works
    BY <1>1, <1>11, <2>2 DEF HandleManagerEvent, AppTypes
  <2>6. AppTypes'
    BY <1>1, <2>2, <2>3, <2>4, <2>5, AppsStep
  <2>7. ProxyTypes'
    BY <1>1, <1>11 DEF HandleManagerEvent, ProxyTypes, proxies
  <2> QED BY <1>3, <1>4, <1>11, <2>6, <2>7 DEF HandleManagerEvent, proxies
<1> QED BY <1>6, <1>7, <1>8, <1>9, <1>10, <1>11

\* Requests of the native side.
LEMMA NativeSteps ==
  ASSUME IInv, MidpSuspend \/ MidpResume
  PROVE  IInv'
<1>1. /\ SystemTypes /\ ProxyTypes /\ AppTypes /\ amsq \in Seq(Events) /\ Extends(amsq, amsq)
      /\ Threads /\ Loop(code["E"], list) /\ Suspending /\ TimerWhileSuspending
      /\ Promised /\ Backed /\ DependencyHasProxy
  BY Parts, Zenon
<1>2. UNCHANGED <<system, proxies, code, apps>>
  BY DEF MidpSuspend, MidpResume
<1>3. ProxyTypes' /\ AppTypes'
  BY <1>1, <1>2 DEF ProxyTypes, proxies, AppTypes, apps
<1>4. /\ SameMarks /\ Threads' /\ Loop(code["E"], list)' /\ DependencyHasProxy'
      /\ Suspending' /\ TimerWhileSuspending'
  <2>1. SameMarks
    BY <1>2 DEF SameMarks
  <2>2. UNCHANGED <<state, task, deps, list>>
    BY <1>2 DEF system, proxies
  <2>3. Suspending' /\ TimerWhileSuspending'
    BY <1>1, <2>1, <2>2, StillSuspending
  <2> QED BY <1>1, <1>2, <2>1, <2>2, <2>3 DEF Threads, DependencyHasProxy, Ahead
<1>5. CASE sr' # sr /\ {sr, sr'} \subseteq {"SUSPENDING", "RESUMING"} /\ amsq' = amsq
  <2>1. SystemTypes'
    BY <1>1, <1>2, <1>5 DEF SystemTypes, system
  <2>2. Types'
    BY <1>1, <1>3, <1>5, <2>1, TypesParts
  <2>3. QueueKeeps
    BY <1>1, <1>5 DEF QueueKeeps
  <2> QED BY <1>2, <1>5, <2>2, <2>3, QuietStep DEF system, proxies
<1>6. ASSUME NEW e \in AllEvents, amsq' = Append(amsq, Event(e, None)), NEW s \in {"ACTIVE", "SUSPENDING"},
             sr' = s
      PROVE  /\ Types' /\ QueuedAt(amsq', Len(amsq) + 1, e)
             /\ \A i \in DOMAIN amsq : i \in DOMAIN amsq' /\ i < Len(amsq) + 1 /\ amsq'[i] = amsq[i]
  <2>1. Event(e, None) \in Events
    BY DEF Event, Events, AllEvents, EventNames
  <2>2. amsq' \in Seq(Events)
    BY <1>1, <1>6, <2>1
  <2>3. SystemTypes'
    BY <1>1, <1>2, <1>6 DEF SystemTypes, system
  <2>4. Types'
    BY <1>3, <2>2, <2>3, TypesParts
  <2>5. QueuedAt(amsq', Len(amsq) + 1, e)
    BY <1>1, <1>6, <2>1 DEF QueuedAt
  <2>6. \A i \in DOMAIN amsq : i \in DOMAIN amsq' /\ i < Len(amsq) + 1 /\ amsq'[i] = amsq[i]
    BY <1>1, <1>6, <2>1
  <2> QED BY <2>4, <2>5, <2>6
<1>7. CASE sr = "ACTIVE" /\ sr' = "SUSPENDING" /\ amsq' = Append(amsq, Event("PAUSE_ALL", None))
  <2>1. /\ Types' /\ QueuedAt(amsq', Len(amsq) + 1, "PAUSE_ALL")
        /\ \A i \in DOMAIN amsq : i \in DOMAIN amsq' /\ i < Len(amsq) + 1 /\ amsq'[i] = amsq[i]
    BY <1>6, <1>7 DEF AllEvents
  <2>2. Backed'
    BY <1>7 DEF Backed
  <2>3. CASE state = "ACTIVE"
    <3>1. Queued("PAUSE_ALL")'
      BY <2>1 DEF Queued, QueuedAt
    <3> QED BY <1>2, <1>4, <2>1, <2>2, <2>3, <3>1 DEF IInv, Promised, system
  <2>4. CASE state = "SUSPENDING"
    BY <1>2, <1>4, <2>1, <2>2, <2>4 DEF IInv, Promised, system
  <2>5. CASE state = "SUSPENDED"
    <3>1. Ahead("suspended0", None) => Ahead("suspended0", None)'
      BY <1>2 DEF Ahead
    <3>2. Resumes => ResumesFirst'
      <4>1. (\E i \in DOMAIN amsq : QueuedAt(amsq, i, "ACTIVATE_ALL")) => ResumesFirst'
        BY <2>1 DEF ResumesFirst, QueuedAt
      <4>2. Has(code["E"], "resume", None) => ResumesFirst'
        BY <1>2, <2>1 DEF ResumesFirst, QueuedAt
      <4> QED BY <4>1, <4>2 DEF Resumes
    <3>3. Promised'
      BY <1>1, <1>2, <1>7, <2>5, <3>1, <3>2 DEF Backed, Promised, system
    <3> QED BY <1>4, <2>1, <2>2, <3>3 DEF IInv
  <2> QED BY <1>1, <2>3, <2>4, <2>5 DEF SystemTypes
<1>8. CASE sr' = "ACTIVE" /\ amsq' = Append(amsq, Event("ACTIVATE_ALL", None))
  <2>1. Types' /\ QueuedAt(amsq', Len(amsq) + 1, "ACTIVATE_ALL")
    BY <1>6, <1>8 DEF AllEvents
  <2>2. Resumes'
    BY <2>1 DEF Resumes, QueuedAt
  <2>3. Promised' /\ Backed'
    BY <1>8, <2>2 DEF Promised, Backed
  <2> QED BY <1>4, <2>1, <2>3 DEF IInv
<1> QED BY <1>5, <1>7, <1>8 DEF MidpSuspend, MidpResume

-----------------------------------------------------------------------------
(* Statements that neither begin nor end a suspension or a resumption.     *)

\* They keep the invariant when the list of proxies and the dependencies agree.
LEMMA PlainStep ==
  ASSUME IInv, NEW t \in AMSThreads, NEW calls, Moves(t, calls),
         \A d \in Marks : ~ At(code[t], 1, d, None) /\ ~ Has(calls, d, None),
         state' = state, task' # "none" <=> task # "none", sr' = sr, QueueKeeps,
         deps' \subseteq deps \/ \A u \in AMSThreads : ~ Has(code[u], "suspendImpl", None),
         Types', Loop(code["E"], list)', DependencyHasProxy'
  PROVE  IInv'
<1>1. amsq \in Seq(Events) /\ Suspending /\ TimerWhileSuspending /\ Promised /\ Backed
  BY Parts, Zenon
<1>2. SameMarks
  BY MarksStay
<1>3. Suspending' /\ TimerWhileSuspending'
  BY <1>1, <1>2, StillSuspending
<1>4. Promised' /\ Backed'
  BY <1>1, <1>2, StillPromised
<1>5. Threads'
  BY DEF Moves
<1> QED BY <1>3, <1>4, <1>5 DEF IInv

\* The proxies and the dependencies as they were: the notice of a removal stays ahead.
LEMMA StillHasProxy ==
  ASSUME DependencyHasProxy, list' = list, deps' \subseteq deps, NEW t \in AMSThreads,
         NEW calls, Moves(t, calls), \A m \in deps' : ~ At(code[t], 1, "removed", m)
  PROVE  DependencyHasProxy'
<1> SUFFICES ASSUME NEW m \in deps' PROVE Contains(list', m) \/ Ahead("removed", m)'
  BY DEF DependencyHasProxy
<1>1. Contains(list, m) \/ Ahead("removed", m)
  BY DEF DependencyHasProxy
<1>2. Ahead("removed", m) => Ahead("removed", m)'
  BY StaysAhead
<1> QED BY <1>1, <1>2

\* The body of a handler that ends with a call for the MIDlet.
LEMMA LastCall ==
  ASSUME NEW m \in Midlets, NEW d \in {"create", "terminate"},
         NEW a \in {<< >>, RemoveMidletProxy(m)}
  PROVE  LET c == a \o <<Do(d, m)>>
         IN  /\ Shape(c) /\ \A i \in DOMAIN c : c[i].do \notin Marks \cup {"pauseMidlet"}
             /\ \A i \in DOMAIN c : c[i].do = "create" => i = Len(c) /\ c[i].of = m
             /\ a # << >> => Has(c, "remove", m)
<1> DEFINE b == <<Do(d, m)>>
           c == a \o b
<1>1. Shape(b) /\ Plain(b) /\ \A e, x : Has(b, e, x) <=> e = d /\ x = m
  BY OneCall DEF Simple
<1>2. Shape(a) /\ \A i \in DOMAIN a : a[i].do \notin Marks \cup {"create", "pauseMidlet"}
  BY Nothing, Removal
<1>3. Shape(c) /\ \A e, x : Has(c, e, x) <=> Has(a, e, x) \/ Has(b, e, x)
  BY <1>1, <1>2, ShapeJoined, Zenon
<1>4. b \in Seq(Statements) /\ Len(b) = 1 /\ b[1].do = d /\ b[1].of = m
  BY <1>1 DEF Shape, Do
<1>5. a \in Seq(Statements) /\ Len(a) \in Nat /\ DOMAIN a = 1 .. Len(a)
  BY <1>2 DEF Shape
<1> HIDE DEF b
<1>6. /\ c \in Seq(Statements) /\ Len(c) = Len(a) + Len(b)
      /\ \A i \in 1 .. Len(a) + Len(b) : c[i] = IF i <= Len(a) THEN a[i] ELSE b[i - Len(a)]
  BY <1>4, <1>5, JoinedAt, Zenon
<1> HIDE DEF c
<1>7. \A i \in DOMAIN c : (i \in DOMAIN a /\ c[i] = a[i]) \/ (i = Len(c) /\ c[i] = b[1])
  BY <1>4, <1>5, <1>6
<1>8. \A i \in DOMAIN c : c[i].do \notin Marks \cup {"pauseMidlet"}
  BY <1>2, <1>4, <1>7 DEF Marks
<1>9. \A i \in DOMAIN c : c[i].do = "create" => i = Len(c) /\ c[i].of = m
  BY <1>2, <1>4, <1>7
<1>10. a # << >> => Has(c, "remove", m)
  BY <1>3, Removal
<1> QED BY <1>3, <1>8, <1>9, <1>10 DEF b, c

\* Events for which the event thread has more to do.
LEMMA EventsBegun ==
  ASSUME IInv, NEW m \in Midlets,
         \/ HandleMIDletCreateNotifyEvent(m) \/ HandleMIDletRsPauseNotifyEvent(m)
         \/ HandleMIDletDestroyNotifyEvent(m) \/ HandleFatalErrorNotifyEvent(m)
  PROVE  IInv'
<1>1. /\ SystemTypes /\ ProxyTypes /\ AppTypes /\ amsq \in Seq(Events)
      /\ Threads /\ DependencyHasProxy
  BY Parts, Zenon
<1> DEFINE OneEvent == EventNames \ AllEvents
<1>2. PICK e \in OneEvent : Gets(e, m)
  BY DEF HandleMIDletCreateNotifyEvent, HandleMIDletRsPauseNotifyEvent, HandleMIDletDestroyNotifyEvent,
         HandleFatalErrorNotifyEvent, Finds, EventNames, AllEvents
<1>3. /\ amsq # << >> /\ Head(amsq).type \notin AllEvents
      /\ Extends(Tail(amsq), Tail(amsq)) /\ code["E"] = << >>
  BY <1>1, <1>2, Taken
<1> HIDE DEF OneEvent
<1>4. UNCHANGED <<sr, system, list, apps>> /\ ProxyTypes' /\ amsq' = Tail(amsq)
  BY <1>1 DEF HandleMIDletCreateNotifyEvent, HandleMIDletRsPauseNotifyEvent, ProxyTypes, proxies,
             HandleMIDletDestroyNotifyEvent, HandleFatalErrorNotifyEvent
<1>5. QueueKeeps /\ amsq' \in Seq(Events)
  BY <1>3, <1>4, Sent
<1>6. SystemTypes' /\ AppTypes'
  BY <1>1, <1>4 DEF SystemTypes, system, AppTypes, apps
<1>7. Types'
  BY <1>4, <1>5, <1>6, TypesParts
<1>8. ASSUME NEW c, Calls("E", c), Shape(c),
             \A i \in DOMAIN c : c[i].do \notin Marks \cup {"pauseMidlet"},
             \A i \in DOMAIN c : c[i].do = "create" =>
               i = Len(c) /\ (c[i].of \in Elems(list) => Has(c, "remove", c[i].of))
      PROVE  IInv'
  <2>1. "E" \in AMSThreads
    BY DEF AMSThreads
  <2>2. Moves("E", c)
    BY <1>1, <1>3, <1>8, <2>1, Starts
  <2>3. \A d, x : ~ At(code["E"], 1, d, x)
    BY <1>3
  <2>4. \A d \in Marks : ~ Has(c, d, None)
    BY <1>8 DEF Has
  <2>5. code'["E"] = c
    BY <1>1, <1>8, <2>1 DEF Calls, Threads
  <2>6. Loop(code["E"], list)'
    BY <1>4, <1>8, <2>5 DEF Loop
  <2>7. DependencyHasProxy'
    BY <1>1, <1>4, <2>1, <2>2, <2>3, StillHasProxy DEF system
  <2> QED BY <1>4, <1>5, <1>7, <2>1, <2>2, <2>3, <2>4, <2>6, <2>7, PlainStep DEF system
<1>9. list \in Seq(Midlets) /\ (Contains(list, m) <=> m \in Elems(list)) /\ RemoveMidletProxy(m) # << >>
  <2>1. RemoveMidletProxy(m) # << >>
    BY Nothing, Removal
  <2> QED BY <1>1, <2>1, ListTypes DEF ProxyTypes
<1>10. CASE HandleMIDletCreateNotifyEvent(m)
  <2> DEFINE a == IF Contains(list, m) THEN RemoveMidletProxy(m) ELSE << >>
             c == a \o <<Do("create", m)>>
  <2>1. /\ Shape(c) /\ \A i \in DOMAIN c : c[i].do \notin Marks \cup {"pauseMidlet"}
        /\ \A i \in DOMAIN c : c[i].do = "create" => i = Len(c) /\ c[i].of = m
        /\ a # << >> => Has(c, "remove", m)
    <3>1. a \in {<< >>, RemoveMidletProxy(m)}
      OBVIOUS
    <3> HIDE DEF a
    <3> QED BY <3>1, LastCall
  <2>2. Calls("E", c)
    BY <1>10 DEF HandleMIDletCreateNotifyEvent
  <2>3. m \in Elems(list) => Has(c, "remove", m)
    <3>1. m \in Elems(list) => a # << >>
      BY <1>9
    <3> HIDE DEF a
    <3> QED BY <2>1, <3>1
  <2> HIDE DEF a, c
  <2> QED BY <1>8, <2>1, <2>2, <2>3
<1>11. CASE HandleMIDletRsPauseNotifyEvent(m)
  <2> DEFINE c == <<Do("drop", m)>>
  <2>1. Shape(c) /\ \A d, x : Has(c, d, x) <=> d = "drop" /\ x = m
    BY OneCall DEF Simple
  <2>2. Calls("E", c)
    BY <1>11 DEF HandleMIDletRsPauseNotifyEvent, RemoveSuspendDependency
  <2>3. \A i \in DOMAIN c : c[i].do = "drop"
    BY DEF Do
  <2> HIDE DEF c
  <2> QED BY <1>8, <2>1, <2>2, <2>3 DEF Marks
<1>12. CASE HandleMIDletDestroyNotifyEvent(m)
  <2> DEFINE c == RemoveMidletProxy(m)
  <2>1. Shape(c) /\ \A i \in DOMAIN c : c[i].do \notin Marks \cup {"create", "pauseMidlet"}
    BY Removal
  <2>2. Calls("E", c)
    BY <1>12 DEF HandleMIDletDestroyNotifyEvent
  <2> HIDE DEF c
  <2> QED BY <1>8, <2>1, <2>2
<1>13. CASE HandleFatalErrorNotifyEvent(m)
  <2> DEFINE a == IF Contains(list, m) THEN RemoveMidletProxy(m) ELSE << >>
             c == a \o <<Do("terminate", m)>>
  <2>1. /\ Shape(c) /\ \A i \in DOMAIN c : c[i].do \notin Marks \cup {"pauseMidlet"}
        /\ \A i \in DOMAIN c : c[i].do # "create"
    <3>1. a \in {<< >>, RemoveMidletProxy(m)}
      OBVIOUS
    <3>2. Shape(<<Do("terminate", m)>>) /\ Plain(<<Do("terminate", m)>>)
          /\ \A o, x : Has(<<Do("terminate", m)>>, o, x) <=> o = "terminate" /\ x = m
      BY OneCall DEF Simple
    <3>3. Shape(a) /\ \A i \in DOMAIN a : a[i].do # "create"
      BY Nothing, Removal
    <3> HIDE DEF a
    <3>4. \A o, x : Has(c, o, x) <=> Has(a, o, x) \/ Has(<<Do("terminate", m)>>, o, x)
      BY <3>2, <3>3, ShapeJoined, Zenon
    <3>5. Shape(c) /\ \A i \in DOMAIN c : c[i].do \notin Marks \cup {"pauseMidlet"}
      BY <3>1, LastCall
    <3> HIDE DEF c
    <3>6. \A x : ~ Has(c, "create", x)
      BY <3>2, <3>3, <3>4 DEF Has
    <3>7. \A i \in DOMAIN c : c[i].do # "create"
      BY <3>6 DEF Has
    <3> QED BY <3>5, <3>7
  <2>2. Calls("E", c)
    BY <1>13 DEF HandleFatalErrorNotifyEvent
  <2> HIDE DEF a, c
  <2> QED BY <1>8, <2>1, <2>2
<1> QED BY <1>10, <1>11, <1>12, <1>13

\* The statement a thread is at.
Reached(t, d, x) ==
  /\ Shape(code[t]) /\ code[t] # << >> /\ Head(code[t]).do = d /\ At(code[t], 1, d, x)
  /\ \A e, y : At(code[t], 1, e, y) => e = d /\ y = x
\* A thread that runs a statement has reached it.
LEMMA Running ==
  ASSUME Threads, NEW t \in AMSThreads, NEW d, NEW x, Runs(t, d, x)
  PROVE  /\ Shape(code[t]) /\ code[t] # << >> /\ Head(code[t]) = code[t][1]
         /\ Head(code[t]).do = d /\ At(code[t], 1, d, x)
         /\ \A e, y : At(code[t], 1, e, y) => e = d /\ y = x
         /\ Reached(t, d, x)
<1>1. Shape(code[t]) /\ code[t] # << >> /\ Head(code[t]).do = d /\ Head(code[t]).of = x
  BY DEF Runs, Threads
<1>2. code[t] \in Seq(Statements)
  BY <1>1 DEF Shape
<1>3. Head(code[t]) = code[t][1] /\ 1 \in DOMAIN code[t]
  BY <1>1, <1>2
<1> QED BY <1>1, <1>3 DEF Reached

\* The loop over the proxies, when a thread does not change the list.
LEMMA LoopStays ==
  ASSUME Threads, Loop(code["E"], list), NEW t \in AMSThreads, NEW d, NEW x, Runs(t, d, x),
         NEW calls, Shape(calls), Then(t, calls), list' = list, d # "remove",
         t = "E" => \A i \in DOMAIN calls :
           /\ calls[i].do \notin {"create", "pauseMidlet"}
           /\ calls[i].do \in Concerns => d \in Concerns /\ x = calls[i].of
  PROVE  Loop(code["E"], list)'
<1>1. code' = [code EXCEPT ![t] = LeaveMonitors(calls \o Tail(code[t]))]
  BY DEF Then
<1>2. CASE t # "E"
  BY <1>1, <1>2 DEF Threads
<1>3. CASE t = "E"
  <2> DEFINE c == code["E"]
  <2>1. Shape(c) /\ c # << >> /\ At(c, 1, d, x) /\ calls \in Seq(Statements)
    <3>1. Shape(code[t]) /\ code[t] # << >> /\ At(code[t], 1, d, x)
      <4>1. Reached(t, d, x)
        BY Running, Zenon
      <4> QED BY <4>1 DEF Reached
    <3> QED BY <1>3, <3>1 DEF Shape
  <2>2. \A i \in DOMAIN calls :
          /\ calls[i].do \notin {"create", "pauseMidlet"}
          /\ calls[i].do \in Concerns => c[1].do \in Concerns /\ c[1].of = calls[i].of
    BY <1>3, <2>1
  <2>3. \A m \in Elems(list) : m \in Elems(list) <=> ~ At(c, 1, "remove", m)
    BY <2>1
  <2> HIDE DEF c
  <2>4. Loop(LeaveMonitors(calls \o Tail(c)), list)
    BY <2>1, <2>2, <2>3, LoopGoes DEF c
  <2>5. code'["E"] = LeaveMonitors(calls \o Tail(c))
    BY <1>1, <1>3 DEF Threads, c
  <2> QED BY <2>4, <2>5
<1> QED BY <1>2, <1>3

\* When they do not remove a proxy, nor add a dependency, they agree.
LEMMA PlainStatement ==
  ASSUME IInv, NEW t \in AMSThreads, NEW d, NEW x, Runs(t, d, x),
         NEW calls, Shape(calls), Then(t, calls),
         d \notin Marks \cup {"remove", "exit"}, \A i \in DOMAIN calls : calls[i].do \notin Marks,
         t = "E" => \A i \in DOMAIN calls :
           /\ calls[i].do \notin {"create", "pauseMidlet"}
           /\ calls[i].do \in Concerns => d \in Concerns /\ x = calls[i].of,
         UNCHANGED <<sr, state, list>>, task' # "none" <=> task # "none", QueueKeeps,
         deps' \subseteq deps, \A m \in deps' : d = "removed" => m # x, Types'
  PROVE  IInv'
<1>1. Threads /\ Loop(code["E"], list) /\ DependencyHasProxy
  BY Parts, Zenon
<1>2. /\ code[t] # << >> /\ Head(code[t]).do = d
      /\ \A e, y : At(code[t], 1, e, y) => e = d /\ y = x
  BY <1>1, Running
<1>3. Moves(t, calls)
  <2>1. Head(code[t]).do # "suspendImpl"
    BY <1>2 DEF Marks
  <2> QED BY <1>1, <1>2, <2>1, MovesOn
<1>4. Loop(code["E"], list)'
  BY <1>1, LoopStays
<1>5. DependencyHasProxy'
  BY <1>1, <1>2, <1>3, StillHasProxy
<1>6. \A e \in Marks : ~ At(code[t], 1, e, None) /\ ~ Has(calls, e, None)
  BY <1>2 DEF Has
<1> QED BY <1>3, <1>4, <1>5, <1>6, PlainStep

\* What stays of the types when only code, and perhaps the timer's task, changes.
LEMMA SameTypes ==
  ASSUME IInv, UNCHANGED <<sr, amsq, state, deps, lastForeground, proxies, apps>>,
         task' \in {"none", "armed", "run"}
  PROVE  Types' /\ QueueKeeps
<1>1. SystemTypes /\ ProxyTypes /\ AppTypes /\ amsq \in Seq(Events) /\ Extends(amsq, amsq)
  BY Parts, Zenon
<1>2. SystemTypes' /\ ProxyTypes' /\ AppTypes' /\ amsq' \in Seq(Events)
  BY <1>1 DEF SystemTypes, ProxyTypes, proxies, AppTypes, apps
<1> QED BY <1>1, <1>2, TypesParts DEF QueueKeeps

(* One statement for each of a list of MIDlets,                            *)
OneForEach(d, f) == [i \in DOMAIN f |-> Do(d, f[i])]
\* is a list of statements like others,
LEMMA ForProxies ==
  ASSUME NEW d \in {"drop", "terminateNotPaused", "pauseMidlet"}, NEW n \in Nat,
         NEW f \in [1 .. n -> Midlets]
  PROVE  /\ Shape(OneForEach(d, f)) /\ Plain(OneForEach(d, f)) /\ DOMAIN OneForEach(d, f) = 1 .. n
         /\ \A i \in 1 .. n : OneForEach(d, f)[i].do = d /\ OneForEach(d, f)[i].of = f[i]
<1> DEFINE s == OneForEach(d, f)
<1>1. \A i \in 1 .. n : Do(d, f[i]) \in Statements /\ Do(d, f[i]).do = d /\ Do(d, f[i]).of = f[i]
  BY DEF Statements, Calling, Do
<1>2. s \in [1 .. n -> Statements] /\ \A i \in 1 .. n : s[i] = Do(d, f[i])
  BY <1>1 DEF OneForEach
<1> HIDE DEF s
<1>3. s \in Seq(Statements) /\ DOMAIN s = 1 .. n
  BY <1>2, MadeList
<1>4. \A i \in 1 .. n : s[i].do = d /\ s[i].of = f[i]
  BY <1>1, <1>2
<1>5. Shape(s) /\ Plain(s)
  BY <1>3, <1>4 DEF Shape, Plain
<1> QED BY <1>3, <1>4, <1>5 DEF s

(* and then the monitor of the list is left.                               *)
Leaving(s) == s \o <<Exit("midletProxies")>>
\* which that does not change.
LEMMA ThenLeaves ==
  ASSUME NEW s, Shape(s), Plain(s)
  PROVE  /\ Shape(Leaving(s)) /\ Plain(Leaving(s)) /\ DOMAIN Leaving(s) = 1 .. Len(s) + 1
         /\ Len(s) \in Nat /\ DOMAIN s = 1 .. Len(s)
         /\ \A i \in DOMAIN s : i \in DOMAIN Leaving(s) /\ Leaving(s)[i] = s[i]
         /\ At(Leaving(s), Len(s) + 1, "exit", "midletProxies")
<1> DEFINE b == <<Exit("midletProxies")>>
           c == Leaving(s)
<1>1. Exit("midletProxies") \in Statements /\ Exit("midletProxies").do = "exit"
      /\ Exit("midletProxies").of = "midletProxies"
  BY DEF Statements, Monitors, Exit, Do
<1>2. b \in Seq(Statements) /\ DOMAIN b = {1} /\ b[1] = Exit("midletProxies") /\ Len(b) = 1 /\ c = s \o b
  BY <1>1 DEF Leaving
<1> HIDE DEF b, c
<1>3. \A i \in DOMAIN b : b[i].do = "exit"
  BY <1>1, <1>2
<1>4. Shape(b) /\ Plain(b)
  BY <1>2, <1>3 DEF Shape, Plain
<1>5. Shape(c)
  BY <1>2, <1>4, ShapeJoined, Zenon
<1>6. s \in Seq(Statements) /\ Len(s) \in Nat /\ DOMAIN s = 1 .. Len(s)
  BY DEF Shape
<1>7. /\ c \in Seq(Statements) /\ Len(c) = Len(s) + Len(b)
      /\ \A i \in 1 .. Len(s) + Len(b) : c[i] = IF i <= Len(s) THEN s[i] ELSE b[i - Len(s)]
  <2>1. /\ s \o b \in Seq(Statements) /\ Len(s \o b) = Len(s) + Len(b)
        /\ \A i \in 1 .. Len(s) + Len(b) : (s \o b)[i] = IF i <= Len(s) THEN s[i] ELSE b[i - Len(s)]
    <3>1. Concatenates(s, b)
      BY <1>2, <1>6, Joins, Zenon
    <3> QED BY <3>1 DEF Concatenates
  <2> QED BY <1>2, <2>1, Zenon
<1>8. \A i \in DOMAIN s : i \in DOMAIN c /\ c[i] = s[i]
  BY <1>2, <1>6, <1>7
<1>9. c[Len(s) + 1] = b[1] /\ DOMAIN c = 1 .. Len(s) + 1
  BY <1>2, <1>6, <1>7
<1>10. Plain(c)
  <2>1. \A i \in DOMAIN c : i \in DOMAIN s \/ i = Len(s) + 1
    BY <1>6, <1>9
  <2> QED BY <1>1, <1>2, <1>8, <1>9, <2>1 DEF Plain
<1> QED BY <1>1, <1>2, <1>5, <1>6, <1>8, <1>9, <1>10 DEF c

\* Statements that are done at once.
LEMMA PlainStatements ==
  ASSUME IInv, NEW t \in AMSThreads, NEW m \in Midlets,
         \/ \E monitor \in {"this", "lock"} : EnterMonitor(t, monitor)
         \/ TerminateMIDletIsolate(t, m) \/ ActivateAll
         \/ IsResumePending \/ RemoveDependencies \/ TerminatePauseAll
  PROVE  IInv'
<1>1. /\ SystemTypes /\ ProxyTypes /\ AppTypes /\ amsq \in Seq(Events) /\ Extends(amsq, amsq)
      /\ Threads /\ DependencyHasProxy
  BY Parts, Zenon
<1>2. list \in Seq(Midlets) /\ Len(list) \in Nat /\ DOMAIN list = 1 .. Len(list)
      /\ \A i \in 1 .. Len(list) : list[i] \in Midlets
  BY <1>1 DEF ProxyTypes
<1>3. {"E", "T"} \subseteq AMSThreads
  BY DEF AMSThreads
<1>4. \A i \in DOMAIN << >> : FALSE
  OBVIOUS
<1>5. UNCHANGED <<sr, amsq, state, deps, task, lastForeground, proxies, apps>> => Types' /\ QueueKeeps
  <2>1. task \in {"none", "armed", "run"}
    BY <1>1 DEF SystemTypes
  <2> QED BY <2>1, SameTypes
<1>6. ASSUME NEW monitor \in {"this", "lock"}, EnterMonitor(t, monitor)
      PROVE  IInv'
  <2>1. /\ Runs(t, "enter", monitor) /\ Then(t, << >>)
        /\ UNCHANGED <<sr, amsq, state, deps, task, lastForeground, proxies, apps>>
        /\ UNCHANGED <<sr, state, list>> /\ task' = task /\ deps' = deps
    BY <1>6 DEF EnterMonitor, system, proxies
  <2>2. "enter" \notin Marks \cup {"remove", "exit"} /\ "enter" # "removed"
    BY DEF Marks
  <2> QED BY <1>4, <1>5, <2>1, <2>2, Nothing, PlainStatement
<1>7. CASE TerminateMIDletIsolate(t, m)
  <2>1. PICK d \in {"terminate", "terminateNotPaused"} : Runs(t, d, m)
    BY <1>7 DEF TerminateMIDletIsolate
  <2>2. UNCHANGED <<sr, amsq, state, deps, task, lastForeground, proxies>>
    BY <1>7 DEF TerminateMIDletIsolate, system
  <2>3. PICK calls \in {<< >>, RemoveMidletProxy(m)} : Then(t, calls)
    BY <1>7 DEF TerminateMIDletIsolate
  <2>4. AppTypes'
    <3>1. UNCHANGED apps => AppTypes'
      BY <1>1 DEF AppTypes, apps
    <3> QED BY <1>1, <1>7, <3>1, AppsEnded DEF TerminateMIDletIsolate
  <2>5. Types' /\ QueueKeeps
    <3>1. SystemTypes' /\ ProxyTypes' /\ amsq' \in Seq(Events)
      BY <1>1, <2>2 DEF SystemTypes, ProxyTypes, proxies
    <3> QED BY <1>1, <2>2, <2>4, <3>1, TypesParts DEF QueueKeeps
  <2>6. d \notin Marks \cup {"remove", "exit"} /\ d # "removed" /\ d \in Concerns
    BY DEF Marks, Concerns
  <2>7. /\ Shape(calls) /\ \A i \in DOMAIN calls : calls[i].do \notin Marks \cup {"create", "pauseMidlet"}
        /\ \A i \in DOMAIN calls : calls[i].do \in Concerns => calls[i].of = m
    BY <1>4, Nothing, Removal
  <2>8. UNCHANGED <<sr, state, list>> /\ task' = task /\ deps' = deps
    BY <2>2 DEF proxies
  <2> QED BY <2>1, <2>3, <2>5, <2>6, <2>7, <2>8, PlainStatement
<1>8. CASE ActivateAll
  <2>1. /\ Runs("E", "activateAll", None) /\ Then("E", << >>)
        /\ UNCHANGED <<sr, state, list>> /\ task' = task /\ deps' = deps
    BY <1>8 DEF ActivateAll, system
  <2>2. ToSet(list) \in SUBSET Midlets
    BY <1>2 DEF ToSet
  <2>3. Posts(amsq) /\ fresh' \subseteq fresh
    BY <1>1, <1>8, <2>2, Activated DEF ActivateAll
  <2>4. SystemTypes' /\ ProxyTypes' /\ AppTypes'
    <3>1. SystemTypes'
      BY <1>1, <1>8 DEF ActivateAll, SystemTypes, system
    <3>2. ProxyTypes'
      BY <1>1, <1>8, <2>3 DEF ActivateAll, ProxyTypes
    <3>3. AppTypes'
      BY <1>1, <1>8, <2>3, AppsPosted DEF ActivateAll
    <3> QED BY <3>1, <3>2, <3>3
  <2>5. QueueKeeps /\ amsq' \in Seq(Events)
    BY <2>3, Sent DEF Posts
  <2>6. Types'
    BY <2>4, <2>5, TypesParts
  <2>7. "activateAll" \notin Marks \cup {"remove", "exit"} /\ "activateAll" # "removed"
    BY DEF Marks
  <2> QED BY <1>3, <1>4, <2>1, <2>5, <2>6, <2>7, Nothing, PlainStatement
<1>9. ASSUME NEW d \in {"isResumePending", "getMIDlets", "terminatePauseAll"}, Runs("T", d, None),
             NEW c, Then("T", c), Shape(c),
             \A i \in DOMAIN c : c[i].do \notin Marks,
             UNCHANGED <<sr, amsq, system, proxies, apps, spent>>
      PROVE  IInv'
  <2>1. d \notin Marks \cup {"remove", "exit"} /\ d # "removed"
    BY DEF Marks
  <2>2. Types' /\ QueueKeeps
    BY <1>5, <1>9 DEF system
  <2>3. UNCHANGED <<sr, state, list>> /\ task' = task /\ deps' = deps
    BY <1>9 DEF system, proxies
  <2> QED BY <1>3, <1>9, <2>1, <2>2, <2>3, PlainStatement
<1>10. CASE IsResumePending
  <2> DEFINE d == IF sr = "RESUMING" THEN "getMIDlets" ELSE "terminatePauseAll"
  <2>1. d \in {"getMIDlets", "terminatePauseAll"}
    OBVIOUS
  <2>2. Then("T", <<Do(d, None)>>) /\ Runs("T", "isResumePending", None)
        /\ UNCHANGED <<sr, amsq, system, proxies, apps, spent>>
    BY <1>10 DEF IsResumePending
  <2> HIDE DEF d
  <2> DEFINE c == <<Do(d, None)>>
  <2>3. Shape(c) /\ \A e, x : Has(c, e, x) <=> e = d /\ x = None
    <3>1. d \in Simple /\ None \in Midlets \cup {None}
      BY <2>1 DEF Simple
    <3> QED BY <3>1, OneCall
  <2>4. \A i \in DOMAIN c : c[i].do \notin Marks
    BY <2>1, <2>3 DEF Has, Marks
  <2> HIDE DEF c
  <2> QED BY <1>9, <2>2, <2>3, <2>4 DEF c
<1>11. CASE RemoveDependencies
  <2> DEFINE c == OneForEach("drop", list)
  <2>1. Then("T", c) /\ Runs("T", "getMIDlets", None)
        /\ UNCHANGED <<sr, amsq, system, proxies, apps, spent>>
    BY <1>11 DEF RemoveDependencies, OneForEach
  <2>2. list \in [1 .. Len(list) -> Midlets]
    BY <1>2
  <2>3. Shape(c) /\ DOMAIN c = 1 .. Len(list) /\ \A i \in 1 .. Len(list) : c[i].do = "drop"
    BY <1>2, <2>2, ForProxies
  <2> HIDE DEF c
  <2> QED BY <1>9, <2>1, <2>3 DEF Marks
<1>12. CASE TerminatePauseAll
  <2> DEFINE f == [i \in 1 .. Len(list) |-> list[Len(list) + 1 - i]]
             s == OneForEach("terminateNotPaused", f)
             c == Leaving(s)
  <2>1. f \in [1 .. Len(list) -> Midlets] /\ Each("terminateNotPaused") = s
    BY <1>2 DEF Each, OneForEach
  <2>2. /\ Then("T", c) /\ Runs("T", "terminatePauseAll", None)
        /\ UNCHANGED <<sr, amsq, system, proxies, apps, spent>>
    BY <1>12, <2>1 DEF TerminatePauseAll, Leaving
  <2> HIDE DEF f
  <2>3. /\ Shape(s) /\ Plain(s) /\ DOMAIN s = 1 .. Len(list)
        /\ \A i \in 1 .. Len(list) : s[i].do = "terminateNotPaused"
    BY <1>2, <2>1, ForProxies
  <2> HIDE DEF s
  <2>4. /\ Shape(c) /\ DOMAIN c = 1 .. Len(s) + 1 /\ Len(s) \in Nat /\ DOMAIN s = 1 .. Len(s)
        /\ \A i \in DOMAIN s : i \in DOMAIN c /\ c[i] = s[i]
        /\ At(c, Len(s) + 1, "exit", "midletProxies")
    BY <2>3, ThenLeaves
  <2> HIDE DEF c
  <2>5. \A i \in DOMAIN c : i \in DOMAIN s \/ i = Len(s) + 1
    BY <2>4
  <2>6. \A i \in DOMAIN c : c[i].do \in {"terminateNotPaused", "exit"}
    BY <2>3, <2>4, <2>5
  <2> QED BY <1>9, <2>2, <2>4, <2>6 DEF Marks
<1> QED BY <1>6, <1>7, <1>8, <1>10, <1>11, <1>12

-----------------------------------------------------------------------------
(* The requests for all MIDlets.                                           *)

\* A request is handled: what the event thread begins keeps it on its way.
LEMMA RequestBegun ==
  ASSUME IInv, NEW e \in AllEvents, Gets(e, None), amsq' = Tail(amsq),
         UNCHANGED <<sr, system, proxies, apps, spent>>,
         NEW c, Calls("E", c), Shape(c), Loop(c, list),
         \A d \in {"suspend", "suspendImpl", "suspended0"} : ~ Has(c, d, None),
         e = "PAUSE_ALL" => Has(c, "start", None), e = "ACTIVATE_ALL" => Has(c, "resume", None)
  PROVE  IInv'
<1>1. /\ SystemTypes /\ ProxyTypes /\ AppTypes /\ amsq \in Seq(Events) /\ Threads /\ Suspending
      /\ TimerWhileSuspending /\ Promised /\ Backed /\ DependencyHasProxy
  BY Parts, Zenon
<1>2. amsq # << >> /\ amsq[1] = Event(e, None) /\ Tail(amsq) \in Seq(Events) /\ code["E"] = << >>
  BY <1>1, Taken
<1>3. "E" \in AMSThreads
  BY DEF AMSThreads
<1>4. Moves("E", c) /\ code'["E"] = c
  <2>1. Moves("E", c)
    BY <1>1, <1>2, <1>3, Starts
  <2> QED BY <1>1, <1>3, <2>1 DEF Calls, Threads
<1>5. \A d, x : ~ At(code["E"], 1, d, x) /\ ~ Has(code["E"], d, x)
  BY <1>2 DEF Has
<1>6. UNCHANGED <<sr, state, deps, task, list>>
  BY DEF system, proxies
<1>7. Types'
  <2>1. SystemTypes' /\ ProxyTypes' /\ AppTypes' /\ amsq' \in Seq(Events)
    BY <1>1, <1>2 DEF SystemTypes, system, ProxyTypes, proxies, AppTypes, apps
  <2> QED BY <2>1, TypesParts
<1>8. Threads' /\ Loop(code["E"], list)'
  BY <1>4, <1>6 DEF Moves
<1>9. Suspending' /\ TimerWhileSuspending'
  <2>1. \A u \in AMSThreads, d \in {"suspend", "suspendImpl"} :
          Has(code'[u], d, None) <=> Has(code[u], d, None)
    BY <1>4, <1>5 DEF Moves
  <2> QED BY <1>1, <1>6, <2>1, SuspendingSame
<1>10. DependencyHasProxy'
  BY <1>1, <1>3, <1>4, <1>5, <1>6, StillHasProxy
<1>11. \A d \in Marks : Ahead(d, None) => Ahead(d, None)'
  <2>1. ASSUME NEW d \in Marks, Ahead(d, None) PROVE Ahead(d, None)'
    <3>1. d # "exit"
      BY DEF Marks
    <3> QED BY <1>3, <1>4, <1>5, <2>1, <3>1, StaysAhead
  <2> QED BY <2>1
<1>12. /\ \A i \in DOMAIN amsq : i # 1 => i - 1 \in DOMAIN amsq' /\ amsq'[i - 1] = amsq[i] /\ i \in Nat /\ i > 1
       /\ \A f : QueuedAt(amsq, 1, f) => f = e
  BY <1>1, <1>2 DEF QueuedAt, Event
<1>13. CASE e = "PAUSE_ALL"
  <2>1. Ahead("start", None)'
    BY <1>3, <1>4, <1>13 DEF Ahead, Has
  <2>2. ResumesFirst => ResumesFirst'
    <3> SUFFICES ASSUME ResumesFirst PROVE ResumesFirst'
      OBVIOUS
    <3>1. PICK i, j \in DOMAIN amsq : /\ QueuedAt(amsq, i, "PAUSE_ALL") /\ QueuedAt(amsq, j, "ACTIVATE_ALL")
                                      /\ j < i
      BY <1>5 DEF ResumesFirst
    <3>2. j # 1
      BY <1>12, <1>13, <3>1
    <3>3. i # 1
      BY <1>1, <3>1, <3>2
    <3>4. /\ i - 1 \in DOMAIN amsq' /\ j - 1 \in DOMAIN amsq' /\ j - 1 < i - 1
          /\ amsq'[i - 1] = amsq[i] /\ amsq'[j - 1] = amsq[j]
      BY <1>12, <3>1, <3>2, <3>3
    <3>5. QueuedAt(amsq', i - 1, "PAUSE_ALL") /\ QueuedAt(amsq', j - 1, "ACTIVATE_ALL")
      BY <3>1, <3>4 DEF QueuedAt
    <3> QED BY <3>4, <3>5 DEF ResumesFirst
  <2>3. Resumes => Resumes'
    <3> SUFFICES ASSUME Resumes PROVE Resumes'
      OBVIOUS
    <3>1. PICK i \in DOMAIN amsq : QueuedAt(amsq, i, "ACTIVATE_ALL")
      BY <1>5 DEF Resumes
    <3>2. i # 1
      BY <1>12, <1>13, <3>1
    <3>3. i - 1 \in DOMAIN amsq' /\ QueuedAt(amsq', i - 1, "ACTIVATE_ALL")
      BY <1>12, <3>1, <3>2 DEF QueuedAt
    <3> QED BY <3>3 DEF Resumes
  <2>4. Promised' /\ Backed'
    BY <1>1, <1>6, <1>11, <2>1, <2>2, <2>3 DEF Promised, Backed, Marks
  <2> QED BY <1>7, <1>8, <1>9, <1>10, <2>4 DEF IInv
<1>14. CASE e = "ACTIVATE_ALL"
  <2>1. Has(code'["E"], "resume", None)
    BY <1>4, <1>14
  <2>2. Resumes'
    BY <2>1 DEF Resumes
  <2>3. Queued("PAUSE_ALL") => \E i \in DOMAIN amsq' : QueuedAt(amsq', i, "PAUSE_ALL")
    <3> SUFFICES ASSUME NEW i \in DOMAIN amsq, amsq[i] = Event("PAUSE_ALL", None)
                 PROVE  \E j \in DOMAIN amsq' : QueuedAt(amsq', j, "PAUSE_ALL")
      BY DEF Queued
    <3>1. QueuedAt(amsq, i, "PAUSE_ALL")
      BY DEF QueuedAt
    <3>2. i # 1
      BY <1>12, <1>14, <3>1
    <3>3. i - 1 \in DOMAIN amsq' /\ QueuedAt(amsq', i - 1, "PAUSE_ALL")
      BY <1>12, <3>1, <3>2 DEF QueuedAt
    <3> QED BY <3>3
  <2>4. Queued("PAUSE_ALL") => Queued("PAUSE_ALL")'
    BY <2>3 DEF Queued, QueuedAt
  <2>5. ResumesFirst => ResumesFirst'
    <3>1. ResumesFirst => Queued("PAUSE_ALL")
      BY DEF ResumesFirst, Queued, QueuedAt
    <3> QED BY <2>1, <2>3, <3>1 DEF ResumesFirst
  <2>6. Promised' /\ Backed'
    BY <1>1, <1>6, <1>11, <2>2, <2>4, <2>5 DEF Promised, Backed, Marks
  <2> QED BY <1>7, <1>8, <1>9, <1>10, <2>6 DEF IInv
<1> QED BY <1>13, <1>14 DEF AllEvents

\* handlePauseAllEvent begins with all proxies, and then suspends the system.
LEMMA PauseAllBegun ==
  ASSUME IInv, HandlePauseAllEvent
  PROVE  IInv'
<1>1. Gets("PAUSE_ALL", None) /\ amsq' = Tail(amsq) /\ UNCHANGED <<sr, system, proxies, apps, spent>>
  BY DEF HandlePauseAllEvent
<1>2. /\ list \in Seq(Midlets) /\ NoRepeat(list) /\ Len(list) \in Nat /\ DOMAIN list = 1 .. Len(list)
      /\ \A i \in 1 .. Len(list) : list[i] \in Midlets
  <2>1. list \in Seq(Midlets) /\ NoRepeat(list)
    BY Parts DEF ProxyTypes
  <2> QED BY <2>1
<1> DEFINE n == Len(list)
           f == [i \in 1 .. n |-> list[n + 1 - i]]
           s == OneForEach("pauseMidlet", f)
           a == Leaving(s)
           b == <<Do("start", None)>>
           c == a \o b
<1>3. f \in [1 .. n -> Midlets] /\ Each("pauseMidlet") = s /\ n \in Nat
  BY <1>2 DEF Each, OneForEach
<1>4. Calls("E", c)
  BY <1>3 DEF HandlePauseAllEvent, Suspend, Leaving
<1>5. \A i \in 1 .. n : f[i] \in Elems(list)
  BY <1>2 DEF Elems
<1>6. \A i, j \in 1 .. n : i # j => f[i] # f[j]
  <2> SUFFICES ASSUME NEW i \in 1 .. n, NEW j \in 1 .. n, i # j PROVE f[i] # f[j]
    OBVIOUS
  <2>1. n + 1 - i \in 1 .. n /\ n + 1 - j \in 1 .. n /\ n + 1 - i # n + 1 - j
    BY <1>2
  <2>2. list[n + 1 - i] # list[n + 1 - j]
    BY <1>2, <2>1 DEF NoRepeat
  <2> QED BY <2>2
<1> HIDE DEF n, f
<1>7. /\ Shape(s) /\ Plain(s) /\ DOMAIN s = 1 .. n
      /\ \A i \in 1 .. n : s[i].do = "pauseMidlet" /\ s[i].of = f[i]
  BY <1>3, ForProxies
<1> HIDE DEF s
<1>8. /\ Shape(a) /\ Plain(a) /\ DOMAIN a = 1 .. Len(s) + 1 /\ Len(s) \in Nat /\ DOMAIN s = 1 .. Len(s)
      /\ \A i \in DOMAIN s : i \in DOMAIN a /\ a[i] = s[i]
      /\ At(a, Len(s) + 1, "exit", "midletProxies")
  BY <1>7, ThenLeaves
<1> HIDE DEF a
<1>9. Shape(b) /\ Plain(b) /\ \A e, x : Has(b, e, x) <=> e = "start" /\ x = None
  BY OneCall DEF Simple
<1>10. b \in Seq(Statements) /\ Len(b) = 1 /\ b[1].do = "start" /\ b[1].of = None
  BY <1>9 DEF Shape, Do
<1> HIDE DEF b
<1>11. Shape(c) /\ \A e, x : Has(c, e, x) <=> Has(a, e, x) \/ Has(b, e, x)
  BY <1>8, <1>9, ShapeJoined, Zenon
<1>12. n \in Nat /\ n = Len(s) /\ a \in Seq(Statements) /\ Len(a) = n + 1
  <2>1. n \in Nat /\ a \in Seq(Statements)
    BY <1>8, <1>3 DEF Shape
  <2>2. n = Len(s)
    BY <1>7, <1>8, <2>1
  <2> QED BY <1>8, <2>1, <2>2
<1>13. /\ c \in Seq(Statements) /\ Len(c) = Len(a) + Len(b)
       /\ \A i \in 1 .. Len(a) + Len(b) : c[i] = IF i <= Len(a) THEN a[i] ELSE b[i - Len(a)]
  BY <1>10, <1>12, JoinedAt, Zenon
<1> HIDE DEF c
<1>14. /\ DOMAIN c = 1 .. n + 2
       /\ \A i \in 1 .. n : c[i].do = "pauseMidlet" /\ c[i].of = f[i]
       /\ c[n + 1].do = "exit" /\ c[n + 1].of = "midletProxies"
       /\ c[n + 2].do = "start"
  <2>1. DOMAIN c = 1 .. n + 2
    BY <1>10, <1>12, <1>13
  <2>2. \A i \in 1 .. n : c[i] = a[i]
    BY <1>10, <1>12, <1>13
  <2>3. c[n + 1] = a[n + 1] /\ c[n + 2] = b[1]
    BY <1>10, <1>12, <1>13
  <2>4. \A i \in 1 .. n : a[i] = s[i]
    BY <1>7, <1>8
  <2> QED BY <1>7, <1>8, <1>10, <1>12, <2>1, <2>2, <2>3, <2>4
<1>15. \A i \in DOMAIN c : i \in 1 .. n \/ i = n + 1 \/ i = n + 2
  BY <1>12, <1>14
<1>16. Loop(c, list)
  <2>1. ASSUME NEW i \in DOMAIN c, c[i].do = "pauseMidlet"
        PROVE  /\ c[i].of \in Elems(list)
               /\ \E j \in DOMAIN c : j > i /\ At(c, j, "exit", "midletProxies")
               /\ \A j \in DOMAIN c : j # i /\ c[j].of = c[i].of => c[j].do \notin Concerns
    <3>1. i \in 1 .. n /\ c[i].of = f[i]
      BY <1>14, <1>15, <2>1
    <3>2. n + 1 \in DOMAIN c /\ n + 1 > i
      BY <1>12, <1>14, <3>1
    <3>3. ASSUME NEW j \in DOMAIN c, j # i, c[j].of = c[i].of
          PROVE  c[j].do \notin Concerns
      <4>1. j \notin 1 .. n
        BY <1>6, <1>14, <3>1, <3>3
      <4> QED BY <1>14, <1>15, <4>1 DEF Concerns
    <3> QED BY <1>5, <1>14, <3>1, <3>2, <3>3
  <2>2. \A i \in DOMAIN c : c[i].do # "create"
    BY <1>14, <1>15
  <2> QED BY <2>1, <2>2 DEF Loop
<1>17. \A d \in {"suspend", "suspendImpl", "suspended0"} : ~ Has(c, d, None)
  BY <1>14, <1>15 DEF Has
<1>18. Has(c, "start", None)
  BY <1>9, <1>11
<1> QED BY <1>1, <1>4, <1>11, <1>16, <1>17, <1>18, RequestBegun DEF AllEvents

\* handleActivateAllEvent resumes the system, and then activates all MIDlets.
LEMMA ActivateAllBegun ==
  ASSUME IInv, HandleActivateAllEvent
  PROVE  IInv'
<1> DEFINE b == <<Do("activateAll", None)>>
           c == Resume \o b
<1>1. /\ Gets("ACTIVATE_ALL", None) /\ amsq' = Tail(amsq) /\ Calls("E", c)
      /\ UNCHANGED <<sr, system, proxies, apps, spent>>
  BY DEF HandleActivateAllEvent
<1>2. Shape(b) /\ Plain(b) /\ \A e, x : Has(b, e, x) <=> e = "activateAll" /\ x = None
  BY OneCall DEF Simple
<1>3. /\ Shape(Resume) /\ Plain(Resume)
      /\ \A d, x : d \notin {"enter", "exit"} => (Has(Resume, d, x) <=> d = "resume" /\ x = None)
  BY Resumption, Zenon
<1> HIDE DEF b
<1>4. Shape(c) /\ \A e, x : Has(c, e, x) <=> Has(Resume, e, x) \/ Has(b, e, x)
  BY <1>2, <1>3, ShapeJoined, Zenon
<1> HIDE DEF c
<1>5. \A d, x : d \notin {"enter", "exit", "resume", "activateAll"} => ~ Has(c, d, x)
  BY <1>2, <1>3, <1>4
<1>6. Has(c, "resume", None)
  BY <1>3, <1>4
<1>7. \A i \in DOMAIN c : c[i].do \notin {"pauseMidlet", "create"}
  <2>1. \A i \in DOMAIN c : Has(c, c[i].do, c[i].of)
    BY DEF Has
  <2> QED BY <1>5, <2>1
<1>8. Loop(c, list)
  BY <1>7 DEF Loop
<1> QED BY <1>1, <1>4, <1>5, <1>6, <1>8, RequestBegun DEF AllEvents

-----------------------------------------------------------------------------
(* The list of proxies and what the system depends on.                     *)

\* What a thread finds when it gets a monitor: the others are not where they have it.
LEMMA Alone ==
  ASSUME Threads, NEW t \in AMSThreads
  PROVE  /\ Free(t, "this") => \A u \in AMSThreads \ {t} : ~ Has(code[u], "suspend", None)
         /\ Free(t, "lock") => \A u \in AMSThreads \ {t} :
              ~ Has(code[u], "suspendImpl", None) /\ ~ Has(code[u], "suspended0", None)
         /\ Free(t, "midletProxies") => \A u \in AMSThreads \ {t} :
              \A i : ~ At(code[u], i, "exit", "midletProxies")
<1> SUFFICES ASSUME NEW u \in AMSThreads \ {t}
             PROVE  /\ Free(t, "this") => ~ Has(code[u], "suspend", None)
                    /\ Free(t, "lock") =>
                         ~ Has(code[u], "suspendImpl", None) /\ ~ Has(code[u], "suspended0", None)
                    /\ Free(t, "midletProxies") => \A i : ~ At(code[u], i, "exit", "midletProxies")
  BY Zenon
<1>1. Shape(code[u]) /\ u \in AMSThreads
  BY DEF Threads
<1>2. /\ Has(code[u], "suspend", None) => Holds(u, "this")
      /\ Has(code[u], "suspendImpl", None) \/ Has(code[u], "suspended0", None) => Holds(u, "lock")
      /\ \A i : At(code[u], i, "exit", "midletProxies") => Holds(u, "midletProxies")
  BY <1>1, Locked, Zenon
<1>3. \A x : Free(t, x) => ~ Holds(u, x)
  BY DEF Free
<1> QED BY <1>2, <1>3, Zenon

\* A thread at another statement does not complete a suspension.
LEMMA NotCompleting ==
  ASSUME Threads, NEW t \in AMSThreads, NEW d, NEW x, Runs(t, d, x), d \notin {"suspendImpl", "suspended0"}
  PROVE  ~ Has(code[t], "suspendImpl", None) /\ ~ Has(code[t], "suspended0", None)
<1>1. Shape(code[t]) /\ \A e, y : At(code[t], 1, e, y) => e = d /\ y = x
  <2>1. Reached(t, d, x)
    BY Running, Zenon
  <2> QED BY <2>1 DEF Reached
<1>2. \A i \in DOMAIN code[t] : code[t][i].do = "suspendImpl" => At(code[t], 1, "suspendImpl", code[t][1].of)
  BY <1>1 DEF Shape
<1>3. \A i \in DOMAIN code[t] : code[t][i].do # "suspendImpl"
  BY <1>1, <1>2
<1>4. \A i \in DOMAIN code[t] : code[t][i].do = "suspended0" => i = 1
  <2>1. \A i \in DOMAIN code[t] : code[t][i].do = "suspended0" =>
          i = 1 \/ (i = 2 /\ code[t][1].do = "suspendImpl")
    BY <1>1 DEF Shape
  <2>2. \A i \in DOMAIN code[t] : i = 2 => 1 \in DOMAIN code[t]
    BY <1>1 DEF Shape
  <2> QED BY <1>3, <2>1, <2>2
<1>5. \A i \in DOMAIN code[t] : code[t][i].do # "suspended0"
  BY <1>1, <1>4
<1> QED BY <1>3, <1>5 DEF Has

\* A MIDlet that the system depends on from now has a proxy.
LEMMA MidletPaused ==
  ASSUME IInv, NEW m \in Midlets, PauseMidlet(m)
  PROVE  IInv'
<1>1. /\ SystemTypes /\ ProxyTypes /\ AppTypes /\ amsq \in Seq(Events) /\ Threads
      /\ Loop(code["E"], list) /\ DependencyHasProxy
  BY Parts, Zenon
<1>2. Runs("E", "pauseMidlet", m) /\ "E" \in AMSThreads /\ "pauseMidlet" \notin Marks \cup {"remove", "exit"}
      /\ "pauseMidlet" \in Concerns
  BY DEF PauseMidlet, AMSThreads, Marks, Concerns
<1>3. CASE m \in fresh
  <2> DEFINE c == <<Do("terminate", m)>>
  <2>1. Shape(c) /\ \A d, x : Has(c, d, x) <=> d = "terminate" /\ x = m
    BY OneCall DEF Simple
  <2>2. Then("E", c)
    BY <1>3 DEF PauseMidlet
  <2> HIDE DEF c
  <2>3. \A i \in DOMAIN c : c[i].do = "terminate" /\ c[i].of = m
    <3>1. \A i \in DOMAIN c : Has(c, c[i].do, c[i].of)
      BY DEF Has
    <3> QED BY <2>1, <3>1
  <2>4. /\ UNCHANGED <<sr, amsq, state, deps, task, lastForeground, proxies, apps>>
        /\ UNCHANGED <<sr, state, list>> /\ task' = task /\ deps' = deps
    BY <1>3 DEF PauseMidlet, proxies, apps
  <2>5. Types' /\ QueueKeeps
    <3>1. task \in {"none", "armed", "run"}
      BY <1>1 DEF SystemTypes
    <3> QED BY <2>4, <3>1, SameTypes
  <2>6. \A i \in DOMAIN c : c[i].do \notin Marks /\ c[i].do \notin {"create", "pauseMidlet"}
    BY <2>3 DEF Marks
  <2>7. "pauseMidlet" # "removed"
    OBVIOUS
  <2> QED BY <1>2, <2>1, <2>2, <2>3, <2>4, <2>5, <2>6, <2>7, PlainStatement
<1>4. CASE m \notin fresh
  <2>1. /\ Free("E", "lock") /\ Then("E", << >>) /\ deps' = deps \cup {m}
        /\ SendEach("pause", {x \in {m} : pstate[x] # "DESTROYED"}, amsq)
        /\ UNCHANGED <<sr, state, task, lastForeground, proxies, peer, work, shown, spent>>
    BY <1>4 DEF PauseMidlet
  <2>2. Posts(amsq)
    BY <1>1, <2>1, SentEach
  <2>3. QueueKeeps /\ amsq' \in Seq(Events)
    BY <2>2, Sent DEF Posts
  <2>4. Types'
    <3>1. SystemTypes' /\ ProxyTypes'
      BY <1>1, <2>1 DEF SystemTypes, ProxyTypes, proxies
    <3>2. AppTypes'
      BY <1>1, <2>1, <2>2, AppsPosted
    <3> QED BY <2>3, <3>1, <3>2, TypesParts
  <2>5. \A u \in AMSThreads : ~ Has(code[u], "suspendImpl", None)
    BY <1>1, <1>2, <2>1, Alone, NotCompleting
  <2>6. /\ code["E"] # << >> /\ Head(code["E"]).do = "pauseMidlet" /\ At(code["E"], 1, "pauseMidlet", m)
        /\ \A d, x : At(code["E"], 1, d, x) => d = "pauseMidlet" /\ x = m
    <3>1. Reached("E", "pauseMidlet", m)
      BY <1>1, <1>2, Running, Zenon
    <3> QED BY <3>1 DEF Reached
  <2>7. Moves("E", << >>)
    BY <1>1, <1>2, <2>1, <2>6, Nothing, MovesOn
  <2>8. \A i \in DOMAIN << >> : FALSE
    OBVIOUS
  <2>9. list' = list /\ state' = state /\ task' = task /\ sr' = sr
    BY <2>1 DEF proxies
  <2>10. Loop(code["E"], list)'
    BY <1>1, <1>2, <2>1, <2>8, <2>9, Nothing, LoopStays
  <2>11. Contains(list, m)
    <3>1. m \in Elems(list)
      BY <1>1, <2>6 DEF Loop
    <3> QED BY <1>1, <3>1, ListTypes DEF ProxyTypes
  <2>12. DependencyHasProxy'
    <3> SUFFICES ASSUME NEW x \in deps' PROVE Contains(list', x) \/ Ahead("removed", x)'
      BY DEF DependencyHasProxy
    <3>1. CASE x = m
      BY <2>9, <2>11, <3>1
    <3>2. CASE x \in deps
      <4>1. Contains(list, x) \/ Ahead("removed", x)
        BY <1>1, <3>2 DEF DependencyHasProxy
      <4>2. ~ At(code["E"], 1, "removed", x)
        BY <2>6
      <4>3. Ahead("removed", x) => Ahead("removed", x)'
        BY <1>2, <2>7, <4>2, StaysAhead
      <4> QED BY <2>9, <4>1, <4>3
    <3> QED BY <2>1, <3>1, <3>2
  <2>13. \A d \in Marks : ~ At(code["E"], 1, d, None) /\ ~ Has(<< >>, d, None)
    BY <1>2, <2>6, Nothing
  <2> QED BY <1>2, <2>3, <2>4, <2>5, <2>7, <2>9, <2>10, <2>12, <2>13, PlainStep
<1> QED BY <1>3, <1>4

\* A new proxy is none of the list.
LEMMA ProxyCreated ==
  ASSUME IInv, NEW m \in Midlets, CreateProxy(m)
  PROVE  IInv'
<1>1. /\ SystemTypes /\ ProxyTypes /\ AppTypes /\ amsq \in Seq(Events) /\ Extends(amsq, amsq) /\ Threads
      /\ Loop(code["E"], list) /\ DependencyHasProxy
  BY Parts, Zenon
<1>2. /\ Runs("E", "create", m) /\ Then("E", << >>) /\ "E" \in AMSThreads
      /\ UNCHANGED <<sr, amsq, state, deps, task, lastForeground>>
  BY DEF CreateProxy, AMSThreads, system
<1>3. /\ Shape(code["E"]) /\ code["E"] # << >> /\ Head(code["E"]).do = "create" /\ At(code["E"], 1, "create", m)
      /\ \A d, x : At(code["E"], 1, d, x) => d = "create" /\ x = m
  <2>1. Reached("E", "create", m)
    BY <1>1, <1>2, Running, Zenon
  <2> QED BY <2>1 DEF Reached
<1>4. code["E"] \in Seq(Statements) /\ Len(code["E"]) = 1
  BY <1>1, <1>3 DEF Loop, Shape
<1>5. m \notin Elems(list)
  <2>1. ~ Has(code["E"], "remove", m)
    BY <1>3, <1>4 DEF Has
  <2> QED BY <1>1, <1>3, <2>1 DEF Loop
<1>6. code'["E"] = << >>
  <2>1. Tail(code["E"]) = << >>
    <3>1. Tail(code["E"]) \in Seq(Statements) /\ Len(Tail(code["E"])) = 0
      BY <1>3, <1>4
    <3> QED BY <3>1, NoLength
  <2>2. << >> \o << >> = << >>
    OBVIOUS
  <2>3. LeaveMonitors(<< >>) = << >>
    BY DEF LeaveMonitors
  <2> QED BY <1>1, <1>2, <2>1, <2>2, <2>3 DEF Then, Threads
<1>7. Moves("E", << >>)
  BY <1>1, <1>2, <1>3, Nothing, MovesOn
<1>8. /\ Append(list, m) \in Seq(Midlets) /\ Elems(Append(list, m)) = Elems(list) \cup {m}
      /\ NoRepeat(Append(list, m))
  BY <1>1, <1>5, ListTypes DEF ProxyTypes
<1>9. list' = list \/ list' = Append(list, m)
  BY DEF CreateProxy, proxies
<1>10. ProxyTypes'
  <2>1. UNCHANGED proxies => ProxyTypes'
    BY <1>1 DEF ProxyTypes, proxies
  <2>2. list' = Append(list, m) /\ fresh' = fresh \cup {m} /\ lastCreated' = m /\ fg' = fg => ProxyTypes'
    BY <1>1, <1>8 DEF ProxyTypes
  <2> QED BY <2>1, <2>2 DEF CreateProxy
<1>11. AppTypes'
  <2>1. UNCHANGED apps => AppTypes'
    BY <1>1 DEF AppTypes, apps
  <2> QED BY <1>1, <2>1, AppsEnded DEF CreateProxy
<1>12. Types' /\ QueueKeeps
  <2>1. SystemTypes' /\ amsq' \in Seq(Events)
    BY <1>1, <1>2 DEF SystemTypes
  <2> QED BY <1>1, <1>2, <1>10, <1>11, <2>1, TypesParts DEF QueueKeeps
<1>13. Loop(code["E"], list)'
  BY <1>6 DEF Loop
<1>14. DependencyHasProxy'
  <2> SUFFICES ASSUME NEW x \in deps PROVE Contains(list', x) \/ Ahead("removed", x)'
    BY <1>2 DEF DependencyHasProxy
  <2>1. x \in Midlets
    BY <1>1 DEF SystemTypes
  <2>2. Contains(list, x) => Contains(list', x)
    <3>1. list \in Seq(Midlets) /\ list' \in Seq(Midlets) /\ NoRepeat(list) /\ NoRepeat(list')
          /\ Elems(list) \subseteq Elems(list')
      BY <1>1, <1>8, <1>9 DEF ProxyTypes
    <3>2. Contains(list, x) <=> x \in Elems(list)
      BY DEF Contains, Elems
    <3>3. Contains(list', x) <=> x \in Elems(list')
      BY DEF Contains, Elems
    <3> QED BY <3>1, <3>2, <3>3
  <2>3. Ahead("removed", x) => Ahead("removed", x)'
    BY <1>2, <1>3, <1>7, StaysAhead
  <2> QED BY <1>1, <2>2, <2>3 DEF DependencyHasProxy
<1>15. \A d \in Marks : ~ At(code["E"], 1, d, None) /\ ~ Has(<< >>, d, None)
  BY <1>3, Nothing DEF Marks
<1> QED BY <1>2, <1>7, <1>12, <1>13, <1>14, <1>15, PlainStep

\* Who removes a proxy is about to report it to the system.
LEMMA ProxyRemoved ==
  ASSUME IInv, NEW t \in AMSThreads, NEW m \in Midlets, RemoveProxy(t, m)
  PROVE  IInv'
<1>1. /\ SystemTypes /\ ProxyTypes /\ AppTypes /\ amsq \in Seq(Events) /\ Extends(amsq, amsq) /\ Threads
      /\ Loop(code["E"], list) /\ DependencyHasProxy
  BY Parts, Zenon
<1>2. /\ Runs(t, "remove", m) /\ Then(t, << >>) /\ Free(t, "midletProxies")
      /\ list' = RemoveFirst(list, m) /\ UNCHANGED <<sr, system, pstate, peer, work, shown, spent>>
      /\ SetForegroundMIDlet(BackgroundRequest(m), amsq) /\ ClearLastCreated({m, fg'})
  BY DEF RemoveProxy
<1>3. /\ Shape(code[t]) /\ code[t] # << >> /\ Head(code[t]).do = "remove" /\ At(code[t], 1, "remove", m)
      /\ \A d, x : At(code[t], 1, d, x) => d = "remove" /\ x = m
  <2>1. Reached(t, "remove", m)
    BY <1>1, <1>2, Running, Zenon
  <2> QED BY <2>1 DEF Reached
<1>4. Moves(t, << >>)
  BY <1>1, <1>2, <1>3, Nothing, MovesOn
<1>5. list' \in Seq(Midlets) /\ NoRepeat(list') /\ Elems(list') = Elems(list) \ {m}
  BY <1>1, <1>2, ListTypes DEF ProxyTypes
<1>6. Posts(amsq) /\ fresh' \subseteq Midlets /\ fg' \in Midlets
  <2>1. fg \in Midlets /\ fresh \subseteq Midlets
    BY <1>1 DEF ProxyTypes
  <2>2. BackgroundRequest(m) \in Midlets
    BY <2>1 DEF BackgroundRequest
  <2> QED BY <1>1, <1>2, <2>1, <2>2, Foregrounded
<1>7. QueueKeeps /\ amsq' \in Seq(Events)
  BY <1>6, Sent DEF Posts
<1>8. Types'
  <2>1. SystemTypes'
    BY <1>1, <1>2 DEF SystemTypes, system
  <2>2. ProxyTypes'
    BY <1>1, <1>2, <1>5, <1>6 DEF ProxyTypes, ClearLastCreated
  <2>3. AppTypes'
    BY <1>1, <1>2, <1>6, AppsPosted
  <2> QED BY <1>7, <2>1, <2>2, <2>3, TypesParts
<1>9. Loop(code["E"], list)'
  <2>1. CASE t = "E"
    <3> DEFINE c == code["E"]
               none == << >>
    <3>1. Shape(c) /\ c # << >> /\ none \in Seq(Statements) /\ \A i \in DOMAIN none : FALSE
      BY <1>3, <2>1
    <3>2. \A x \in Elems(list) : x \in Elems(list') <=> ~ At(c, 1, "remove", x)
      BY <1>3, <1>5, <2>1
    <3>3. Elems(list') \subseteq Elems(list) /\ Loop(c, list)
      BY <1>1, <1>5
    <3>4. code'["E"] = LeaveMonitors(none \o Tail(c))
      BY <1>1, <1>2, <2>1 DEF Then, Threads
    <3> HIDE DEF c, none
    <3>5. Loop(LeaveMonitors(none \o Tail(c)), list')
      BY <3>1, <3>2, <3>3, LoopGoes
    <3> QED BY <3>4, <3>5
  <2>2. CASE t # "E"
    <3>1. "E" \in AMSThreads \ {t}
      BY <2>2 DEF AMSThreads
    <3>2. code'["E"] = code["E"]
      BY <1>4, <3>1 DEF Moves
    <3>3. \A i : ~ At(code["E"], i, "exit", "midletProxies")
      BY <1>1, <1>2, <3>1, Alone
    <3>4. \A i \in DOMAIN code["E"] : code["E"][i].do # "pauseMidlet"
      BY <1>1, <3>3 DEF Loop
    <3> QED BY <1>1, <1>5, <3>2, <3>4 DEF Loop
  <2> QED BY <2>1, <2>2
<1>10. DependencyHasProxy'
  <2> SUFFICES ASSUME NEW x \in deps PROVE Contains(list', x) \/ Ahead("removed", x)'
    BY <1>2 DEF DependencyHasProxy, system
  <2>1. CASE x = m
    <3>1. At(code[t], 1 + 2, "removed", m)
      BY <1>3 DEF Shape
    <3>2. Has(code[t], "removed", m) /\ ~ At(code[t], 1, "removed", m)
      BY <1>3, <3>1 DEF Has
    <3>3. Has(code'[t], "removed", m)
      BY <1>4, <3>2 DEF Moves
    <3> QED BY <2>1, <3>3 DEF Ahead, Has
  <2>2. CASE x # m
    <3>1. Contains(list, x) => Contains(list', x)
      <4>1. Contains(list, x) <=> x \in Elems(list)
        BY DEF Contains, Elems
      <4>2. Contains(list', x) <=> x \in Elems(list')
        BY DEF Contains, Elems
      <4> QED BY <1>5, <2>2, <4>1, <4>2
    <3>2. Ahead("removed", x) => Ahead("removed", x)'
      BY <1>3, <1>4, StaysAhead
    <3> QED BY <1>1, <3>1, <3>2 DEF DependencyHasProxy
  <2> QED BY <2>1, <2>2
<1>11. \A d \in Marks : ~ At(code[t], 1, d, None) /\ ~ Has(<< >>, d, None)
  BY <1>3, Nothing DEF Marks
<1> QED BY <1>2, <1>4, <1>7, <1>8, <1>9, <1>10, <1>11, PlainStep DEF system

\* The timer begins while its task is there.
LEMMA TimerBegun ==
  ASSUME IInv, TimerFires
  PROVE  IInv'
<1>1. /\ SystemTypes /\ Threads /\ Loop(code["E"], list) /\ DependencyHasProxy
  BY Parts, Zenon
<1> DEFINE c == <<Do("isResumePending", None)>>
<1>2. /\ task = "armed" /\ task' = "run" /\ code["T"] = << >> /\ Calls("T", c) /\ "T" \in AMSThreads
      /\ UNCHANGED <<sr, amsq, state, deps, lastForeground, proxies, apps, spent>>
  BY DEF TimerFires, AMSThreads
<1>3. Shape(c) /\ \A d, x : Has(c, d, x) <=> d = "isResumePending" /\ x = None
  BY OneCall DEF Simple
<1> HIDE DEF c
<1>4. Moves("T", c)
  BY <1>1, <1>2, <1>3, Starts
<1>5. Types' /\ QueueKeeps
  BY <1>2, SameTypes
<1>6. \A d, x : ~ At(code["T"], 1, d, x)
  BY <1>2
<1>7. list' = list
  BY <1>2 DEF proxies
<1>8. Loop(code["E"], list)'
  BY <1>1, <1>2, <1>7 DEF Calls, Threads
<1>9. DependencyHasProxy'
  BY <1>1, <1>2, <1>4, <1>6, <1>7, StillHasProxy
<1>10. \A d \in Marks : ~ At(code["T"], 1, d, None) /\ ~ Has(c, d, None)
  BY <1>3, <1>6 DEF Marks
<1> QED BY <1>2, <1>4, <1>5, <1>8, <1>9, <1>10, PlainStep

-----------------------------------------------------------------------------
(* Statements with which a suspension or a resumption begins or ends.      *)

\* What holds of any statement that changes neither the list of proxies nor
\* adds a dependency.
LEMMA Stepped ==
  ASSUME IInv, NEW t \in AMSThreads, NEW d, NEW x, Runs(t, d, x),
         NEW calls, Shape(calls), Then(t, calls), d \notin {"remove", "exit"},
         calls = << >> \/ d # "suspendImpl",
         \A i \in DOMAIN calls : calls[i].do \notin Concerns \cup {"create"},
         list' = list, deps' \subseteq deps, d = "removed" => x \notin deps'
  PROVE  /\ Moves(t, calls) /\ Threads' /\ Loop(code["E"], list)' /\ DependencyHasProxy'
         /\ \A e, y : Has(code[t], e, y) /\ e # "exit" /\ ~ (e = d /\ y = x) => Has(code'[t], e, y)
         /\ \A u \in AMSThreads \ {t} : code'[u] = code[u]
         /\ \A e, y : e # "exit" /\ Ahead(e, y) /\ ~ (e = d /\ y = x) => Ahead(e, y)'
         /\ \A e \in {"suspend", "suspendImpl"} : Has(code'[t], e, None) => Has(calls, e, None)
<1>1. Threads /\ Loop(code["E"], list) /\ DependencyHasProxy
  BY Parts, Zenon
<1>2. /\ code[t] # << >> /\ Head(code[t]).do = d
      /\ \A e, y : At(code[t], 1, e, y) => e = d /\ y = x
  BY <1>1, Running
<1>3. Moves(t, calls)
  BY <1>1, <1>2, MovesOn
<1>4. Loop(code["E"], list)'
  <2>1. \A i \in DOMAIN calls : calls[i].do \notin {"create", "pauseMidlet"} /\ calls[i].do \notin Concerns
    BY DEF Concerns
  <2> QED BY <1>1, <2>1, LoopStays
<1>5. DependencyHasProxy'
  BY <1>1, <1>2, <1>3, StillHasProxy
<1>6. \A e, y : e # "exit" /\ Ahead(e, y) /\ ~ (e = d /\ y = x) => Ahead(e, y)'
  <2> SUFFICES ASSUME NEW e, NEW y, e # "exit", Ahead(e, y), ~ (e = d /\ y = x) PROVE Ahead(e, y)'
    OBVIOUS
  <2>1. ~ At(code[t], 1, e, y)
    BY <1>2
  <2> QED BY <1>3, <2>1, StaysAhead
<1>7. \A e, y : Has(code[t], e, y) /\ e # "exit" /\ ~ (e = d /\ y = x) => Has(code'[t], e, y)
  <2> SUFFICES ASSUME NEW e, NEW y, Has(code[t], e, y), e # "exit", ~ (e = d /\ y = x)
               PROVE  Has(code'[t], e, y)
    OBVIOUS
  <2>1. ~ At(code[t], 1, e, y)
    BY <1>2
  <2> QED BY <1>3, <2>1 DEF Moves
<1> QED BY <1>3, <1>4, <1>5, <1>6, <1>7 DEF Moves

\* A dependency less: without any, the suspension is completed.
LEMMA DependencyDropped ==
  ASSUME IInv, NEW t \in AMSThreads, NEW m \in Midlets, DropDependency(t, m)
  PROVE  IInv'
<1>1. /\ SystemTypes /\ ProxyTypes /\ AppTypes /\ amsq \in Seq(Events) /\ Extends(amsq, amsq) /\ Threads
      /\ Suspending /\ TimerWhileSuspending /\ Promised /\ Backed
  BY Parts, Zenon
<1> DEFINE c == UpdateSuspendStatus(state, deps')
<1>2. PICK d \in {"drop", "removed"} : Runs(t, d, m)
  BY DEF DropDependency
<1>3. /\ Free(t, "lock") /\ deps' = deps \ {m} /\ Then(t, c)
      /\ UNCHANGED <<sr, amsq, state, task, proxies, apps, spent>> /\ lastForeground' \in {None, lastForeground}
  BY DEF DropDependency
<1>4. /\ Shape(c)
      /\ Has(c, "suspendImpl", None) => state = "SUSPENDING" /\ deps' = {}
      /\ \A i \in DOMAIN c : c[i].do \in {"suspendImpl", "suspended0", "exit"}
  BY Completion
<1> HIDE DEF c
<1>5. /\ d \notin {"remove", "exit", "suspendImpl"} /\ d \notin Marks /\ list' = list
      /\ \A i \in DOMAIN c : c[i].do \notin Concerns \cup {"create"}
  BY <1>3, <1>4 DEF Marks, Concerns, proxies
<1>6. /\ Threads' /\ Loop(code["E"], list)' /\ DependencyHasProxy'
      /\ \A e, y : Has(code[t], e, y) /\ e # "exit" /\ ~ (e = d /\ y = m) => Has(code'[t], e, y)
      /\ \A u \in AMSThreads \ {t} : code'[u] = code[u]
      /\ \A e \in {"suspend", "suspendImpl"} : Has(code'[t], e, None) => Has(c, e, None)
  <2>1. deps' \subseteq deps /\ m \notin deps'
    BY <1>3
  <2> QED BY <1>2, <1>3, <1>4, <1>5, <2>1, Stepped
<1>7. MarksKept
  <2> SUFFICES ASSUME NEW u \in AMSThreads, NEW e \in Marks, Has(code[u], e, None)
               PROVE  Has(code'[u], e, None)
    BY DEF MarksKept
  <2>1. e # "exit" /\ e # d
    BY <1>5 DEF Marks
  <2> QED BY <1>6, <2>1
<1>8. Types'
  <2>1. SystemTypes' /\ ProxyTypes' /\ AppTypes' /\ amsq' \in Seq(Events)
    BY <1>1, <1>3 DEF SystemTypes, ProxyTypes, proxies, AppTypes, apps
  <2> QED BY <2>1, TypesParts
<1>9. Promised' /\ Backed'
  <2>1. QueueKeeps
    BY <1>1, <1>3 DEF QueueKeeps
  <2> QED BY <1>1, <1>3, <1>7, <2>1, PromisedKept
<1>10. \A u \in AMSThreads : Has(code'[u], "suspend", None) <=> Has(code[u], "suspend", None)
  <2>1. ~ Has(c, "suspend", None)
    BY <1>4 DEF Has
  <2> QED BY <1>6, <1>7, <2>1 DEF MarksKept, Marks
<1>11. \A u \in AMSThreads \ {t} : ~ Has(code'[u], "suspendImpl", None)
  BY <1>1, <1>3, <1>6, Alone
<1>12. Has(code'[t], "suspendImpl", None) => state' = "SUSPENDING" /\ deps' = {}
  BY <1>3, <1>4, <1>6
<1>13. Suspending'
  BY <1>1, <1>3, <1>10, <1>11, <1>12 DEF Suspending, Lonely
<1>14. TimerWhileSuspending'
  <2>1. Ahead("suspend", None)' <=> Ahead("suspend", None)
    BY <1>10 DEF Ahead, Has
  <2> QED BY <1>1, <1>3, <2>1 DEF TimerWhileSuspending
<1> QED BY <1>6, <1>8, <1>9, <1>13, <1>14 DEF IInv

\* The suspension is completed, with its timer: it has no dependencies.
LEMMA Completed ==
  ASSUME IInv, NEW t \in AMSThreads, SuspendImpl(t)
  PROVE  IInv'
<1>1. /\ SystemTypes /\ ProxyTypes /\ AppTypes /\ amsq \in Seq(Events) /\ Threads /\ Suspending
  BY Parts, Zenon
<1>2. /\ Runs(t, "suspendImpl", None) /\ task' = "none" /\ state' = "SUSPENDED" /\ Then(t, << >>)
      /\ UNCHANGED <<sr, amsq, deps, lastForeground, proxies, apps, spent>>
  BY DEF SuspendImpl
<1>3. list' = list /\ deps' \subseteq deps /\ \A i \in DOMAIN << >> : FALSE
  BY <1>2 DEF proxies
<1>4. /\ Threads' /\ Loop(code["E"], list)' /\ DependencyHasProxy'
      /\ \A u \in AMSThreads \ {t} : code'[u] = code[u]
      /\ \A e, y : Has(code[t], e, y) /\ e # "exit" /\ ~ (e = "suspendImpl" /\ y = None) => Has(code'[t], e, y)
      /\ \A e \in {"suspend", "suspendImpl"} : Has(code'[t], e, None) => Has(<< >>, e, None)
  BY <1>2, <1>3, Nothing, Stepped
<1>5. Shape(code[t]) /\ At(code[t], 1, "suspendImpl", None)
  BY <1>1, <1>2, Running
<1>6. Has(code[t], "suspendImpl", None)
  BY <1>5 DEF Has
<1>7. state = "SUSPENDING" /\ \A u \in AMSThreads : ~ Has(code[u], "suspend", None)
  BY <1>1, <1>6 DEF Suspending
<1>8. \A u \in AMSThreads : ~ Has(code'[u], "suspend", None) /\ ~ Has(code'[u], "suspendImpl", None)
  <2>1. \A u \in AMSThreads \ {t} : ~ Has(code[u], "suspendImpl", None)
    BY <1>1, <1>6 DEF Suspending, Lonely
  <2> QED BY <1>4, <1>7, <2>1, Nothing
<1>9. Suspending'
  BY <1>8 DEF Suspending, Lonely
<1>10. TimerWhileSuspending'
  BY <1>2, <1>8 DEF TimerWhileSuspending, Ahead, Has
<1>11. Ahead("suspended0", None)'
  <2>1. Has(code[t], "suspended0", None)
    BY <1>5 DEF Shape, Has
  <2>2. Has(code'[t], "suspended0", None)
    BY <1>4, <2>1
  <2> QED BY <2>2 DEF Ahead, Has
<1>12. Promised' /\ Backed'
  BY <1>11 DEF Promised, Backed
<1>13. Types'
  <2>1. SystemTypes' /\ ProxyTypes' /\ AppTypes' /\ amsq' \in Seq(Events)
    BY <1>1, <1>2 DEF SystemTypes, ProxyTypes, proxies, AppTypes, apps
  <2> QED BY <2>1, TypesParts
<1> QED BY <1>4, <1>9, <1>10, <1>12, <1>13 DEF IInv

\* The native side is told; a request put off becomes a resumption.
LEMMA Reported ==
  ASSUME IInv, NEW t \in AMSThreads, Suspended0(t)
  PROVE  IInv'
<1>1. /\ SystemTypes /\ ProxyTypes /\ AppTypes /\ amsq \in Seq(Events) /\ Threads /\ Suspending
      /\ TimerWhileSuspending
  BY Parts, Zenon
<1>2. /\ Runs(t, "suspended0", None) /\ Then(t, << >>) /\ UNCHANGED <<system, proxies, apps, spent>>
      /\ \/ sr' = "SUSPENDED" /\ amsq' = amsq
         \/ sr' = "ACTIVE" /\ amsq' = Append(amsq, Event("ACTIVATE_ALL", None))
  BY DEF Suspended0
<1>3. /\ list' = list /\ deps' = deps /\ state' = state /\ task' = task /\ deps' \subseteq deps
      /\ \A i \in DOMAIN << >> : FALSE
  BY <1>2 DEF proxies, system
<1>4. /\ Threads' /\ Loop(code["E"], list)' /\ DependencyHasProxy'
      /\ \A u \in AMSThreads \ {t} : code'[u] = code[u]
      /\ \A e, y : Has(code[t], e, y) /\ e # "exit" /\ ~ (e = "suspended0" /\ y = None) => Has(code'[t], e, y)
      /\ \A e \in {"suspend", "suspendImpl"} : Has(code'[t], e, None) => Has(<< >>, e, None)
  BY <1>2, <1>3, Nothing, Stepped
<1>5. Suspending' /\ TimerWhileSuspending'
  <2>1. \A u \in AMSThreads, d \in {"suspend", "suspendImpl"} :
          Has(code'[u], d, None) <=> Has(code[u], d, None)
    BY <1>4, Nothing
  <2> QED BY <1>1, <1>3, <2>1, SuspendingSame
<1>6. amsq' \in Seq(Events) /\ (sr' = "ACTIVE" => Resumes')
  <2>1. CASE sr' = "SUSPENDED" /\ amsq' = amsq
    BY <1>1, <2>1
  <2>2. CASE sr' = "ACTIVE" /\ amsq' = Append(amsq, Event("ACTIVATE_ALL", None))
    <3>1. Event("ACTIVATE_ALL", None) \in Events
      BY DEF Event, Events, EventNames
    <3>2. /\ amsq' \in Seq(Events) /\ Len(amsq) + 1 \in DOMAIN amsq'
          /\ amsq'[Len(amsq) + 1] = Event("ACTIVATE_ALL", None)
      BY <1>1, <2>2, <3>1
    <3> QED BY <3>2 DEF Resumes, QueuedAt
  <2> QED BY <1>2, <2>1, <2>2
<1>7. Promised' /\ Backed'
  BY <1>2, <1>6 DEF Promised, Backed
<1>8. Types'
  <2>1. SystemTypes' /\ ProxyTypes' /\ AppTypes'
    BY <1>1, <1>2 DEF SystemTypes, system, ProxyTypes, proxies, AppTypes, apps
  <2> QED BY <1>6, <2>1, TypesParts
<1> QED BY <1>4, <1>5, <1>7, <1>8 DEF IInv

\* A thread is about to suspend the active system, and the timer has a task.
LEMMA SuspendStarted ==
  ASSUME IInv, NEW t \in AMSThreads, StartSuspend(t)
  PROVE  IInv'
<1>1. /\ SystemTypes /\ ProxyTypes /\ AppTypes /\ amsq \in Seq(Events) /\ Extends(amsq, amsq) /\ Threads
      /\ Suspending /\ TimerWhileSuspending /\ Promised /\ Backed
  BY Parts, Zenon
<1>2. /\ Runs(t, "start", None) /\ Free(t, "this")
      /\ UNCHANGED <<sr, amsq, state, deps, proxies, apps, spent>>
  BY DEF StartSuspend
<1>3. list' = list /\ deps' \subseteq deps
  BY <1>2 DEF proxies
<1>4. ASSUME task' \in {"none", "armed", "run"}, lastForeground' \in Midlets \cup {None}
      PROVE  Types'
  <2>1. SystemTypes' /\ ProxyTypes' /\ AppTypes' /\ amsq' \in Seq(Events)
    BY <1>1, <1>2, <1>4 DEF SystemTypes, ProxyTypes, proxies, AppTypes, apps
  <2> QED BY <2>1, TypesParts
<1>5. CASE state = "ACTIVE"
  <2> DEFINE c == <<Do("suspend", None), Exit("this")>>
  <2>1. /\ Then(t, c) /\ lastForeground' = fg /\ task' # "none" /\ task' \in {"none", "armed", "run"}
    BY <1>1, <1>5 DEF StartSuspend, SystemTypes
  <2>2. Shape(c) /\ \A d, x : d # "exit" => (Has(c, d, x) <=> d = "suspend" /\ x = None)
    BY Entrance, Zenon
  <2> HIDE DEF c
  <2>3. \A i \in DOMAIN c : c[i].do \notin Concerns \cup {"create"}
    <3>1. \A i \in DOMAIN c : Has(c, c[i].do, c[i].of)
      BY DEF Has
    <3> QED BY <2>2, <3>1 DEF Concerns
  <2>4. /\ Moves(t, c) /\ Threads' /\ Loop(code["E"], list)' /\ DependencyHasProxy'
        /\ \A u \in AMSThreads \ {t} : code'[u] = code[u]
        /\ \A e \in {"suspend", "suspendImpl"} : Has(code'[t], e, None) => Has(c, e, None)
    BY <1>2, <1>3, <2>1, <2>2, <2>3, Stepped
  <2>5. Has(code'[t], "suspend", None)
    BY <2>2, <2>4 DEF Moves
  <2>6. Ahead("suspend", None)'
    BY <2>5 DEF Ahead, Has
  <2>7. \A u \in AMSThreads \ {t} : ~ Has(code'[u], "suspend", None)
    BY <1>1, <1>2, <2>4, Alone
  <2>8. \A u \in AMSThreads : ~ Has(code'[u], "suspendImpl", None)
    <3>1. \A u \in AMSThreads : ~ Has(code[u], "suspendImpl", None)
      BY <1>1, <1>5 DEF Suspending
    <3>2. ~ Has(c, "suspendImpl", None)
      BY <2>2
    <3> QED BY <2>4, <3>1, <3>2
  <2>9. Suspending'
    BY <1>2, <1>5, <2>7, <2>8 DEF Suspending, Lonely
  <2>10. TimerWhileSuspending'
    BY <2>1, <2>6 DEF TimerWhileSuspending
  <2>11. Promised' /\ Backed'
    BY <1>2, <1>5, <2>6 DEF Promised, Backed
  <2>12. Types'
    BY <1>1, <1>4, <2>1 DEF ProxyTypes
  <2> QED BY <2>4, <2>9, <2>10, <2>11, <2>12 DEF IInv
<1>6. CASE state # "ACTIVE"
  <2>1. Then(t, << >>) /\ task' = task /\ lastForeground' = lastForeground /\ \A i \in DOMAIN << >> : FALSE
    BY <1>6 DEF StartSuspend
  <2>2. /\ Threads' /\ Loop(code["E"], list)' /\ DependencyHasProxy'
        /\ \A u \in AMSThreads \ {t} : code'[u] = code[u]
        /\ \A e, y : Has(code[t], e, y) /\ e # "exit" /\ ~ (e = "start" /\ y = None) => Has(code'[t], e, y)
        /\ \A e, y : e # "exit" /\ Ahead(e, y) /\ ~ (e = "start" /\ y = None) => Ahead(e, y)'
        /\ \A e \in {"suspend", "suspendImpl"} : Has(code'[t], e, None) => Has(<< >>, e, None)
    BY <1>2, <1>3, <2>1, Nothing, Stepped
  <2>3. Suspending' /\ TimerWhileSuspending'
    <3>1. \A u \in AMSThreads, d \in {"suspend", "suspendImpl"} :
            Has(code'[u], d, None) <=> Has(code[u], d, None)
      BY <2>2, Nothing
    <3> QED BY <1>1, <1>2, <1>3, <2>1, <3>1, SuspendingSame
  <2>4. Has(code["E"], "resume", None) => Has(code'["E"], "resume", None)
    BY <2>2 DEF AMSThreads
  <2>5. ResumesFirst => ResumesFirst'
    BY <1>2, <2>4 DEF ResumesFirst
  <2>6. Resumes => Resumes'
    BY <1>2, <2>4 DEF Resumes
  <2>7. Promised' /\ Backed'
    BY <1>1, <1>2, <1>6, <2>2, <2>5, <2>6 DEF Promised, Backed
  <2>8. Types'
    BY <1>1, <1>4, <2>1 DEF SystemTypes
  <2> QED BY <2>2, <2>3, <2>7, <2>8 DEF IInv
<1> QED BY <1>5, <1>6

\* The system is suspending; without dependencies this is completed at once.
LEMMA SystemSuspended ==
  ASSUME IInv, NEW t \in AMSThreads, SuspendSystem(t)
  PROVE  IInv'
<1>1. /\ SystemTypes /\ ProxyTypes /\ AppTypes /\ amsq \in Seq(Events) /\ Threads /\ Suspending
      /\ TimerWhileSuspending
  BY Parts, Zenon
<1>2. Runs(t, "suspend", None) /\ UNCHANGED <<sr, amsq, deps, task, lastForeground, proxies, apps, spent>>
  BY DEF SuspendSystem
<1>3. At(code[t], 1, "suspend", None)
  BY <1>1, <1>2, Running
<1>4. Has(code[t], "suspend", None)
  BY <1>3 DEF Has
<1>5. state = "ACTIVE" /\ task # "none"
  <2>1. Ahead("suspend", None)
    BY <1>4 DEF Ahead, Has
  <2> QED BY <1>1, <1>4, <2>1 DEF Suspending, TimerWhileSuspending
<1> DEFINE c == UpdateSuspendStatus("SUSPENDING", deps)
<1>6. state' = "SUSPENDING" /\ Then(t, c)
  BY <1>5 DEF SuspendSystem
<1>7. /\ Shape(c)
      /\ Has(c, "suspendImpl", None) => deps = {}
      /\ \A i \in DOMAIN c : c[i].do \in {"suspendImpl", "suspended0", "exit"}
  BY Completion
<1> HIDE DEF c
<1>8. /\ list' = list /\ deps' \subseteq deps /\ deps' = deps
      /\ \A i \in DOMAIN c : c[i].do \notin Concerns \cup {"create"}
  BY <1>2, <1>7 DEF Concerns, proxies
<1>9. /\ Threads' /\ Loop(code["E"], list)' /\ DependencyHasProxy'
      /\ \A u \in AMSThreads \ {t} : code'[u] = code[u]
      /\ \A e \in {"suspend", "suspendImpl"} : Has(code'[t], e, None) => Has(c, e, None)
  BY <1>2, <1>6, <1>7, <1>8, Stepped
<1>10. \A u \in AMSThreads : ~ Has(code'[u], "suspend", None)
  <2>1. \A u \in AMSThreads \ {t} : ~ Has(code[u], "suspend", None)
    BY <1>1, <1>4 DEF Suspending, Lonely
  <2>2. ~ Has(c, "suspend", None)
    BY <1>7 DEF Has
  <2> QED BY <1>9, <2>1, <2>2
<1>11. \A u \in AMSThreads \ {t} : ~ Has(code'[u], "suspendImpl", None)
  BY <1>1, <1>5, <1>9 DEF Suspending
<1>12. Has(code'[t], "suspendImpl", None) => deps' = {}
  BY <1>7, <1>8, <1>9
<1>13. Suspending'
  BY <1>6, <1>10, <1>11, <1>12 DEF Suspending, Lonely
<1>14. TimerWhileSuspending' /\ Promised' /\ Backed'
  BY <1>2, <1>5, <1>6 DEF TimerWhileSuspending, Promised, Backed
<1>15. Types'
  <2>1. SystemTypes' /\ ProxyTypes' /\ AppTypes' /\ amsq' \in Seq(Events)
    BY <1>1, <1>2, <1>6 DEF SystemTypes, ProxyTypes, proxies, AppTypes, apps
  <2> QED BY <2>1, TypesParts
<1> QED BY <1>9, <1>13, <1>14, <1>15 DEF IInv

\* A suspended system becomes active, before a suspension in the queue.
LEMMA SystemResumed ==
  ASSUME IInv, NEW t \in AMSThreads, ResumeSystem(t)
  PROVE  IInv'
<1>1. /\ SystemTypes /\ ProxyTypes /\ AppTypes /\ amsq \in Seq(Events) /\ Extends(amsq, amsq) /\ Threads
      /\ Suspending /\ TimerWhileSuspending /\ Promised /\ Backed
  BY Parts, Zenon
<1>2. /\ Runs(t, "resume", None) /\ Then(t, << >>)
      /\ UNCHANGED <<sr, deps, task, list, pstate, peer, work, shown, spent>>
  BY DEF ResumeSystem
<1>3. list' = list /\ deps' \subseteq deps /\ \A i \in DOMAIN << >> : FALSE
  BY <1>2
<1>4. /\ Threads' /\ Loop(code["E"], list)' /\ DependencyHasProxy'
      /\ \A u \in AMSThreads \ {t} : code'[u] = code[u]
      /\ \A e, y : Has(code[t], e, y) /\ e # "exit" /\ ~ (e = "resume" /\ y = None) => Has(code'[t], e, y)
      /\ \A e, y : e # "exit" /\ Ahead(e, y) /\ ~ (e = "resume" /\ y = None) => Ahead(e, y)'
      /\ \A e \in {"suspend", "suspendImpl"} : Has(code'[t], e, None) => Has(<< >>, e, None)
  BY <1>2, <1>3, Nothing, Stepped
<1>5. CASE state = "SUSPENDED"
  <2>1. /\ state' = "ACTIVE" /\ lastForeground' = None /\ ClearLastCreated({fg'})
        /\ IF lastForeground = None THEN UNCHANGED <<fg, fresh, inbox, amsq>>
           ELSE SetForegroundMIDlet(lastForeground, amsq)
    BY <1>5 DEF ResumeSystem
  <2>2. Posts(amsq) /\ fresh' \subseteq Midlets /\ fg' \in Midlets
    <3>1. CASE lastForeground = None
      BY <1>1, <2>1, <3>1 DEF Posts, AppTypes, ProxyTypes
    <3>2. CASE lastForeground # None
      <4>1. lastForeground \in Midlets /\ fg \in Midlets /\ fresh \subseteq Midlets
        BY <1>1, <3>2 DEF SystemTypes, ProxyTypes
      <4> QED BY <1>1, <2>1, <3>2, <4>1, Foregrounded
    <3> QED BY <3>1, <3>2
  <2>3. QueueKeeps /\ amsq' \in Seq(Events)
    BY <2>2, Sent DEF Posts
  <2>4. Types'
    <3>1. SystemTypes'
      BY <1>1, <1>2, <2>1 DEF SystemTypes
    <3>2. ProxyTypes'
      BY <1>1, <1>2, <2>1, <2>2 DEF ProxyTypes, ClearLastCreated
    <3>3. AppTypes'
      BY <1>1, <1>2, <2>2, AppsPosted
    <3> QED BY <2>3, <3>1, <3>2, <3>3, TypesParts
  <2>5. \A u \in AMSThreads : ~ Has(code[u], "suspend", None) /\ ~ Has(code[u], "suspendImpl", None)
    BY <1>1, <1>5 DEF Suspending
  <2>6. \A u \in AMSThreads : ~ Has(code'[u], "suspend", None) /\ ~ Has(code'[u], "suspendImpl", None)
    BY <1>4, <2>5, Nothing
  <2>7. Suspending'
    BY <2>6 DEF Suspending, Lonely
  <2>8. ~ Ahead("suspend", None) /\ ~ Ahead("suspend", None)'
    BY <2>5, <2>6 DEF Ahead, Has
  <2>9. TimerWhileSuspending'
    BY <1>1, <1>2, <1>5, <2>1, <2>8 DEF TimerWhileSuspending
  <2>10. ResumesFirst => Queued("PAUSE_ALL")'
    <3>1. ResumesFirst => InQueue(amsq, "PAUSE_ALL")
      BY DEF ResumesFirst, InQueue
    <3>2. InQueue(amsq, "PAUSE_ALL") => InQueue(amsq', "PAUSE_ALL")
      BY <1>1, <2>3, QueueHas DEF AllEvents
    <3>3. InQueue(amsq', "PAUSE_ALL") => Queued("PAUSE_ALL")'
      BY DEF InQueue, Queued, QueuedAt
    <3> QED BY <3>1, <3>2, <3>3
  <2>11. Ahead("suspended0", None) => Ahead("suspended0", None)'
    BY <1>4
  <2>12. Promised' /\ Backed'
    BY <1>1, <1>2, <1>5, <2>1, <2>8, <2>10, <2>11 DEF Promised, Backed
  <2> QED BY <1>4, <2>4, <2>7, <2>9, <2>12 DEF IInv
<1>6. CASE state # "SUSPENDED"
  <2>1. UNCHANGED <<state, lastForeground, fg, lastCreated, fresh, inbox, amsq>>
    BY <1>6 DEF ResumeSystem
  <2>2. Suspending' /\ TimerWhileSuspending'
    <3>1. \A u \in AMSThreads, d \in {"suspend", "suspendImpl"} :
            Has(code'[u], d, None) <=> Has(code[u], d, None)
      BY <1>4, Nothing
    <3> QED BY <1>1, <1>2, <1>3, <2>1, <3>1, SuspendingSame
  <2>3. Queued("PAUSE_ALL") => Queued("PAUSE_ALL")'
    BY <2>1 DEF Queued
  <2>4. \A d \in {"suspend", "suspended0", "start"} : Ahead(d, None) => Ahead(d, None)'
    BY <1>4
  <2>5. Promised' /\ Backed'
    BY <1>1, <1>2, <1>6, <2>1, <2>3, <2>4 DEF Promised, Backed
  <2>6. Types'
    <3>1. SystemTypes' /\ ProxyTypes' /\ AppTypes' /\ amsq' \in Seq(Events)
      BY <1>1, <1>2, <2>1 DEF SystemTypes, ProxyTypes, AppTypes
    <3> QED BY <3>1, TypesParts
  <2> QED BY <1>4, <2>2, <2>5, <2>6 DEF IInv
<1> QED BY <1>5, <1>6

\* The application manager is activated or paused: it calls the MIDP system.
LEMMA ManagerCalls ==
  ASSUME IInv, NEW m \in Midlets,
         (StartSuite(m) /\ Calls("M", Resume)) \/ (PauseAppReturns(m) /\ Calls("M", Suspend)),
         code["M"] = << >>
  PROVE  IInv'
<1>1. /\ SystemTypes /\ ProxyTypes /\ AppTypes /\ amsq \in Seq(Events) /\ Extends(amsq, amsq) /\ Threads
      /\ Loop(code["E"], list) /\ Suspending /\ TimerWhileSuspending /\ Promised /\ Backed
      /\ DependencyHasProxy
  BY Parts, Zenon
<1>2. /\ {"ACTIVE", "PAUSED", "DESTROYED"} \subseteq States \ {"none"}
      /\ {"startApp", "pauseApp", "destroyApp", "suspend"} \subseteq Works /\ "M" \in AMSThreads
  BY DEF States, Works, AMSThreads
<1>3. UNCHANGED <<sr, system, proxies>> /\ sr' = sr /\ state' = state /\ deps' = deps /\ task' = task
      /\ list' = list /\ inbox' = inbox
  BY DEF StartSuite, PauseAppReturns, system, proxies
<1>4. AppTypes'
  <2>1. CASE StartSuite(m)
    BY <1>1, <1>2, <2>1, AppsStep DEF StartSuite
  <2>2. CASE PauseAppReturns(m)
    <3>1. peer[m] \in States /\ peer = [peer EXCEPT ![m] = peer[m]] /\ peer[m] # "none"
      BY <1>1, <2>2 DEF PauseAppReturns, Ready, Alive, AppTypes
    <3> QED BY <1>1, <1>2, <2>2, <3>1, AppsStep DEF PauseAppReturns
  <2> QED BY <2>1, <2>2
<1>5. Extends(amsq', amsq)
  <2>1. <<"PAUSED">> \in Seq(EventNames)
    BY DEF EventNames
  <2> QED BY <1>1, <2>1, Notified DEF StartSuite, PauseAppReturns
<1>6. Types' /\ QueueKeeps
  <2>1. SystemTypes' /\ ProxyTypes'
    BY <1>1, <1>3 DEF SystemTypes, system, ProxyTypes, proxies
  <2>2. QueueKeeps /\ amsq' \in Seq(Events)
    BY <1>5, Sent
  <2> QED BY <1>4, <2>1, <2>2, TypesParts
<1>7. PICK c \in {Resume, Suspend} : Calls("M", c)
  OBVIOUS
<1>8. Shape(c) /\ ~ Has(c, "suspend", None) /\ ~ Has(c, "suspendImpl", None)
  <2>1. CASE c = Resume
    BY <2>1, Resumption
  <2>2. CASE c = Suspend
    <3>1. /\ Shape(<<Do("start", None)>>)
          /\ \A e, x : Has(<<Do("start", None)>>, e, x) <=> e = "start" /\ x = None
      BY OneCall DEF Simple
    <3> QED BY <2>2, <3>1 DEF Suspend
  <2> QED BY <2>1, <2>2
<1>9. Moves("M", c)
  BY <1>1, <1>2, <1>7, <1>8, Starts
<1>10. \A d, x : ~ At(code["M"], 1, d, x) /\ ~ Has(code["M"], d, x)
  BY DEF Has
<1>11. Suspending' /\ TimerWhileSuspending'
  <2>1. \A u \in AMSThreads, d \in {"suspend", "suspendImpl"} :
          Has(code'[u], d, None) <=> Has(code[u], d, None)
    BY <1>8, <1>9, <1>10 DEF Moves
  <2> QED BY <1>1, <1>3, <2>1, SuspendingSame
<1>12. Promised' /\ Backed'
  <2>1. MarksKept
    BY <1>9, <1>10 DEF MarksKept, Moves
  <2> QED BY <1>1, <1>3, <1>6, <2>1, PromisedKept
<1>13. Loop(code["E"], list)'
  BY <1>1, <1>3, <1>7 DEF Calls, Threads
<1>14. DependencyHasProxy'
  BY <1>1, <1>2, <1>3, <1>9, <1>10, StillHasProxy
<1> QED BY <1>6, <1>9, <1>11, <1>12, <1>13, <1>14 DEF IInv, Moves

-----------------------------------------------------------------------------
(* The invariant.                                                          *)

\* A finite set in some order, without repetition.
LEMMA Ordered ==
  ASSUME NEW S, IsFiniteSet(S), S \subseteq Midlets
  PROVE  SetToSeq(S) \in Seq(Midlets) /\ NoRepeat(SetToSeq(S)) /\ Elems(SetToSeq(S)) \subseteq S
<1> DEFINE n == Cardinality(S)
           f == SetToSeq(S)
<1>1. n \in Nat /\ ExistsBijection(1 .. n, S)
  BY FS_CardinalityType
<1>2. \E g \in [1 .. n -> S] : IsInjective(g)
  <2>1. PICK g \in Bijection(1 .. n, S) : TRUE
    BY <1>1 DEF ExistsBijection
  <2>2. g \in [1 .. n -> S] /\ IsInjective(g)
    BY <2>1 DEF Bijection, Injection
  <2> QED BY <2>2
<1>3. f \in [1 .. n -> S] /\ IsInjective(f)
  BY <1>2 DEF SetToSeq
<1> HIDE DEF f, n
<1>4. f \in [1 .. n -> Midlets] /\ DOMAIN f = 1 .. n
  BY <1>3
<1>5. f \in Seq(Midlets)
  BY <1>1, <1>4, MadeList
<1>6. NoRepeat(f)
  BY <1>3 DEF NoRepeat, IsInjective
<1>7. Elems(f) \subseteq S
  BY <1>3, <1>4 DEF Elems
<1> QED BY <1>5, <1>6, <1>7 DEF f

\* The invariant holds after the boot.
LEMMA InitIInv ==
  ASSUME Init
  PROVE  IInv
<1>1. PICK running \in SUBSET (Midlets \ {AppManager}) :
        /\ list = <<AppManager>> \o SetToSeq(running)
        /\ fg \in running \cup {AppManager} /\ shown = running \cup {AppManager}
  BY DEF Init
<1>2. /\ sr = "ACTIVE" /\ amsq = << >>
      /\ state = "ACTIVE" /\ deps = {} /\ task = "none" /\ lastForeground = None
      /\ fresh = {} /\ lastCreated = None
      /\ code = [t \in AMSThreads |-> << >>]
      /\ peer = [m \in Midlets |-> IF Contains(list, m) THEN "ACTIVE" ELSE "none"]
      /\ work = [m \in Midlets |-> "idle"] /\ inbox = [m \in Midlets |-> << >>]
  BY DEF Init
<1>3. SystemTypes
  BY <1>2 DEF SystemTypes
<1>4. ProxyTypes
  <2> DEFINE s == SetToSeq(running)
  <2>1. s \in Seq(Midlets) /\ NoRepeat(s) /\ Elems(s) \subseteq running
    <3>1. IsFiniteSet(running) /\ running \subseteq Midlets
      BY FS_Subset
    <3> QED BY <3>1, Ordered
  <2>2. AppManager \in Midlets /\ AppManager \notin Elems(s)
    BY <2>1
  <2> HIDE DEF s
  <2>3. <<AppManager>> \in Seq(Midlets) /\ Elems(<<AppManager>>) = {AppManager} /\ NoRepeat(<<AppManager>>)
    BY <2>2, Single
  <2>4. <<AppManager>> \o s \in Seq(Midlets) /\ NoRepeat(<<AppManager>> \o s)
    <3>1. Elems(<<AppManager>>) \cap Elems(s) = {}
      BY <2>2, <2>3
    <3> QED BY <2>1, <2>3, <3>1, Joined, Zenon
  <2>5. list = <<AppManager>> \o s
    BY <1>1 DEF s
  <2> QED BY <1>1, <1>2, <2>2, <2>4, <2>5 DEF ProxyTypes
<1>5. AppTypes
  BY <1>2 DEF AppTypes, States, Works
<1>6. Types
  BY <1>2, <1>3, <1>4, <1>5, TypesParts
<1>7. \A t \in AMSThreads : code[t] = << >>
  BY <1>2
<1>8. Threads
  <2>1. << >> \in Seq(Statements)
    OBVIOUS
  <2>2. code \in [AMSThreads -> Seq(Statements)]
    BY <1>2, <2>1
  <2> QED BY <1>7, <2>2, Nothing DEF Threads
<1>9. \A t \in AMSThreads : \A d, x : ~ Has(code[t], d, x)
  BY <1>7, Nothing
<1>10. Loop(code["E"], list)
  <2>1. \A i \in DOMAIN code["E"] : FALSE
    BY <1>7 DEF AMSThreads
  <2> QED BY <2>1 DEF Loop
<1>11. Suspending
  BY <1>9 DEF Suspending, Lonely
<1>12. TimerWhileSuspending
  BY <1>2, <1>9 DEF TimerWhileSuspending, Ahead, Has
<1>13. Promised /\ Backed /\ DependencyHasProxy
  BY <1>2 DEF Promised, Backed, DependencyHasProxy
<1> QED BY <1>6, <1>8, <1>10, <1>11, <1>12, <1>13 DEF IInv

\* The statements all threads have,
LEMMA SystemSteps ==
  ASSUME IInv, NEW t \in AMSThreads, SystemStep(t)
  PROVE  IInv'
<1>1. CASE \E monitor \in {"this", "lock"} : EnterMonitor(t, monitor)
  BY <1>1, PlainStatements
<1>2. ASSUME NEW m \in Midlets, DropDependency(t, m)
      PROVE  IInv'
  BY <1>2, DependencyDropped
<1>3. ASSUME NEW m \in Midlets, RemoveProxy(t, m)
      PROVE  IInv'
  BY <1>3, ProxyRemoved
<1>4. ASSUME NEW m \in Midlets, TerminateMIDletIsolate(t, m)
      PROVE  IInv'
  BY <1>4, PlainStatements
<1>5. CASE SuspendImpl(t)
  BY <1>5, Completed
<1>6. CASE Suspended0(t)
  BY <1>6, Reported
<1>7. CASE StartSuspend(t)
  BY <1>7, SuspendStarted
<1>8. CASE SuspendSystem(t)
  BY <1>8, SystemSuspended
<1>9. CASE ResumeSystem(t)
  BY <1>9, SystemResumed
<1> QED BY <1>1, <1>2, <1>3, <1>4, <1>5, <1>6, <1>7, <1>8, <1>9 DEF SystemStep

\* the steps of a MIDlet,
LEMMA MidletSteps ==
  ASSUME IInv, NEW m \in Midlets, HandlerStep(m) \/ AppStep(m) \/ OwnStep(m)
  PROVE  IInv'
<1>1. CASE OwnStep(m)
  BY <1>1, OwnSteps
<1>2. CASE StartSuite(m) \/ PauseAppReturns(m)
  <2>1. CASE UNCHANGED code
    BY <1>2, <2>1, AppSteps
  <2>2. CASE /\ (StartSuite(m) /\ Calls("M", Resume)) \/ (PauseAppReturns(m) /\ Calls("M", Suspend))
             /\ ~ User(m)
    <3>1. code["M"] = << >>
      BY <2>2 DEF StartSuite, PauseAppReturns, Ready
    <3> QED BY <2>2, <3>1, ManagerCalls
  <2> QED BY <1>2, <2>1, <2>2 DEF StartSuite, PauseAppReturns
<1>3. CASE \/ HandleMIDletEvent(m) \/ Unregister(m) \/ ResourcesSuspended(m)
           \/ ConstructorReturns(m) \/ StartAppReturns(m) \/ DestroyAppReturns(m)
  BY <1>3, AppSteps
<1> QED BY <1>1, <1>2, <1>3 DEF HandlerStep, AppStep

\* of the event thread
LEMMA EventSteps ==
  ASSUME IInv, EventStep
  PROVE  IInv'
<1>1. "E" \in AMSThreads /\ AppManager \in Midlets
  BY DEF AMSThreads
<1>2. CASE SystemStep("E")
  BY <1>1, <1>2, SystemSteps
<1>3. CASE ActivateAll
  BY <1>1, <1>3, PlainStatements
<1>4. CASE HandlePauseAllEvent
  BY <1>4, PauseAllBegun
<1>5. CASE HandleActivateAllEvent
  BY <1>5, ActivateAllBegun
<1>6. CASE HandleManagerEvent
  BY <1>1, <1>6, EventsHandled
<1>7. ASSUME NEW m \in Midlets,
             \/ PauseMidlet(m) \/ CreateProxy(m)
             \/ HandleMIDletCreateNotifyEvent(m) \/ HandleMIDletActiveNotifyEvent(m)
             \/ HandleMIDletPauseNotifyEvent(m) \/ HandleMIDletRsPauseNotifyEvent(m)
             \/ HandleMIDletDestroyNotifyEvent(m) \/ HandleMIDletResumeRequestEvent(m)
             \/ HandleDisplayForegroundRequestEvent(m) \/ HandleFatalErrorNotifyEvent(m)
             \/ NoProxyFound(m)
      PROVE  IInv'
  <2>1. CASE PauseMidlet(m)
    BY <2>1, MidletPaused
  <2>2. CASE CreateProxy(m)
    BY <2>2, ProxyCreated
  <2>3. CASE \/ HandleMIDletCreateNotifyEvent(m) \/ HandleMIDletRsPauseNotifyEvent(m)
             \/ HandleMIDletDestroyNotifyEvent(m) \/ HandleFatalErrorNotifyEvent(m)
    BY <2>3, EventsBegun
  <2>4. CASE \/ HandleMIDletActiveNotifyEvent(m) \/ HandleMIDletPauseNotifyEvent(m)
             \/ HandleMIDletResumeRequestEvent(m) \/ HandleDisplayForegroundRequestEvent(m)
             \/ NoProxyFound(m)
    BY <2>4, EventsHandled
  <2> QED BY <1>7, <2>1, <2>2, <2>3, <2>4
<1> QED BY <1>2, <1>3, <1>4, <1>5, <1>6, <1>7 DEF EventStep

\* and of the timer.
LEMMA TimerSteps ==
  ASSUME IInv, TimerStep
  PROVE  IInv'
<1>1. "T" \in AMSThreads /\ AppManager \in Midlets
  BY DEF AMSThreads
<1>2. CASE SystemStep("T")
  BY <1>1, <1>2, SystemSteps
<1>3. CASE TimerFires
  BY <1>3, TimerBegun
<1>4. CASE IsResumePending \/ RemoveDependencies \/ TerminatePauseAll
  BY <1>1, <1>4, PlainStatements
<1> QED BY <1>2, <1>3, <1>4 DEF TimerStep

\* Every step keeps the invariant.
LEMMA NextIInv ==
  ASSUME IInv, [Next]_vars
  PROVE  IInv'
<1>1. CASE MidpSuspend \/ MidpResume
  BY <1>1, NativeSteps
<1>2. CASE EventStep
  BY <1>2, EventSteps
<1>3. CASE TimerStep
  BY <1>3, TimerSteps
<1>4. CASE SystemStep("M")
  <2>1. "M" \in AMSThreads
    BY DEF AMSThreads
  <2> QED BY <1>4, <2>1, SystemSteps
<1>5. ASSUME NEW m \in Midlets, HandlerStep(m) \/ AppStep(m) \/ OwnStep(m)
      PROVE  IInv'
  BY <1>5, MidletSteps
<1>6. CASE UNCHANGED vars
  <2>1. /\ UNCHANGED <<sr, amsq, state, deps, task, lastForeground, list, fresh, fg, lastCreated>>
        /\ UNCHANGED <<code, peer, work, inbox>> /\ proxies' = proxies /\ apps' = apps
    BY <1>6 DEF vars, system, proxies, apps
  <2>2. Types' /\ QueueKeeps
    <3>1. task' \in {"none", "armed", "run"}
      BY <2>1, Parts DEF SystemTypes
    <3> QED BY <2>1, <3>1, SameTypes
  <2> QED BY <2>1, <2>2, QuietStep
<1> QED BY <1>1, <1>2, <1>3, <1>4, <1>5, <1>6 DEF Next

\* It holds in every state.
LEMMA Invariant == Spec => []IInv
BY InitIInv, NextIInv, PTL DEF Spec

(* The invariant contains what is claimed of it: a request the native side *)
(* waits for is among what Promised allows, a resumption in the queue      *)
(* coming before the suspension that was put off.                          *)
LEMMA Consequences ==
  ASSUME IInv
  PROVE  TypeOK /\ TimerWhileSuspending /\ RequestNotLost /\ DependencyHasProxy
<1>1. ResumesFirst => Queued("PAUSE_ALL")
  BY DEF ResumesFirst, QueuedAt, Queued
<1>2. RequestNotLost
  BY <1>1 DEF IInv, Promised, RequestNotLost
<1> QED BY <1>2 DEF IInv, Types

-----------------------------------------------------------------------------
(* The states of the MIDP system, its timer, the MIDlets and their proxies *)
(* are always ones the code names; what the AMS sends to a MIDlet whose    *)
(* isolate has ended goes nowhere (getIsolateFromId).                      *)
THEOREM TypesHold == Spec => []TypeOK
BY Invariant, Consequences, PTL

(* SuspendTimer has a task exactly while a suspension is under way: stop   *)
(* never finds it null, and no suspension is without its timeout, whatever *)
(* the event thread, the timer and the application manager do meanwhile.   *)
THEOREM SuspensionHasTimer == Spec => []TimerWhileSuspending
BY Invariant, Consequences, PTL

(* While sr_state is SUSPENDING or RESUMING the Java side has the request  *)
(* in its queue, works on it or is about to report (suspended0): no        *)
(* request of midp_suspend gets lost, whatever is resumed in between.      *)
THEOREM NoRequestLost == Spec => []RequestNotLost
BY Invariant, Consequences, PTL

(* The system never depends on a MIDlet without a proxy, unless a thread   *)
(* is about to tell it that the proxy was removed (midletRemoved).         *)
THEOREM DependenciesHaveProxies == Spec => []DependencyHasProxy
BY Invariant, Consequences, PTL

=============================================================================
