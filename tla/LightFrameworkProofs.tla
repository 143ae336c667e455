------------------------ MODULE LightFrameworkProofs ------------------------
(***************************************************************************)
(* Proofs about LightFramework, for any acyclic tree of modules, any table *)
(* sizes and any bounds on what is logged: the module lists stay inside    *)
(* their arrays, a module is activated once and after what it depends on,  *)
(* the unload order never takes a dependency away from a loaded module,    *)
(* and a queue sized for boot and shutdown together never fills.           *)
(***************************************************************************)
EXTENDS LightFramework, FiniteSetTheorems, SequenceTheorems, WellFoundedInduction, TLAPS

\* The modules whose load is under way.
Open == {stack[k].mod : k \in DOMAIN stack}

\* light_framework_load_module()'s frames against its two lists.  What a frame has passed
\* over is on the loading list; a frame is of lower rank than those below it, which is why
\* a dependency on the list that is not yet active cannot be one of the frames.
FramesInv ==
  /\ phase = "load" => stack # <<>>
  /\ phase \notin {"load", "hung"} => stack = <<>>
  /\ Elements(loading) = Elements(active) \cup Open
  /\ Elements(active) \cap Open = {}
  /\ \A k \in DOMAIN stack : \A j \in DOMAIN Deps[stack[k].mod] :
       j < stack[k].next => Deps[stack[k].mod][j] \in Elements(loading)
  /\ \A k, l \in DOMAIN stack : k < l => Rank[stack[l].mod] < Rank[stack[k].mod]
  /\ \A i, j \in DOMAIN loading : loading[i] = loading[j] => i = j

\* The modules loaded are a prefix of the load order.
Prefix(n) == {active[i] : i \in 1..n}

PrefixInv ==
  /\ \E n \in 0..Len(active) : loaded = Prefix(n)
  /\ phase \in {"init", "load", "launch", "oneshot", "pass", "stop"} => loaded = Prefix(Len(active))
  /\ phase = "unload" => loaded = Prefix(Len(active) + 1 - at)

CursorInv ==
  /\ phase = "init" => active = <<>>
  /\ phase \in {"init", "load"} => at = 1
  /\ phase \in {"launch", "stop", "unload"} => at <= Len(active)
  /\ phase \notin {"init", "load", "hung"} => active # <<>>

Inv == TypeOK /\ FramesInv /\ DependenciesFirst /\ PrefixInv /\ CursorInv

Big == IF BootLog >= PassLog THEN BootLog ELSE PassLog

\* The sizing rule, and the queue it leaves room in.
Sized == PassLog <= 1 /\ Big + StopLog <= Depth

QueueInv ==
  /\ phase # "hung"
  /\ phase = "init" => queued = 0
  /\ phase \in {"init", "load", "launch", "oneshot"} => queued <= logged /\ logged <= BootLog
  /\ phase = "pass" => queued <= Big /\ queued + PassLog <= Big + logged
  /\ phase \in {"stop", "unload"} => queued <= Big + logged /\ logged <= StopLog

-----------------------------------------------------------------------------
(* Sequences: the task tables and the frames. *)

LEMMA AppendSeq ==
  ASSUME NEW S, NEW s \in Seq(S), NEW e \in S
  PROVE  /\ Append(s, e) \in Seq(S) /\ Len(Append(s, e)) = Len(s) + 1
         /\ DOMAIN Append(s, e) = 1..(Len(s) + 1)
         /\ \A i \in 1..Len(s) : Append(s, e)[i] = s[i]
         /\ Append(s, e)[Len(s) + 1] = e
  OBVIOUS

LEMMA AppendElements ==
  ASSUME NEW S, NEW s \in Seq(S), NEW e \in S
  PROVE  Elements(Append(s, e)) = Elements(s) \cup {e}
<1>1. \A i \in DOMAIN s : s[i] \in Elements(Append(s, e))
  BY AppendSeq DEF Elements
<1>2. e \in Elements(Append(s, e))
  BY AppendSeq DEF Elements
<1>3. ASSUME NEW x \in Elements(Append(s, e)) PROVE x \in Elements(s) \cup {e}
  <2>1. PICK i \in 1..(Len(s) + 1) : x = Append(s, e)[i]
    BY AppendSeq DEF Elements
  <2>2. CASE i = Len(s) + 1
    BY <2>1, <2>2, AppendSeq
  <2>3. CASE i \in 1..Len(s)
    BY <2>1, <2>3, AppendSeq DEF Elements
  <2> QED
    BY <2>1, <2>2, <2>3
<1> QED
  BY <1>1, <1>2, <1>3 DEF Elements

LEMMA LeastNatural ==
  ASSUME NEW S \in SUBSET Nat, S # {}
  PROVE  \E x \in S : \A y \in S : ~ (y < x)
<1>1. \E x \in S : \A y \in S : ~ (<<y, x>> \in OpToRel(<, Nat))
  BY NatLessThanWellFounded, WFMin
<1> QED
  BY <1>1 DEF OpToRel

\* A task table is a sequence of tasks that fits its array.
Table(tasks) == tasks \in Seq(Tasks) /\ Len(tasks) <= TasksMax

LEMMA RegisterTable ==
  ASSUME NEW tasks, Table(tasks), NEW t \in Tasks
  PROVE  Table(Register(tasks, t))
  BY AppendSeq, BoundsAssumption DEF Table, Register

LEMMA UnregisterTable ==
  ASSUME NEW tasks, Table(tasks), NEW t \in Tasks, NEW i \in DOMAIN tasks
  PROVE  Table(SubSeq(tasks, 1, i - 1) \o SubSeq(tasks, i + 1, Len(tasks)))
<1>1. tasks \in Seq(Tasks) /\ Len(tasks) \in Nat /\ i \in 1..Len(tasks)
  BY DEF Table
<1>2. \A j \in 1..Len(tasks) : tasks[j] \in Tasks
  BY <1>1, ElementOfSeq
<1>3. /\ SubSeq(tasks, 1, i - 1) \in Seq(Tasks)
      /\ Len(SubSeq(tasks, 1, i - 1)) = IF 1 <= i - 1 THEN i - 1 - 1 + 1 ELSE 0
  <2>1. \A j \in 1..(i - 1) : tasks[j] \in Tasks
    BY <1>1, <1>2
  <2> QED
    BY <1>1, <2>1, SubSeqProperties
<1>4. /\ SubSeq(tasks, i + 1, Len(tasks)) \in Seq(Tasks)
      /\ Len(SubSeq(tasks, i + 1, Len(tasks))) =
           IF i + 1 <= Len(tasks) THEN Len(tasks) - (i + 1) + 1 ELSE 0
  <2>1. \A j \in (i + 1)..Len(tasks) : tasks[j] \in Tasks
    BY <1>1, <1>2
  <2> QED
    BY <1>1, <2>1, SubSeqProperties
<1>5. Len(SubSeq(tasks, 1, i - 1) \o SubSeq(tasks, i + 1, Len(tasks))) <= Len(tasks)
  BY <1>1, <1>3, <1>4, ConcatProperties
<1> QED
  BY <1>1, <1>3, <1>4, <1>5, ConcatProperties, BoundsAssumption DEF Table

\* Unregistering cuts one task out, or none.
LEMMA UnregisterCuts ==
  ASSUME NEW tasks, Table(tasks), NEW t \in Tasks, t \in Elements(tasks)
  PROVE  \E i \in DOMAIN tasks :
           Unregister(tasks, t) = SubSeq(tasks, 1, i - 1) \o SubSeq(tasks, i + 1, Len(tasks))
<1> DEFINE Hit(j) == tasks[j] = t /\ \A k \in 1..(j - 1) : tasks[k] # t
           i == CHOOSE j \in DOMAIN tasks : Hit(j)
<1>1. \E j \in DOMAIN tasks : Hit(j)
  <2> DEFINE Hits == {j \in 1..Len(tasks) : tasks[j] = t}
  <2>1. Len(tasks) \in Nat /\ DOMAIN tasks = 1..Len(tasks)
    BY DEF Table
  <2>2. Hits \subseteq Nat /\ Hits # {}
    BY <2>1 DEF Elements
  <2>3. PICK j \in Hits : \A k \in Hits : ~ (k < j)
    BY <2>2, LeastNatural
  <2> QED
    BY <2>1, <2>3
<1>2. i \in DOMAIN tasks
  BY <1>1
<1>3. Unregister(tasks, t) = SubSeq(tasks, 1, i - 1) \o SubSeq(tasks, i + 1, Len(tasks))
  BY DEF Unregister
<1> HIDE DEF i
<1> QED
  BY <1>2, <1>3

LEMMA UnloadTable ==
  ASSUME NEW tasks, Table(tasks), NEW t \in Tasks
  PROVE  Table(Unregister(tasks, t))
<1>1. CASE t \notin Elements(tasks)
  BY <1>1 DEF Unregister
<1>2. CASE t \in Elements(tasks)
  <2>1. PICK i \in DOMAIN tasks :
          Unregister(tasks, t) = SubSeq(tasks, 1, i - 1) \o SubSeq(tasks, i + 1, Len(tasks))
    BY <1>2, UnregisterCuts
  <2> QED
    BY <2>1, UnregisterTable
<1> QED
  BY <1>1, <1>2

-----------------------------------------------------------------------------
(* The frames: what the two steps of light_framework_load_module() do.        *)

\* The stack while there is a frame on it.
LEMMA TopFrame ==
  ASSUME stack \in Seq(Frames), stack # <<>>
  PROVE  /\ Len(stack) \in Nat \ {0} /\ DOMAIN stack = 1..Len(stack)
         /\ Top \in Frames /\ Top = stack[Len(stack)]
         /\ \A k \in 1..Len(stack) : stack[k] \in Frames
<1>1. Len(stack) \in Nat \ {0} /\ DOMAIN stack = 1..Len(stack)
  BY EmptySeq
<1>2. \A k \in 1..Len(stack) : stack[k] \in Frames
  BY ElementOfSeq
<1> QED
  BY <1>1, <1>2 DEF Top

LEMMA AdvancedFrames ==
  ASSUME stack \in Seq(Frames), stack # <<>>
  PROVE  /\ Advanced \in Seq(Frames) /\ Len(Advanced) = Len(stack)
         /\ DOMAIN Advanced = 1..Len(stack)
         /\ \A k \in 1..Len(stack) : Advanced[k].mod = stack[k].mod
         /\ \A k \in 1..(Len(stack) - 1) : Advanced[k] = stack[k]
         /\ Advanced[Len(stack)].next = Top.next + 1
<1> DEFINE n == Len(stack)  f == [stack[n] EXCEPT !.next = @ + 1]
<1>1. n \in 1..Len(stack) /\ n \in Nat /\ stack[n] \in Frames /\ Top = stack[n]
  BY TopFrame
<1>2. f \in Frames /\ f.mod = stack[n].mod /\ f.next = Top.next + 1
  BY <1>1 DEF Frames
<1>3. Advanced = [stack EXCEPT ![n] = f]
  BY DEF Advanced
<1> HIDE DEF f, n
<1>4. /\ Advanced \in Seq(Frames) /\ Len(Advanced) = Len(stack)
      /\ \A k \in 1..Len(stack) : Advanced[k] = IF k = n THEN f ELSE stack[k]
  BY <1>1, <1>2, <1>3, ExceptSeq
<1>5. DOMAIN Advanced = 1..Len(stack)
  BY <1>4
<1>6. n = Len(stack)
  BY DEF n
<1>7. \A k \in 1..Len(stack) : Advanced[k].mod = stack[k].mod
  BY <1>2, <1>4
<1>8. \A k \in 1..(Len(stack) - 1) : Advanced[k] = stack[k]
  BY <1>1, <1>4, <1>6
<1>9. Advanced[Len(stack)].next = Top.next + 1
  BY <1>1, <1>2, <1>4, <1>6
<1> QED
  BY <1>4, <1>5, <1>7, <1>8, <1>9

LEMMA PopFrames ==
  ASSUME stack \in Seq(Frames), stack # <<>>
  PROVE  /\ Pop \in Seq(Frames) /\ Len(Pop) = Len(stack) - 1
         /\ DOMAIN Pop = 1..(Len(stack) - 1)
         /\ \A k \in 1..(Len(stack) - 1) : Pop[k] = stack[k]
<1>1. Len(stack) \in Nat \ {0} /\ \A k \in 1..Len(stack) : stack[k] \in Frames
  BY TopFrame
<1>2. \A k \in 1..(Len(stack) - 1) : stack[k] \in Frames
  BY <1>1
<1> DEFINE n == Len(stack) - 1
<1>3. /\ Pop \in Seq(Frames)
      /\ Len(Pop) = IF 1 <= n THEN n - 1 + 1 ELSE 0
      /\ \A i \in 1..(n - 1 + 1) : Pop[i] = stack[1 + i - 1]
  <2>1. n \in Int /\ \A k \in 1..n : stack[k] \in Frames
    BY <1>1, <1>2
  <2>2. Pop = SubSeq(stack, 1, n)
    BY DEF Pop
  <2> HIDE DEF n
  <2> QED
    BY <2>1, <2>2, SubSeqProperties
<1>4. Len(Pop) = Len(stack) - 1
  <2>1. n \in Nat
    BY <1>1
  <2>2. Len(Pop) = n
    <3> HIDE DEF n
    <3> QED
      BY <1>3, <2>1
  <2> QED
    BY <2>2
<1>5. \A i \in 1..(Len(stack) - 1) : Pop[i] = stack[i]
  BY <1>1, <1>3
<1> QED
  BY <1>3, <1>4, <1>5

LEMMA DepTypes ==
  ASSUME NEW m \in Modules
  PROVE  /\ Deps[m] \in Seq(Modules) /\ Len(Deps[m]) \in Nat
         /\ DOMAIN Deps[m] = 1..Len(Deps[m])
         /\ \A i \in 1..Len(Deps[m]) : Deps[m][i] \in Modules /\ Rank[Deps[m][i]] < Rank[m]
         /\ Rank[m] \in Nat
<1>1. Deps[m] \in Seq(Modules)
  BY ModulesAssumption
<1>2. Len(Deps[m]) \in Nat /\ DOMAIN Deps[m] = 1..Len(Deps[m])
  BY <1>1, LenProperties
<1>3. \A i \in 1..Len(Deps[m]) : Deps[m][i] \in Modules
  BY <1>1, ElementOfSeq
<1> QED
  BY <1>1, <1>2, <1>3, AcyclicAssumption

\* A list of different modules fits the array made for all of them.
LEMMA DistinctFit ==
  ASSUME NEW s \in Seq(Modules), \A i, j \in DOMAIN s : s[i] = s[j] => i = j
  PROVE  Len(s) <= ModulesMax
<1>1. Len(s) \in Nat /\ DOMAIN s = 1..Len(s) /\ s \in [1..Len(s) -> Modules]
  BY LenProperties
<1>2. s \in Injection(1..Len(s), Modules)
  BY <1>1 DEF Injection, IsInjective
<1>3. Cardinality(1..Len(s)) <= Cardinality(Modules)
  BY <1>2, FS_Injection, ModulesAssumption
<1>4. Cardinality(1..Len(s)) = Len(s)
  BY <1>1, FS_Interval
<1>5. Cardinality(Modules) \in Nat
  BY ModulesAssumption, FS_CardinalityType
<1> QED
  BY <1>1, <1>3, <1>4, <1>5, ModulesAssumption, BoundsAssumption

\* Frames, lists and their invariant after one turn of the dependency loop.
LEMMA LoadDepFrames ==
  ASSUME Inv, LoadDep
  PROVE  /\ stack' \in Seq(Frames) /\ loading' \in Seq(Modules)
         /\ FramesInv'
<1> DEFINE d == Deps[Top.mod][Top.next]  n == Len(stack)  m == Top.mod
<1>1. /\ stack \in Seq(Frames) /\ loading \in Seq(Modules) /\ active \in Seq(Modules)
      /\ phase = "load" /\ stack # <<>> /\ phase' = "load" /\ active' = active
  BY DEF Inv, TypeOK, FramesInv, LoadDep
<1>2. /\ n \in Nat \ {0} /\ DOMAIN stack = 1..n /\ m \in Modules /\ Top = stack[n]
      /\ Top.next \in Nat \ {0}
      /\ \A k \in 1..n : stack[k].mod \in Modules /\ stack[k].next \in Nat \ {0}
  BY <1>1, TopFrame DEF Frames
<1>3. /\ Len(Deps[m]) \in Nat /\ Top.next \in 1..Len(Deps[m])
      /\ d \in Modules /\ Rank[d] < Rank[m]
  <2>1. Top.next <= Len(Deps[m])
    BY DEF LoadDep
  <2>2. Top.next \in 1..Len(Deps[m])
    BY <1>2, <2>1, DepTypes
  <2> QED
    BY <1>2, <2>2, DepTypes
<1>4. /\ Advanced \in Seq(Frames) /\ Len(Advanced) = n /\ DOMAIN Advanced = 1..n
      /\ \A k \in 1..n : Advanced[k].mod = stack[k].mod
      /\ \A k \in 1..(n - 1) : Advanced[k] = stack[k]
      /\ Advanced[n].next = Top.next + 1
  BY <1>1, AdvancedFrames
<1>5. \A k \in 1..n : \A j \in DOMAIN Deps[stack[k].mod] :
        j < Advanced[k].next => Deps[stack[k].mod][j] \in Elements(loading) \cup {d}
  <2> SUFFICES ASSUME NEW k \in 1..n, NEW j \in DOMAIN Deps[stack[k].mod], j < Advanced[k].next
               PROVE  Deps[stack[k].mod][j] \in Elements(loading) \cup {d}
    OBVIOUS
  <2>1. j \in Nat
    BY <1>2, DepTypes
  <2>2. CASE j < stack[k].next
    BY <1>2, <2>2 DEF Inv, FramesInv
  <2>3. CASE ~ (j < stack[k].next)
    <3>1. k = n
      BY <1>2, <1>4, <2>3
    <3>2. j = Top.next
      BY <1>2, <1>4, <2>1, <2>3, <3>1
    <3> QED
      BY <1>2, <3>1, <3>2
  <2> QED
    BY <2>2, <2>3
<1>6. CASE d \in Elements(loading)
  <2>1. stack' = Advanced /\ loading' = loading
    BY <1>6 DEF LoadDep
  <2>2. Open' = Open
    BY <1>2, <1>4, <2>1 DEF Open
  <2>3. Elements(loading)' = Elements(loading) /\ Elements(active)' = Elements(active)
    BY <1>1, <2>1 DEF Elements
  <2>4. stack' # <<>>
    BY <1>2, <1>4, <2>1
  <2>5. \A k \in DOMAIN stack' : \A j \in DOMAIN Deps[stack'[k].mod] :
          j < stack'[k].next => Deps[stack'[k].mod][j] \in Elements(loading)'
    BY <1>4, <1>5, <1>6, <2>1, <2>3
  <2>6. \A k, l \in DOMAIN stack' : k < l => Rank[stack'[l].mod] < Rank[stack'[k].mod]
    BY <1>2, <1>4, <2>1 DEF Inv, FramesInv
  <2> QED
    BY <1>1, <1>4, <2>1, <2>2, <2>3, <2>4, <2>5, <2>6 DEF Inv, FramesInv
<1>7. CASE d \notin Elements(loading)
  <2> DEFINE f == [mod |-> d, next |-> 1]
  <2>1. stack' = Append(Advanced, f) /\ loading' = Append(loading, d)
    BY <1>7 DEF LoadDep
  <2>2. f \in Frames /\ f.mod = d /\ f.next = 1
    BY <1>3 DEF Frames
  <2> HIDE DEF f
  <2>3. /\ stack' \in Seq(Frames) /\ Len(stack') = n + 1 /\ DOMAIN stack' = 1..(n + 1)
        /\ \A k \in 1..n : stack'[k] = Advanced[k]
        /\ stack'[n + 1] = f
    BY <1>4, <2>1, <2>2, AppendSeq
  <2>4. /\ loading' \in Seq(Modules) /\ DOMAIN loading' = 1..(Len(loading) + 1)
        /\ DOMAIN loading = 1..Len(loading) /\ Len(loading) \in Nat
        /\ \A i \in 1..Len(loading) : loading'[i] = loading[i]
        /\ loading'[Len(loading) + 1] = d
    BY <1>1, <1>3, <2>1, AppendSeq, LenProperties
  <2>5. Elements(loading)' = Elements(loading) \cup {d} /\ Elements(active)' = Elements(active)
    <3>1. Elements(loading') = Elements(loading) \cup {d}
      BY <1>1, <1>3, <2>1, AppendElements
    <3> QED
      BY <1>1, <3>1 DEF Elements
  <2>6. Open' = Open \cup {d}
    <3>1. \A k \in 1..n : stack'[k].mod = stack[k].mod
      BY <1>2, <1>4, <2>3
    <3>2. Open \subseteq Open' /\ d \in Open'
      BY <1>2, <2>2, <2>3, <3>1 DEF Open
    <3>3. ASSUME NEW x \in Open' PROVE x \in Open \cup {d}
      <4>1. PICK k \in 1..(n + 1) : x = stack'[k].mod
        BY <2>3 DEF Open
      <4>2. CASE k = n + 1
        BY <2>2, <2>3, <4>1, <4>2
      <4>3. CASE k \in 1..n
        BY <1>2, <3>1, <4>1, <4>3 DEF Open
      <4> QED
        BY <1>2, <4>1, <4>2, <4>3
    <3> QED
      BY <3>2, <3>3
  <2>7. d \notin Elements(active)
    BY <1>7 DEF Inv, FramesInv
  <2>8. stack' # <<>>
    BY <1>2, <2>3
  <2>9. \A k \in DOMAIN stack' : \A j \in DOMAIN Deps[stack'[k].mod] :
          j < stack'[k].next => Deps[stack'[k].mod][j] \in Elements(loading)'
    <3> SUFFICES ASSUME NEW k \in 1..(n + 1), NEW j \in DOMAIN Deps[stack'[k].mod],
                        j < stack'[k].next
                 PROVE  Deps[stack'[k].mod][j] \in Elements(loading)'
      BY <2>3
    <3>1. CASE k = n + 1
      <4>1. j \in Nat \ {0} /\ j < 1
        BY <1>3, <2>2, <2>3, <3>1, DepTypes
      <4> QED
        BY <4>1
    <3>2. CASE k \in 1..n
      <4>1. stack'[k] = Advanced[k]
        BY <2>3, <3>2
      <4>2. Advanced[k].mod = stack[k].mod /\ k \in 1..n
        BY <1>4, <3>2
      <4>3. Deps[stack'[k].mod][j] \in Elements(loading) \cup {d}
        BY <1>5, <4>1, <4>2
      <4> QED
        BY <2>5, <4>3
    <3> QED
      BY <1>2, <3>1, <3>2
  <2>10. \A k, l \in DOMAIN stack' : k < l => Rank[stack'[l].mod] < Rank[stack'[k].mod]
    <3> SUFFICES ASSUME NEW k \in 1..(n + 1), NEW l \in 1..(n + 1), k < l
                 PROVE  Rank[stack'[l].mod] < Rank[stack'[k].mod]
      BY <2>3
    <3>0. k \in 1..n /\ stack'[k].mod = stack[k].mod
      BY <1>2, <1>4, <2>3
    <3>1. CASE l \in 1..n
      <4>1. stack'[l].mod = stack[l].mod
        BY <1>4, <2>3, <3>1
      <4>2. Rank[stack[l].mod] < Rank[stack[k].mod]
        BY <1>2, <3>0, <3>1 DEF Inv, FramesInv
      <4> QED
        BY <3>0, <4>1, <4>2
    <3>2. CASE l = n + 1
      <4>1. stack'[l].mod = d
        BY <2>2, <2>3, <3>2
      <4>2. k = n \/ Rank[m] < Rank[stack[k].mod]
        <5>1. \A a, b \in DOMAIN stack : a < b => Rank[stack[b].mod] < Rank[stack[a].mod]
          BY DEF Inv, FramesInv
        <5>2. m = stack[n].mod /\ n \in DOMAIN stack /\ k \in DOMAIN stack
          BY <1>2, <3>0
        <5>3. n \in Nat /\ k \in 1..n
          BY <1>2, <3>0
        <5> HIDE DEF m, n
        <5>4. k = n \/ k < n
          BY <5>3
        <5> QED
          BY <5>1, <5>2, <5>4
      <4>3. Rank[m] \in Nat /\ Rank[d] \in Nat /\ Rank[stack[k].mod] \in Nat
        BY <1>2, <1>3, <3>0, AcyclicAssumption
      <4>4. stack[n].mod = m /\ Rank[d] < Rank[m]
        BY <1>2, <1>3
      <4> HIDE DEF d, m
      <4>5. Rank[d] < Rank[stack[k].mod]
        BY <4>2, <4>3, <4>4
      <4> QED
        BY <3>0, <4>1, <4>5
    <3> QED
      BY <1>2, <3>1, <3>2
  <2>11. \A i, j \in DOMAIN loading' : loading'[i] = loading'[j] => i = j
    <3>1. \A i \in 1..Len(loading) : loading[i] # d
      BY <1>7, <2>4 DEF Elements
    <3>2. \A i, j \in 1..Len(loading) : loading[i] = loading[j] => i = j
      BY <2>4 DEF Inv, FramesInv
    <3> HIDE DEF d
    <3> QED
      BY <2>4, <3>1, <3>2
  <2> QED
    BY <1>1, <2>3, <2>4, <2>5, <2>6, <2>7, <2>8, <2>9, <2>10, <2>11 DEF Inv, FramesInv
<1> QED
  BY <1>6, <1>7

\* A module is about to be activated: everything it depends on already is.
LEMMA LoadModuleReady ==
  ASSUME Inv, LoadModule
  PROVE  /\ Top.mod \in Modules /\ Top.mod \notin Elements(active)
         /\ Elements(Deps[Top.mod]) \subseteq Elements(active)
<1> DEFINE n == Len(stack)  m == Top.mod
<1>1. stack \in Seq(Frames) /\ stack # <<>>
  BY DEF Inv, TypeOK, FramesInv, LoadModule
<1>2. /\ n \in Nat \ {0} /\ DOMAIN stack = 1..n /\ m \in Modules /\ m = stack[n].mod
      /\ Top.next \in Nat /\ Top = stack[n]
      /\ \A k \in 1..n : stack[k].mod \in Modules
  BY <1>1, TopFrame DEF Frames
<1>3. m \in Open
  BY <1>2 DEF Open
<1>4. m \notin Elements(active)
  BY <1>3 DEF Inv, FramesInv
<1>5. ASSUME NEW x \in Elements(Deps[m]) PROVE x \in Elements(active)
  <2>1. PICK j \in 1..Len(Deps[m]) : x = Deps[m][j]
    BY <1>2, <1>5, DepTypes DEF Elements
  <2>2. j < Top.next
    <3>1. Top.next > Len(Deps[m])
      BY DEF LoadModule
    <3> QED
      BY <1>2, <2>1, <3>1, DepTypes
  <2>3. x \in Elements(loading)
    BY <1>2, <2>1, <2>2, DepTypes DEF Inv, FramesInv
  <2>4. x \notin Open
    <3> SUFFICES ASSUME NEW k \in 1..n, x = stack[k].mod PROVE FALSE
      BY <1>2 DEF Open
    <3>1. Rank[x] < Rank[m] /\ Rank[m] \in Nat /\ Rank[x] \in Nat
      BY <1>2, <2>1, DepTypes
    <3>2. CASE k = n
      <4>1. Rank[stack[k].mod] < Rank[stack[k].mod] /\ Rank[stack[k].mod] \in Nat
        BY <1>2, <3>1, <3>2
      <4> QED
        BY <4>1
    <3>3. CASE k # n
      <4> HIDE DEF n, m
      <4>1. k \in DOMAIN stack /\ n \in DOMAIN stack /\ k < n
        BY <1>2, <3>3
      <4>2. Rank[stack[n].mod] < Rank[stack[k].mod]
        BY <4>1 DEF Inv, FramesInv
      <4>3. Rank[m] < Rank[x]
        BY <1>2, <4>2
      <4> QED
        BY <3>1, <4>3
    <3> QED
      BY <3>2, <3>3
  <2> QED
    BY <2>3, <2>4 DEF Inv, FramesInv
<1> QED
  BY <1>2, <1>4, <1>5

LEMMA LoadModuleFrames ==
  ASSUME Inv, LoadModule
  PROVE  /\ stack' \in Seq(Frames) /\ active' \in Seq(Modules)
         /\ FramesInv' /\ DependenciesFirst'
         /\ Elements(active)' = Elements(active) \cup {Top.mod}
<1> DEFINE n == Len(stack)  m == Top.mod
<1>1. /\ stack \in Seq(Frames) /\ loading \in Seq(Modules) /\ active \in Seq(Modules)
      /\ phase = "load" /\ stack # <<>> /\ loading' = loading
      /\ stack' = Pop /\ active' = Append(active, m)
      /\ phase' = IF n = 1 THEN "launch" ELSE "load"
  BY DEF Inv, TypeOK, FramesInv, LoadModule
<1>2. /\ n \in Nat \ {0} /\ DOMAIN stack = 1..n /\ m = stack[n].mod
      /\ \A k \in 1..n : stack[k] \in Frames
  BY <1>1, TopFrame
<1>3. /\ m \in Modules /\ m \notin Elements(active)
      /\ Elements(Deps[m]) \subseteq Elements(active)
  BY LoadModuleReady
<1>4. /\ stack' \in Seq(Frames) /\ Len(stack') = n - 1 /\ DOMAIN stack' = 1..(n - 1)
      /\ \A k \in 1..(n - 1) : stack'[k] = stack[k]
  BY <1>1, PopFrames
<1>5. Len(active) \in Nat /\ DOMAIN active = 1..Len(active)
  BY <1>1, LenProperties
<1>6. /\ active' \in Seq(Modules) /\ Len(active') = Len(active) + 1
      /\ DOMAIN active' = 1..(Len(active) + 1)
      /\ \A i \in 1..Len(active) : active'[i] = active[i]
      /\ active'[Len(active) + 1] = m
  BY <1>1, <1>3, AppendSeq
<1>7. Elements(active)' = Elements(active) \cup {m} /\ Elements(loading)' = Elements(loading)
  <2>1. Elements(active') = Elements(active) \cup {m}
    BY <1>1, <1>3, AppendElements
  <2> QED
    BY <1>1, <2>1 DEF Elements
<1>8. Open' = Open \ {m}
  <2>1. \A k \in 1..(n - 1) : stack[k].mod # m
    <3> SUFFICES ASSUME NEW k \in 1..(n - 1), stack[k].mod = m PROVE FALSE
      OBVIOUS
    <3>1. Rank[stack[n].mod] < Rank[stack[k].mod]
      BY <1>2 DEF Inv, FramesInv
    <3>2. Rank[m] \in Nat
      BY <1>3, AcyclicAssumption
    <3> QED
      BY <1>2, <3>1, <3>2
  <2>2. Open' = {stack[k].mod : k \in 1..(n - 1)}
    BY <1>4 DEF Open
  <2>3. Open = {stack[k].mod : k \in 1..(n - 1)} \cup {m}
    <3>1. \A k \in 1..n : k = n \/ k \in 1..(n - 1)
      BY <1>2
    <3>2. 1..(n - 1) \subseteq 1..n /\ n \in 1..n
      BY <1>2
    <3> HIDE DEF m, n
    <3> QED
      BY <1>2, <3>1, <3>2 DEF Open
  <2> QED
    BY <2>1, <2>2, <2>3
<1>9. FramesInv'
  <2>1. phase' = "load" => stack' # <<>>
    BY <1>1, <1>2, <1>4
  <2>2. phase' \notin {"load", "hung"} => stack' = <<>>
    <3>1. n = 1 => Len(stack') = 0
      BY <1>4
    <3>2. Len(stack') = 0 => stack' = <<>>
      BY <1>4, EmptySeq
    <3> QED
      BY <1>1, <3>1, <3>2
  <2>3. Elements(loading)' = Elements(active)' \cup Open'
    <3>1. m \in Open
      BY <1>2 DEF Open
    <3> QED
      BY <1>7, <1>8, <3>1 DEF Inv, FramesInv
  <2>4. Elements(active)' \cap Open' = {}
    BY <1>7, <1>8 DEF Inv, FramesInv
  <2>5. \A k \in DOMAIN stack' : \A j \in DOMAIN Deps[stack'[k].mod] :
          j < stack'[k].next => Deps[stack'[k].mod][j] \in Elements(loading)'
    BY <1>2, <1>4, <1>7 DEF Inv, FramesInv
  <2>6. \A k, l \in DOMAIN stack' : k < l => Rank[stack'[l].mod] < Rank[stack'[k].mod]
    BY <1>2, <1>4 DEF Inv, FramesInv
  <2>7. \A i, j \in DOMAIN loading' : loading'[i] = loading'[j] => i = j
    BY <1>1 DEF Inv, FramesInv
  <2> QED
    BY <2>1, <2>2, <2>3, <2>4, <2>5, <2>6, <2>7 DEF FramesInv
<1>10. DependenciesFirst'
  <2> SUFFICES ASSUME NEW i \in DOMAIN active'
               PROVE  /\ \A j \in 1..(i - 1) : active'[j] # active'[i]
                      /\ \A d \in Elements(Deps[active'[i]]) : \E j \in 1..(i - 1) : active'[j] = d
    BY <1>6 DEF DependenciesFirst, Elements
  <2>1. CASE i \in 1..Len(active)
    <3>1. \A j \in 1..(i - 1) : active'[j] = active[j] /\ active'[i] = active[i]
      BY <1>5, <1>6, <2>1
    <3>2. active'[i] = active[i]
      BY <1>6, <2>1
    <3>3. /\ \A j \in 1..(i - 1) : active[j] # active[i]
          /\ \A d \in Elements(Deps[active[i]]) : \E j \in 1..(i - 1) : active[j] = d
      BY <1>5, <2>1 DEF Inv, DependenciesFirst
    <3> QED
      BY <3>1, <3>2, <3>3
  <2>2. CASE i = Len(active) + 1
    <3>1. 1..(i - 1) = DOMAIN active /\ active'[i] = m
      BY <1>5, <1>6, <2>2
    <3>2. \A j \in DOMAIN active : active'[j] = active[j] /\ active[j] # m
      BY <1>3, <1>5, <1>6 DEF Elements
    <3>3. \A d \in Elements(Deps[m]) : \E j \in DOMAIN active : active[j] = d
      BY <1>3 DEF Elements
    <3> HIDE DEF m
    <3> QED
      BY <3>1, <3>2, <3>3
  <2> QED
    BY <1>5, <1>6, <2>1, <2>2
<1> QED
  BY <1>4, <1>6, <1>7, <1>9, <1>10

\* FramesInv and DependenciesFirst speak of the lists, and of the phase when it is "load".
LEMMA ListsStay ==
  ASSUME Inv, UNCHANGED <<stack, loading, active>>,
         \/ phase' = phase \/ phase' = "hung"
         \/ phase \notin {"load", "hung"} /\ phase' # "load"
  PROVE  FramesInv' /\ DependenciesFirst'
<1>1. stack' = stack /\ loading' = loading /\ active' = active
  OBVIOUS
<1>2. Open' = Open /\ Elements(loading)' = Elements(loading) /\ Elements(active)' = Elements(active)
  BY <1>1 DEF Open, Elements
<1>3. DependenciesFirst'
  BY <1>1 DEF Inv, DependenciesFirst, Elements
<1>4. /\ phase' = "load" => stack' # <<>>
      /\ phase' \notin {"load", "hung"} => stack' = <<>>
  BY <1>1 DEF Inv, FramesInv
<1>5. /\ \A k \in DOMAIN stack' : \A j \in DOMAIN Deps[stack'[k].mod] :
           j < stack'[k].next => Deps[stack'[k].mod][j] \in Elements(loading)'
      /\ \A k, l \in DOMAIN stack' : k < l => Rank[stack'[l].mod] < Rank[stack'[k].mod]
      /\ \A i, j \in DOMAIN loading' : loading'[i] = loading'[j] => i = j
  BY <1>1, <1>2 DEF Inv, FramesInv
<1>6. Elements(loading)' = Elements(active)' \cup Open' /\ Elements(active)' \cap Open' = {}
  BY <1>2 DEF Inv, FramesInv
<1> QED
  BY <1>3, <1>4, <1>5, <1>6 DEF FramesInv

LEMMA DistinctList ==
  ASSUME NEW s \in Seq(Modules), \A i \in DOMAIN s : \A j \in 1..(i - 1) : s[j] # s[i]
  PROVE  \A i, j \in DOMAIN s : s[i] = s[j] => i = j
<1> SUFFICES ASSUME NEW i \in DOMAIN s, NEW j \in DOMAIN s, s[i] = s[j], i < j
             PROVE  FALSE
  BY LenProperties
<1>1. i \in 1..(j - 1)
  BY LenProperties
<1> QED
  BY <1>1

\* Unloading the last of the modules still loaded.
LEMMA PrefixDrop ==
  ASSUME active \in Seq(Modules), DependenciesFirst, NEW n \in 1..Len(active)
  PROVE  Prefix(n) \ {active[n]} = Prefix(n - 1)
<1>1. Len(active) \in Nat /\ DOMAIN active = 1..Len(active)
  BY LenProperties
<1>2. \A i \in 1..(n - 1) : active[i] # active[n]
  BY <1>1, DistinctList DEF DependenciesFirst
<1>3. \A i \in 1..n : i = n \/ i \in 1..(n - 1)
  OBVIOUS
<1>4. 1..(n - 1) \subseteq 1..n
  OBVIOUS
<1> QED
  BY <1>2, <1>3, <1>4 DEF Prefix

\* Nothing but LoadModule and Unload changes what is loaded.
LEMMA LoadedStays ==
  ASSUME Inv, UNCHANGED <<active, loaded>>,
         \/ phase' \in {"hung", "drain", "ended"}
         \/ phase' = "unload" /\ ((phase = "unload" /\ at' = at) \/ (phase = "stop" /\ at' = 1))
         \/ /\ phase' \in {"init", "load", "launch", "oneshot", "pass", "stop"}
            /\ phase \in {"init", "load", "launch", "oneshot", "pass", "stop"}
  PROVE  PrefixInv'
<1>1. active' = active /\ loaded' = loaded
  OBVIOUS
<1>2. ASSUME NEW n PROVE {active'[i] : i \in 1..n} = Prefix(n)
  BY <1>1 DEF Prefix
<1>3. \E n \in 0..Len(active') : loaded' = {active'[i] : i \in 1..n}
  BY <1>1 DEF Inv, PrefixInv, Prefix
<1>4. phase' \in {"init", "load", "launch", "oneshot", "pass", "stop"}
        => loaded' = {active'[i] : i \in 1..Len(active')}
  BY <1>1 DEF Inv, PrefixInv, Prefix
<1>5. phase' = "unload" => loaded' = {active'[i] : i \in 1..(Len(active') + 1 - at')}
  <2>1. CASE phase' = "unload" /\ phase = "unload" /\ at' = at
    BY <1>1, <2>1 DEF Inv, PrefixInv, Prefix
  <2>2. CASE phase' = "unload" /\ phase = "stop" /\ at' = 1
    <3>1. Len(active) + 1 - 1 = Len(active)
      BY LenProperties DEF Inv, TypeOK
    <3>2. loaded = Prefix(Len(active))
      BY <2>2 DEF Inv, PrefixInv
    <3> QED
      BY <1>1, <2>2, <3>1, <3>2 DEF Prefix
  <2> QED
    BY <2>1, <2>2
<1> QED
  BY <1>3, <1>4, <1>5 DEF PrefixInv, Prefix

\* What a module's code does to the tables keeps them tables.
LEMMA MayRegisterTables ==
  ASSUME Inv, NEW m \in Modules, NEW run \in Runs, NEW tasks, Table(tasks),
         MayRegister(m, run, tasks)
  PROVE  /\ periodic' \in Seq(Tasks) /\ Len(periodic') <= TasksMax
         /\ oneshot' \in Seq(Tasks) /\ Len(oneshot') <= TasksMax
<1>1. Task(m, run) \in Tasks
  BY DEF Task, Tasks
<1>2. Table(oneshot)
  BY DEF Inv, TypeOK, Table
<1> QED
  BY <1>1, <1>2, RegisterTable DEF MayRegister, Table

LEMMA ActiveTypes ==
  ASSUME Inv
  PROVE  /\ active \in Seq(Modules) /\ Len(active) \in Nat /\ DOMAIN active = 1..Len(active)
         /\ \A i \in 1..Len(active) : active[i] \in Modules
         /\ at \in Nat \ {0} /\ Table(periodic) /\ Table(oneshot)
         /\ Service \in Tasks /\ MainTask \in Tasks
         /\ phase \notin {"init", "load", "hung"} => Len(active) \in Nat \ {0}
<1>1. active \in Seq(Modules) /\ at \in Nat \ {0} /\ Table(periodic) /\ Table(oneshot)
  BY DEF Inv, TypeOK, Table
<1>2. Service \in Tasks /\ MainTask \in Tasks
  BY ModulesAssumption DEF Service, MainTask, Task, Tasks, Runs
<1>3. phase \notin {"init", "load", "hung"} => Len(active) \in Nat \ {0}
  BY <1>1, EmptySeq DEF Inv, CursorInv
<1> QED
  BY <1>1, <1>2, <1>3, LenProperties, ElementOfSeq

-----------------------------------------------------------------------------
(* Inv is inductive: the initial states, then one lemma for each action.      *)

LEMMA FrameworkInit == Init => Inv
<1> SUFFICES ASSUME Init PROVE Inv
  OBVIOUS
<1>1. /\ phase = "init" /\ stack = <<>> /\ loading = <<>> /\ active = <<>> /\ loaded = {}
      /\ periodic = <<>> /\ oneshot = <<>> /\ at = 1 /\ exit = "shutdown"
      /\ queued = 0 /\ logged = 0
  BY DEF Init
<1>2. /\ stack \in Seq(Frames) /\ loading \in Seq(Modules) /\ active \in Seq(Modules)
      /\ periodic \in Seq(Tasks) /\ oneshot \in Seq(Tasks)
      /\ Len(loading) = 0 /\ Len(active) = 0 /\ Len(periodic) = 0 /\ Len(oneshot) = 0
  BY <1>1
<1>3. TypeOK
  BY <1>1, <1>2, BoundsAssumption DEF TypeOK, Phases
<1>4. FramesInv
  BY <1>1 DEF FramesInv, Elements, Open
<1>5. DependenciesFirst
  BY <1>1 DEF DependenciesFirst
<1>6. PrefixInv
  BY <1>1, <1>2 DEF PrefixInv, Prefix
<1>7. CursorInv
  BY <1>1 DEF CursorInv
<1> QED
  BY <1>3, <1>4, <1>5, <1>6, <1>7 DEF Inv

LEMMA SetupKeeps == ASSUME Inv, Setup PROVE Inv'
<1> DEFINE f == [mod |-> App, next |-> 1]
<1>1. /\ phase = "init" /\ phase' = "load" /\ stack' = <<f>> /\ loading' = <<App>>
      /\ periodic' = Register(periodic, Service) /\ oneshot' = oneshot
      /\ active' = active /\ loaded' = loaded /\ at' = at /\ exit' = exit
      /\ queued' = queued /\ logged' = logged
  BY DEF Setup, logVars
<1>2. f \in Frames /\ f.mod = App /\ f.next = 1 /\ App \in Modules
  BY ModulesAssumption DEF Frames
<1> HIDE DEF f
<1>3. /\ stack' \in Seq(Frames) /\ DOMAIN stack' = {1} /\ stack'[1] = f /\ stack' # <<>>
      /\ loading' \in Seq(Modules) /\ DOMAIN loading' = {1} /\ loading'[1] = App
      /\ Len(loading') = 1
  BY <1>1, <1>2
<1>4. \A i, j \in DOMAIN loading' : loading'[i] = loading'[j] => i = j
  BY <1>3
<1>5. Len(loading') <= ModulesMax
  BY <1>3, <1>4, DistinctFit
<1>6. TypeOK'
  <2>1. Table(periodic')
    BY <1>1, ActiveTypes, RegisterTable
  <2> QED
    BY <1>1, <1>3, <1>5, <2>1 DEF Inv, TypeOK, Phases, Table
<1>7. Elements(active) = {}
  BY <1>1 DEF Inv, CursorInv, Elements
<1>8. FramesInv'
  <2>1. Elements(loading)' = {App} /\ Open' = {App} /\ Elements(active)' = {}
    BY <1>1, <1>2, <1>3, <1>7 DEF Elements, Open
  <2>2. \A k \in DOMAIN stack' : \A j \in DOMAIN Deps[stack'[k].mod] :
          j < stack'[k].next => Deps[stack'[k].mod][j] \in Elements(loading)'
    BY <1>2, <1>3, DepTypes
  <2>3. \A k, l \in DOMAIN stack' : k < l => Rank[stack'[l].mod] < Rank[stack'[k].mod]
    BY <1>3
  <2> QED
    BY <1>1, <1>3, <1>4, <2>1, <2>2, <2>3 DEF FramesInv
<1>9. DependenciesFirst'
  BY <1>1 DEF Inv, DependenciesFirst, Elements
<1>10. PrefixInv'
  BY <1>1, LoadedStays
<1>11. CursorInv'
  BY <1>1 DEF Inv, CursorInv
<1> QED
  BY <1>6, <1>8, <1>9, <1>10, <1>11 DEF Inv

LEMMA LoadDepKeeps == ASSUME Inv, LoadDep PROVE Inv'
<1>1. /\ phase = "load" /\ phase' = "load" /\ active' = active /\ loaded' = loaded /\ at' = at
      /\ periodic' = periodic /\ oneshot' = oneshot /\ exit' = exit
      /\ queued' = queued /\ logged' = logged
  BY DEF LoadDep, taskVars, logVars
<1>2. stack' \in Seq(Frames) /\ loading' \in Seq(Modules) /\ FramesInv'
  BY LoadDepFrames
<1>3. Len(loading') <= ModulesMax
  <2>1. \A i, j \in DOMAIN loading' : loading'[i] = loading'[j] => i = j
    BY <1>2 DEF FramesInv
  <2> QED
    BY <1>2, <2>1, DistinctFit
<1>4. TypeOK'
  BY <1>1, <1>2, <1>3 DEF Inv, TypeOK
<1>5. DependenciesFirst'
  BY <1>1 DEF Inv, DependenciesFirst, Elements
<1>6. PrefixInv'
  BY <1>1, LoadedStays
<1>7. CursorInv'
  BY <1>1 DEF Inv, CursorInv
<1> QED
  BY <1>2, <1>4, <1>5, <1>6, <1>7 DEF Inv


LEMMA LoadModuleKeeps == ASSUME Inv, LoadModule PROVE Inv'
<1> DEFINE m == Top.mod
           table == IF m = App THEN Register(periodic, MainTask) ELSE periodic
<1>1. /\ phase = "load" /\ phase' = IF Len(stack) = 1 THEN "launch" ELSE "load"
      /\ loaded' = loaded \cup {m} /\ loading' = loading /\ at' = at /\ exit' = exit
      /\ queued' = queued /\ logged' = logged
      /\ active' = Append(active, m) /\ MayRegister(m, "load", table)
  BY DEF LoadModule, logVars
<1>2. /\ stack' \in Seq(Frames) /\ active' \in Seq(Modules) /\ FramesInv' /\ DependenciesFirst'
      /\ Elements(active)' = Elements(active) \cup {m} /\ m \in Modules
  BY LoadModuleFrames, LoadModuleReady
<1>3. /\ Len(active') \in Nat \ {0} /\ DOMAIN active' = 1..Len(active') /\ active' # <<>>
  BY <1>1, <1>2, ActiveTypes, AppendSeq
<1>4. Len(active') <= ModulesMax
  <2>1. \A i \in DOMAIN active' : \A j \in 1..(i - 1) : active'[j] # active'[i]
    BY <1>2 DEF DependenciesFirst
  <2>2. \A i, j \in DOMAIN active' : active'[i] = active'[j] => i = j
    BY <1>2, <2>1, DistinctList
  <2> QED
    BY <1>2, <2>2, DistinctFit
<1>5. /\ periodic' \in Seq(Tasks) /\ Len(periodic') <= TasksMax
      /\ oneshot' \in Seq(Tasks) /\ Len(oneshot') <= TasksMax
  <2>1. Table(table)
    BY ActiveTypes, RegisterTable
  <2> HIDE DEF table, m
  <2> QED
    BY <1>1, <1>2, <2>1, MayRegisterTables DEF Runs
<1>6. TypeOK'
  <2> HIDE DEF table, m
  <2>1. loaded' \subseteq Modules
    BY <1>1, <1>2 DEF Inv, TypeOK
  <2>2. phase' \in Phases
    BY <1>1 DEF Phases
  <2> QED
    BY <1>1, <1>2, <1>4, <1>5, <2>1, <2>2 DEF Inv, TypeOK
<1>7. PrefixInv'
  <2>1. loaded = Elements(active)
    BY <1>1, ActiveTypes DEF Inv, PrefixInv, Prefix, Elements
  <2>2. loaded' = {active'[i] : i \in 1..Len(active')}
    BY <1>1, <1>2, <1>3, <2>1 DEF Elements
  <2> QED
    BY <1>1, <1>3, <2>2 DEF PrefixInv, Prefix
<1>8. CursorInv'
  BY <1>1, <1>3 DEF Inv, CursorInv
<1> QED
  BY <1>2, <1>6, <1>7, <1>8 DEF Inv

LEMMA LaunchKeeps == ASSUME Inv, Launch PROVE Inv'
<1>1. /\ phase = "launch" /\ MayRegister(active[at], "later", periodic)
      /\ stack' = stack /\ loading' = loading /\ active' = active /\ loaded' = loaded
      /\ exit' = exit /\ queued' = queued /\ logged' = logged
      /\ IF at < Len(active) THEN at' = at + 1 /\ phase' = phase
         ELSE at' = 1 /\ phase' = "oneshot"
  BY DEF Launch, Turn, loadVars, logVars
<1>2. active[at] \in Modules /\ at \in Nat \ {0} /\ Len(active) \in Nat
  BY <1>1, ActiveTypes DEF Inv, CursorInv
<1>3. /\ periodic' \in Seq(Tasks) /\ Len(periodic') <= TasksMax
      /\ oneshot' \in Seq(Tasks) /\ Len(oneshot') <= TasksMax
  BY <1>1, <1>2, ActiveTypes, MayRegisterTables DEF Runs
<1>4. TypeOK'
  BY <1>1, <1>2, <1>3 DEF Inv, TypeOK, Phases
<1>5. FramesInv' /\ DependenciesFirst'
  BY <1>1, ListsStay
<1>6. PrefixInv'
  BY <1>1, LoadedStays
<1>7. CursorInv'
  BY <1>1, <1>2 DEF Inv, CursorInv
<1> QED
  BY <1>4, <1>5, <1>6, <1>7 DEF Inv

LEMMA RunOneShotKeeps == ASSUME Inv, RunOneShot PROVE Inv'
<1>1. /\ phase = "oneshot" /\ at <= Len(oneshot) /\ MayRegister(oneshot[at].owner, "later", periodic)
      /\ stack' = stack /\ loading' = loading /\ active' = active /\ loaded' = loaded
      /\ phase' = phase /\ queued' = queued /\ logged' = logged /\ at' = at + 1
      /\ \E status \in Statuses : exit' = IF status = "error" THEN "error" ELSE exit
  BY DEF RunOneShot, loadVars, logVars
<1>2. oneshot[at].owner \in Modules /\ at \in Nat \ {0}
  <2>1. oneshot \in Seq(Tasks) /\ at \in 1..Len(oneshot)
    BY <1>1 DEF Inv, TypeOK
  <2>2. oneshot[at] \in Tasks
    BY <2>1, ElementOfSeq
  <2> QED
    BY <2>1, <2>2 DEF Tasks
<1>3. /\ periodic' \in Seq(Tasks) /\ Len(periodic') <= TasksMax
      /\ oneshot' \in Seq(Tasks) /\ Len(oneshot') <= TasksMax
  BY <1>1, <1>2, ActiveTypes, MayRegisterTables DEF Runs
<1>4. TypeOK'
  BY <1>1, <1>2, <1>3 DEF Inv, TypeOK, Phases
<1>5. FramesInv' /\ DependenciesFirst'
  BY <1>1, ListsStay
<1>6. PrefixInv'
  BY <1>1, LoadedStays
<1>7. CursorInv'
  BY <1>1 DEF Inv, CursorInv
<1> QED
  BY <1>4, <1>5, <1>6, <1>7 DEF Inv

LEMMA RunTaskKeeps == ASSUME Inv, RunTask PROVE Inv'
<1>1. /\ phase = "pass" /\ at <= Len(periodic) /\ MayRegister(periodic[at].owner, "later", periodic)
      /\ stack' = stack /\ loading' = loading /\ active' = active /\ loaded' = loaded
      /\ queued' = queued
      /\ \/ at' = at + 1 /\ phase' = phase /\ exit' = exit /\ logged' = logged
         \/ at' = 1 /\ phase' = "stop" /\ logged' = 0 /\ exit' \in {"error", exit}
  BY DEF RunTask, loadVars, Statuses
<1>2. periodic[at].owner \in Modules /\ at \in Nat \ {0}
  <2>1. periodic \in Seq(Tasks) /\ at \in 1..Len(periodic)
    BY <1>1 DEF Inv, TypeOK
  <2>2. periodic[at] \in Tasks
    BY <2>1, ElementOfSeq
  <2> QED
    BY <2>1, <2>2 DEF Tasks
<1>3. /\ periodic' \in Seq(Tasks) /\ Len(periodic') <= TasksMax
      /\ oneshot' \in Seq(Tasks) /\ Len(oneshot') <= TasksMax
  BY <1>1, <1>2, ActiveTypes, MayRegisterTables DEF Runs
<1>4. TypeOK'
  BY <1>1, <1>2, <1>3 DEF Inv, TypeOK, Phases
<1>5. FramesInv' /\ DependenciesFirst'
  BY <1>1, ListsStay
<1>6. PrefixInv'
  BY <1>1, LoadedStays
<1>7. CursorInv'
  BY <1>1, ActiveTypes DEF Inv, CursorInv
<1> QED
  BY <1>4, <1>5, <1>6, <1>7 DEF Inv

\* The steps that change neither a table nor a list.
LEMMA LoopKeeps ==
  ASSUME Inv, OneShotsDone \/ RunService \/ PassDone \/ Stop
  PROVE  Inv'
<1>1. /\ stack' = stack /\ loading' = loading /\ active' = active /\ loaded' = loaded
      /\ periodic' = periodic /\ oneshot' = oneshot /\ exit' = exit
      /\ queued' \in {queued, Fewer(queued)} /\ logged' \in {logged, 0}
      /\ \/ phase = "oneshot" /\ phase' = "pass" /\ at' = 1
         \/ phase = "pass" /\ phase' = "pass" /\ at' \in {1, at + 1}
         \/ phase = "stop" /\ phase' = "stop" /\ at < Len(active) /\ at' = at + 1
         \/ phase = "stop" /\ phase' = "unload" /\ at' = 1
  BY DEF OneShotsDone, RunService, PassDone, Stop, Turn, loadVars, taskVars, logVars
<1>2. at \in Nat \ {0} /\ (phase \notin {"init", "load", "hung"} => Len(active) \in Nat \ {0})
  BY ActiveTypes
<1>3. queued' \in 0..Depth
  BY <1>1, BoundsAssumption DEF Inv, TypeOK, Fewer
<1>4. TypeOK'
  BY <1>1, <1>2, <1>3 DEF Inv, TypeOK, Phases
<1>5. FramesInv' /\ DependenciesFirst'
  BY <1>1, ListsStay
<1>6. PrefixInv'
  BY <1>1, LoadedStays
<1>7. CursorInv'
  BY <1>1, <1>2 DEF Inv, CursorInv
<1> QED
  BY <1>4, <1>5, <1>6, <1>7 DEF Inv

LEMMA UnloadKeeps == ASSUME Inv, Unload PROVE Inv'
<1> DEFINE n == Len(active) + 1 - at
<1>1. /\ phase = "unload" /\ loaded' = loaded \ {active[n]}
      /\ stack' = stack /\ loading' = loading /\ active' = active /\ oneshot' = oneshot
      /\ exit' = exit /\ queued' = queued /\ logged' = logged
      /\ periodic' \in {periodic, Unregister(periodic, MainTask)}
      /\ IF at < Len(active) THEN at' = at + 1 /\ phase' = phase
         ELSE at' = 1 /\ phase' = "drain"
  BY DEF Unload, Turn, logVars
<1>2. /\ active \in Seq(Modules) /\ Len(active) \in Nat \ {0} /\ at \in 1..Len(active)
      /\ n \in 1..Len(active) /\ Table(periodic) /\ MainTask \in Tasks
  <2>1. at <= Len(active)
    BY <1>1 DEF Inv, CursorInv
  <2> QED
    BY <1>1, <2>1, ActiveTypes
<1>3. periodic' \in Seq(Tasks) /\ Len(periodic') <= TasksMax
  <2>1. Table(periodic')
    BY <1>1, <1>2, UnloadTable
  <2> QED
    BY <2>1 DEF Table
<1>4. TypeOK'
  <2>1. loaded' \subseteq Modules
    BY <1>1 DEF Inv, TypeOK
  <2> HIDE DEF n
  <2> QED
    BY <1>1, <1>2, <1>3, <2>1 DEF Inv, TypeOK, Phases
<1>5. FramesInv' /\ DependenciesFirst'
  BY <1>1, ListsStay
<1>6. loaded' = {active'[i] : i \in 1..(n - 1)}
  <2>1. loaded = Prefix(n)
    BY <1>1 DEF Inv, PrefixInv
  <2>2. Prefix(n) \ {active[n]} = Prefix(n - 1)
    <3> HIDE DEF n
    <3> QED
      BY <1>2, PrefixDrop DEF Inv
  <2> QED
    BY <1>1, <2>1, <2>2 DEF Prefix
<1>7. PrefixInv'
  <2>1. n - 1 \in 0..Len(active')
    BY <1>1, <1>2
  <2>2. \E k \in 0..Len(active') : loaded' = {active'[i] : i \in 1..k}
    BY <1>6, <2>1
  <2>3. phase' = "unload" => n - 1 = Len(active') + 1 - at'
    BY <1>1, <1>2
  <2>4. phase' = "unload" => loaded' = {active'[i] : i \in 1..(Len(active') + 1 - at')}
    BY <1>6, <2>3
  <2> QED
    BY <1>1, <2>2, <2>4 DEF PrefixInv, Prefix
<1>8. CursorInv'
  BY <1>1, <1>2 DEF Inv, CursorInv
<1> QED
  BY <1>4, <1>5, <1>7, <1>8 DEF Inv

LEMMA DrainKeeps == ASSUME Inv, Drain PROVE Inv'
<1>1. /\ phase = "drain"
      /\ stack' = stack /\ loading' = loading /\ active' = active /\ loaded' = loaded
      /\ periodic' = periodic /\ oneshot' = oneshot /\ exit' = exit /\ logged' = logged
      /\ \/ phase' = "ended" /\ at' = at /\ queued' = queued
         \/ phase' = "drain" /\ at' = at + 1 /\ queued' = queued - 1 /\ queued # 0
  BY DEF Drain, loadVars, taskVars
<1>2. TypeOK'
  BY <1>1, BoundsAssumption DEF Inv, TypeOK, Phases
<1>3. FramesInv' /\ DependenciesFirst'
  BY <1>1, ListsStay
<1>4. PrefixInv'
  BY <1>1, LoadedStays
<1>5. CursorInv'
  BY <1>1 DEF Inv, CursorInv
<1> QED
  BY <1>2, <1>3, <1>4, <1>5 DEF Inv

LEMMA MessageKeeps == ASSUME Inv, Message PROVE Inv'
<1>1. /\ stack' = stack /\ loading' = loading /\ active' = active /\ loaded' = loaded
      /\ periodic' = periodic /\ oneshot' = oneshot /\ exit' = exit /\ at' = at
      /\ logged' = logged + 1
      /\ \/ phase' = phase /\ queued < Depth /\ queued' = queued + 1
         \/ phase' = "hung" /\ queued' = queued
      /\ phase # "ended"
  BY DEF Message, Logs, Booting, Stopping, loadVars, taskVars
<1>2. TypeOK'
  BY <1>1, BoundsAssumption DEF Inv, TypeOK, Phases
<1>3. FramesInv' /\ DependenciesFirst'
  BY <1>1, ListsStay
<1>4. PrefixInv'
  <2>1. CASE phase' = "hung"
    BY <1>1, <2>1, LoadedStays
  <2>2. CASE phase' = phase
    <3>1. phase \in Phases
      BY DEF Inv, TypeOK
    <3>2. CASE phase = "unload"
      <4>1. /\ active' = active /\ loaded' = loaded
            /\ phase' = "unload" /\ (phase = "unload" /\ at' = at)
        BY <1>1, <2>2, <3>2
      <4>2. UNCHANGED <<active, loaded>>
        BY <4>1
      <4> QED
        BY ONLY Inv, <4>1, <4>2, LoadedStays
    <3>3. CASE phase \in {"hung", "drain", "ended"}
      BY <1>1, <2>2, <3>3, LoadedStays
    <3>4. CASE phase \in {"init", "load", "launch", "oneshot", "pass", "stop"}
      BY <1>1, <2>2, <3>4, LoadedStays
    <3> QED
      BY <3>1, <3>2, <3>3, <3>4 DEF Phases
  <2> QED
    BY <1>1, <2>1, <2>2
<1>5. CursorInv'
  BY <1>1 DEF Inv, CursorInv
<1> QED
  BY <1>2, <1>3, <1>4, <1>5 DEF Inv

LEMMA FrameworkStep == Inv /\ [Next]_vars => Inv'
<1> SUFFICES ASSUME Inv, [Next]_vars PROVE Inv'
  OBVIOUS
<1>1. CASE Framework
  BY <1>1, SetupKeeps, LoadDepKeeps, LoadModuleKeeps, LaunchKeeps, RunOneShotKeeps,
     RunTaskKeeps, LoopKeeps, UnloadKeeps, DrainKeeps DEF Framework
<1>2. CASE Message
  BY <1>2, MessageKeeps
<1>3. CASE UNCHANGED vars
  <2>1. /\ phase' = phase /\ stack' = stack /\ loading' = loading /\ active' = active
        /\ loaded' = loaded /\ periodic' = periodic /\ oneshot' = oneshot /\ at' = at
        /\ exit' = exit /\ queued' = queued /\ logged' = logged
    BY <1>3 DEF vars, loadVars, taskVars, logVars
  <2>2. TypeOK'
    BY <2>1 DEF Inv, TypeOK
  <2>3. FramesInv' /\ DependenciesFirst'
    BY <2>1, ListsStay
  <2>4. PrefixInv'
    <3>1. phase \in Phases
      BY DEF Inv, TypeOK
    <3>2. CASE phase = "unload"
      <4>1. /\ active' = active /\ loaded' = loaded
            /\ phase' = "unload" /\ (phase = "unload" /\ at' = at)
        BY <2>1, <3>2
      <4>2. UNCHANGED <<active, loaded>>
        BY <4>1
      <4> QED
        BY ONLY Inv, <4>1, <4>2, LoadedStays
    <3>3. CASE phase \in {"hung", "drain", "ended"}
      BY <2>1, <3>3, LoadedStays
    <3>4. CASE phase \in {"init", "load", "launch", "oneshot", "pass", "stop"}
      BY <2>1, <3>4, LoadedStays
    <3> QED
      BY <3>1, <3>2, <3>3, <3>4 DEF Phases
  <2>5. CursorInv'
    BY <2>1 DEF Inv, CursorInv
  <2> QED
    BY <2>2, <2>3, <2>4, <2>5 DEF Inv
<1> QED
  BY <1>1, <1>2, <1>3 DEF Next, Over

LEMMA FrameworkInvariant == Spec => []Inv
  BY FrameworkInit, FrameworkStep, PTL DEF Spec

-----------------------------------------------------------------------------
(* The theorems. *)

\* light_arraylist_append() checks no bound, and none is ever exceeded: the module lists
\* of light_framework_load_module() fit their arrays for every tree of at most
\* LF_STATIC_MODULES_MAX modules, and the task tables theirs.
THEOREM FrameworkTyping == Spec => []TypeOK
<1>1. Inv => TypeOK
  BY DEF Inv
<1> QED
  BY <1>1, FrameworkInvariant, PTL

\* Whatever the tree, light_framework_load_module() activates a module once, and after
\* everything it depends on.
THEOREM LoadOrder == Spec => []DependenciesFirst
<1>1. Inv => DependenciesFirst
  BY DEF Inv
<1> QED
  BY <1>1, FrameworkInvariant, PTL

LEMMA PrefixClosed == Inv => DependenciesLoaded
<1> SUFFICES ASSUME Inv, NEW m \in loaded, NEW d \in Elements(Deps[m])
             PROVE  d \in loaded
  BY DEF DependenciesLoaded
<1>1. PICK n \in 0..Len(active) : loaded = Prefix(n)
  BY DEF Inv, PrefixInv
<1>2. PICK i \in 1..n : m = active[i]
  BY <1>1 DEF Prefix
<1>3. Len(active) \in Nat /\ i \in DOMAIN active
  BY <1>1, <1>2, ActiveTypes
<1>4. PICK j \in 1..(i - 1) : active[j] = d
  BY <1>2, <1>3 DEF Inv, DependenciesFirst
<1> QED
  BY <1>1, <1>4 DEF Prefix

\* While a module is loaded so is everything it depends on, in the load, the run, and at
\* every step of light_framework_shutdown()'s walk backwards.
THEOREM UnloadOrder == Spec => []DependenciesLoaded
  BY PrefixClosed, FrameworkInvariant, PTL

LEMMA QueueInit == Sized /\ Init => QueueInv
  BY BoundsAssumption DEF Init, QueueInv

LEMMA QueueStep == Sized /\ TypeOK /\ QueueInv /\ [Next]_vars => QueueInv'
<1> SUFFICES ASSUME Sized, TypeOK, QueueInv, [Next]_vars PROVE QueueInv'
  OBVIOUS
<1>1. /\ BootLog \in Nat /\ PassLog \in Nat /\ StopLog \in Nat /\ Depth \in Nat
      /\ Big \in Nat /\ BootLog <= Big /\ PassLog <= Big
      /\ PassLog <= 1 /\ Big + StopLog <= Depth
  BY BoundsAssumption DEF Big, Sized
<1>2. queued \in Nat /\ logged \in Nat /\ phase \in Phases
  BY <1>1 DEF TypeOK
<1> HIDE DEF Big
<1>3. CASE Setup \/ LoadDep \/ LoadModule \/ Launch \/ RunOneShot
  BY <1>1, <1>2, <1>3
     DEF QueueInv, Setup, LoadDep, LoadModule, Launch, RunOneShot, Turn, logVars
<1>4. CASE OneShotsDone \/ RunTask \/ PassDone
  BY <1>1, <1>2, <1>4 DEF QueueInv, OneShotsDone, RunTask, PassDone, logVars, Statuses
<1>5. CASE RunService
  BY <1>1, <1>2, <1>5 DEF QueueInv, RunService, Fewer
<1>6. CASE Stop \/ Unload \/ Drain
  BY <1>1, <1>2, <1>6 DEF QueueInv, Stop, Unload, Drain, Turn, logVars
<1>7. CASE Message
  <2>1. queued < Depth
    BY <1>1, <1>2, <1>7 DEF QueueInv, Message, Logs, Booting, Stopping
  <2>2. phase' = phase /\ queued' = queued + 1 /\ logged' = logged + 1
    BY <1>7, <2>1 DEF Message
  <2> QED
    BY <1>1, <1>2, <1>7, <2>2 DEF QueueInv, Message, Logs, Booting, Stopping
<1>8. CASE UNCHANGED vars
  BY <1>8 DEF QueueInv, vars, logVars
<1> QED
  BY <1>3, <1>4, <1>5, <1>6, <1>7, <1>8 DEF Next, Framework, Over

\* The sizing rule.  One message a pass and no more, and a queue for everything logged
\* before the first pass together with everything logged after the last: then no log call
\* of a single-core target ever waits for the drain it would have to do itself.
THEOREM SizingRule == ASSUME Sized PROVE Spec => []NeverHangs
<1>1. Init => QueueInv
  BY Sized, QueueInit
<1>2. TypeOK /\ QueueInv /\ [Next]_vars => QueueInv'
  BY Sized, QueueStep
<1>3. QueueInv => NeverHangs
  BY DEF QueueInv, NeverHangs
<1> QED
  BY <1>1, <1>2, <1>3, FrameworkTyping, PTL DEF Spec

-----------------------------------------------------------------------------
(* The order of the tasks. *)

\* A task its owner registers in its MODULE_LOAD handler.
Early(t) == t.run \in {"main", "load"}

\* The early tasks follow the load order, and their owners are loaded.
Follows(tasks, act) ==
  \A i, j \in DOMAIN tasks :
    i <= j /\ Early(tasks[i]) /\ Early(tasks[j])
      => \E a, b \in DOMAIN act :
           a <= b /\ act[a] = tasks[i].owner /\ act[b] = tasks[j].owner

LEMMA RegisterFollows ==
  ASSUME NEW tasks, Table(tasks), NEW t \in Tasks, NEW act \in Seq(Modules), Follows(tasks, act),
         Early(t) => act # <<>> /\ t.owner = act[Len(act)]
  PROVE  Follows(Register(tasks, t), act)
<1>1. tasks \in Seq(Tasks) /\ Len(tasks) \in Nat /\ DOMAIN tasks = 1..Len(tasks)
  BY DEF Table
<1>2. Len(act) \in Nat /\ DOMAIN act = 1..Len(act)
  OBVIOUS
<1>3. CASE Len(tasks) < TasksMax
  <2> DEFINE u == Append(tasks, t)
  <2>1. Register(tasks, t) = u
    BY <1>3 DEF Register
  <2>2. /\ DOMAIN u = 1..(Len(tasks) + 1) /\ \A i \in 1..Len(tasks) : u[i] = tasks[i]
        /\ u[Len(tasks) + 1] = t
    BY <1>1, AppendSeq
  <2> HIDE DEF u
  <2>3. ASSUME NEW i \in DOMAIN u, NEW j \in DOMAIN u, i <= j, Early(u[i]), Early(u[j])
        PROVE  \E a, b \in DOMAIN act : a <= b /\ act[a] = u[i].owner /\ act[b] = u[j].owner
    <3>1. CASE j \in 1..Len(tasks)
      <4>1. i \in 1..Len(tasks) /\ u[i] = tasks[i] /\ u[j] = tasks[j]
        BY <1>1, <2>2, <2>3, <3>1
      <4> QED
        BY <1>1, <2>3, <3>1, <4>1 DEF Follows
    <3>2. CASE j = Len(tasks) + 1
      <4>1. Len(act) \in DOMAIN act /\ act[Len(act)] = u[j].owner
        BY <1>2, <2>2, <2>3, <3>2, EmptySeq
      <4>2. CASE i = j
        BY <1>2, <4>1, <4>2
      <4>3. CASE i \in 1..Len(tasks)
        <5>1. u[i] = tasks[i] /\ i <= i
          BY <1>1, <2>2, <4>3
        <5>2. PICK a \in DOMAIN act : act[a] = u[i].owner
          BY <1>1, <2>3, <4>3, <5>1 DEF Follows
        <5>3. a <= Len(act)
          BY <1>2
        <5> QED
          BY <4>1, <5>2, <5>3
      <4> QED
        BY <1>1, <2>2, <3>2, <4>2, <4>3
    <3> QED
      BY <1>1, <2>2, <3>1, <3>2
  <2> QED
    BY <2>1, <2>3 DEF Follows
<1>4. CASE ~ (Len(tasks) < TasksMax)
  BY <1>4 DEF Register
<1> QED
  BY <1>3, <1>4

LEMMA AppendFollows ==
  ASSUME NEW tasks, NEW act \in Seq(Modules), NEW m \in Modules, Follows(tasks, act)
  PROVE  Follows(tasks, Append(act, m))
<1> DEFINE u == Append(act, m)
<1>1. /\ DOMAIN act = 1..Len(act) /\ DOMAIN u = 1..(Len(act) + 1)
      /\ \A i \in 1..Len(act) : u[i] = act[i] /\ Len(act) \in Nat
  BY AppendSeq
<1> HIDE DEF u
<1>2. \A a \in DOMAIN act : a \in DOMAIN u /\ u[a] = act[a]
  BY <1>1
<1>3. Follows(tasks, u)
  BY <1>2 DEF Follows
<1> QED
  BY <1>3 DEF u

LEMMA CutFollows ==
  ASSUME NEW tasks, Table(tasks), NEW act, Follows(tasks, act), NEW i \in DOMAIN tasks
  PROVE  Follows(SubSeq(tasks, 1, i - 1) \o SubSeq(tasks, i + 1, Len(tasks)), act)
<1> DEFINE n == Len(tasks)
           s == SubSeq(tasks, 1, i - 1)
           r == SubSeq(tasks, i + 1, n)
           u == s \o r
<1>1. tasks \in Seq(Tasks) /\ n \in Nat /\ i \in 1..n /\ DOMAIN tasks = 1..n
  BY DEF Table
<1>2. \A j \in 1..n : tasks[j] \in Tasks
  BY <1>1, ElementOfSeq
<1>3. /\ s \in Seq(Tasks) /\ Len(s) = i - 1 /\ \A k \in 1..(i - 1) : s[k] = tasks[k]
  <2>1. \A j \in 1..(i - 1) : tasks[j] \in Tasks
    BY <1>1, <1>2
  <2>2. /\ s \in Seq(Tasks)
        /\ Len(s) = IF 1 <= i - 1 THEN i - 1 - 1 + 1 ELSE 0
        /\ \A k \in 1..(i - 1 - 1 + 1) : s[k] = tasks[1 + k - 1]
    BY <1>1, <2>1, SubSeqProperties
  <2> QED
    BY <1>1, <2>2
<1>4. /\ r \in Seq(Tasks) /\ Len(r) = n - i /\ \A k \in 1..(n - i) : r[k] = tasks[i + k]
  <2>1. \A j \in (i + 1)..n : tasks[j] \in Tasks
    BY <1>1, <1>2
  <2>2. /\ r \in Seq(Tasks)
        /\ Len(r) = IF i + 1 <= n THEN n - (i + 1) + 1 ELSE 0
        /\ \A k \in 1..(n - (i + 1) + 1) : r[k] = tasks[(i + 1) + k - 1]
    BY <1>1, <2>1, SubSeqProperties
  <2>3. n - (i + 1) + 1 = n - i /\ \A k \in 1..(n - i) : (i + 1) + k - 1 = i + k
    BY <1>1
  <2> QED
    BY <1>1, <2>2, <2>3
<1>5. /\ u \in Seq(Tasks) /\ Len(u) = Len(s) + Len(r)
      /\ \A k \in 1..(Len(s) + Len(r)) : u[k] = IF k <= Len(s) THEN s[k] ELSE r[k - Len(s)]
  BY <1>3, <1>4, ConcatProperties
<1> HIDE DEF s, r, u, n
<1>6. DOMAIN u = 1..(n - 1)
  BY <1>1, <1>3, <1>4, <1>5
<1> DEFINE from(k) == IF k < i THEN k ELSE k + 1
<1>7. ASSUME NEW k \in DOMAIN u
      PROVE  from(k) \in 1..n /\ u[k] = tasks[from(k)]
  <2>1. CASE k < i
    BY <1>1, <1>3, <1>4, <1>5, <1>6, <2>1
  <2>2. CASE ~ (k < i)
    <3>1. k - (i - 1) \in 1..(n - i) /\ i + (k - (i - 1)) = k + 1 /\ k + 1 \in 1..n
      BY <1>1, <1>6, <2>2
    <3>2. u[k] = r[k - (i - 1)]
      BY <1>1, <1>3, <1>4, <1>5, <1>6, <2>2
    <3> QED
      BY <1>4, <2>2, <3>1, <3>2
  <2> QED
    BY <2>1, <2>2
<1>8. \A k, l \in DOMAIN u : k <= l => from(k) <= from(l)
  BY <1>1, <1>6
<1> HIDE DEF from
<1>9. Follows(u, act)
  BY <1>1, <1>7, <1>8 DEF Follows
<1> QED
  BY <1>9 DEF u, s, r, n

LEMMA UnregisterFollows ==
  ASSUME NEW tasks, Table(tasks), NEW t \in Tasks, NEW act, Follows(tasks, act)
  PROVE  Follows(Unregister(tasks, t), act)
<1>1. CASE t \notin Elements(tasks)
  BY <1>1 DEF Unregister
<1>2. CASE t \in Elements(tasks)
  <2>1. PICK i \in DOMAIN tasks :
          Unregister(tasks, t) = SubSeq(tasks, 1, i - 1) \o SubSeq(tasks, i + 1, Len(tasks))
    BY <1>2, UnregisterCuts
  <2> QED
    BY <2>1, CutFollows
<1> QED
  BY <1>1, <1>2

\* Registered from APP_LAUNCH or from a task: not early.
LEMMA LaterFollows ==
  ASSUME Inv, Follows(periodic, active), NEW m \in Modules, MayRegister(m, "later", periodic)
  PROVE  Follows(periodic', active)
<1>1. Task(m, "later") \in Tasks /\ ~ Early(Task(m, "later"))
  BY DEF Task, Tasks, Runs, Early
<1>2. Follows(Register(periodic, Task(m, "later")), active)
  BY <1>1, ActiveTypes, RegisterFollows
<1> QED
  BY <1>2 DEF MayRegister

LEMMA LoadModuleFollows ==
  ASSUME Inv, Follows(periodic, active), LoadModule
  PROVE  Follows(periodic', active')
<1> DEFINE m == Top.mod
           act == Append(active, m)
           table == IF m = App THEN Register(periodic, MainTask) ELSE periodic
           t == Task(m, "load")
<1>1. /\ active' = act /\ m \in Modules
      /\ \/ periodic' = table
         \/ periodic' = Register(table, t)
  BY LoadModuleFrames DEF LoadModule, MayRegister
<1>2. act \in Seq(Modules) /\ act # <<>> /\ act[Len(act)] = m
  BY <1>1, ActiveTypes, AppendSeq
<1>3. Table(periodic) /\ MainTask \in Tasks /\ t \in Tasks /\ MainTask.owner = App /\ t.owner = m
  BY <1>1, ActiveTypes DEF MainTask, Task, Tasks, Runs
<1>4. Follows(periodic, act)
  BY <1>1, ActiveTypes, AppendFollows
<1> HIDE DEF t, act, m
<1>5. Follows(table, act) /\ Table(table)
  <2>1. CASE m = App
    <3>1. Follows(Register(periodic, MainTask), act)
      BY <1>2, <1>3, <1>4, <2>1, RegisterFollows
    <3> QED
      BY <1>3, <2>1, <3>1, RegisterTable
  <2>2. CASE m # App
    BY <1>3, <1>4, <2>2
  <2> QED
    BY <2>1, <2>2
<1> HIDE DEF table
<1>6. Follows(Register(table, t), act)
  BY <1>2, <1>3, <1>5, RegisterFollows
<1> QED
  BY <1>1, <1>5, <1>6

LEMMA FollowsStep == Inv /\ Follows(periodic, active) /\ [Next]_vars => Follows(periodic, active)'
<1> SUFFICES ASSUME Inv, Follows(periodic, active), [Next]_vars
             PROVE  Follows(periodic', active')
  BY DEF Follows
<1>1. CASE Setup
  <2>1. periodic' = Register(periodic, Service) /\ active' = active /\ ~ Early(Service)
    BY <1>1 DEF Setup, Service, Task, Early
  <2>2. Follows(Register(periodic, Service), active)
    BY <2>1, ActiveTypes, RegisterFollows
  <2> QED
    BY <2>1, <2>2
<1>2. CASE LoadModule
  BY <1>2, LoadModuleFollows
<1>3. CASE Launch
  <2>1. active' = active /\ MayRegister(active[at], "later", periodic) /\ active[at] \in Modules
    BY <1>3, ActiveTypes DEF Launch, loadVars, Inv, CursorInv
  <2> QED
    BY <2>1, LaterFollows
<1>4. CASE RunOneShot
  <2>1. active' = active /\ MayRegister(oneshot[at].owner, "later", periodic)
    BY <1>4 DEF RunOneShot, loadVars
  <2>2. oneshot[at] \in Tasks
    BY <1>4, ActiveTypes, ElementOfSeq DEF RunOneShot, Table
  <2>3. oneshot[at].owner \in Modules
    BY <2>2 DEF Tasks
  <2> QED
    BY <2>1, <2>3, LaterFollows
<1>5. CASE RunTask
  <2>1. active' = active /\ MayRegister(periodic[at].owner, "later", periodic)
    BY <1>5 DEF RunTask, loadVars
  <2>2. periodic[at] \in Tasks
    BY <1>5, ActiveTypes, ElementOfSeq DEF RunTask, Table
  <2>3. periodic[at].owner \in Modules
    BY <2>2 DEF Tasks
  <2> QED
    BY <2>1, <2>3, LaterFollows
<1>6. CASE Unload
  <2>1. active' = active /\ (periodic' = periodic \/ periodic' = Unregister(periodic, MainTask))
    BY <1>6 DEF Unload
  <2>2. Follows(Unregister(periodic, MainTask), active)
    BY ActiveTypes, UnregisterFollows
  <2> QED
    BY <2>1, <2>2
<1>7. CASE LoadDep \/ OneShotsDone \/ RunService \/ PassDone \/ Stop \/ Drain \/ Message \/ UNCHANGED vars
  <2>1. active' = active /\ periodic' = periodic
    BY <1>7 DEF LoadDep, OneShotsDone, RunService, PassDone, Stop, Drain, Message,
                vars, loadVars, taskVars
  <2> QED
    BY <2>1
<1> QED
  BY <1>1, <1>2, <1>3, <1>4, <1>5, <1>6, <1>7 DEF Next, Framework, Over

\* A module stands where the load order has it.
LEMMA PositionIs ==
  ASSUME Inv, NEW a \in DOMAIN active
  PROVE  Position(active[a]) = a
<1>1. active \in Seq(Modules) /\ DOMAIN active = 1..Len(active) /\ Len(active) \in Nat
  BY ActiveTypes
<1>2. \A i \in DOMAIN active : active[i] = active[a] => i = a
  <2>1. \A i \in DOMAIN active : \A j \in 1..(i - 1) : active[j] # active[i]
    BY DEF Inv, DependenciesFirst
  <2> QED
    BY <1>1, <2>1
<1>3. active[a] \in Elements(active)
  BY DEF Elements
<1> QED
  BY <1>2, <1>3 DEF Position

\* Whatever the tree and whoever registers, the tasks that modules register while they are
\* loaded run in load order, so that a module's task comes before those of its dependents:
\* what the comment in cli_task() relies on.
THEOREM TaskOrder == Spec => []TasksFollowLoadOrder
<1>1. Init => Follows(periodic, active)
  BY DEF Init, Follows
<1>2. Inv /\ Follows(periodic, active) => TasksFollowLoadOrder
  <2> SUFFICES ASSUME Inv, Follows(periodic, active),
                      NEW i \in DOMAIN periodic, NEW j \in DOMAIN periodic, i < j,
                      Early(periodic[i]), Early(periodic[j])
               PROVE  Position(periodic[i].owner) <= Position(periodic[j].owner)
    BY DEF TasksFollowLoadOrder, Early
  <2>1. i <= j
    BY ActiveTypes DEF Table
  <2>2. PICK a \in DOMAIN active, b \in DOMAIN active :
          a <= b /\ active[a] = periodic[i].owner /\ active[b] = periodic[j].owner
    BY <2>1 DEF Follows
  <2>3. Position(active[a]) = a /\ Position(active[b]) = b
    BY PositionIs
  <2> QED
    BY <2>2, <2>3
<1> QED
  BY <1>1, <1>2, FollowsStep, FrameworkInvariant, PTL DEF Spec

-----------------------------------------------------------------------------
(* The last lines, and the result. *)

\* The drain of the shutdown has at least as many turns left as there are messages.
DrainInv ==
  /\ phase = "drain" => queued + at <= MaxStreams * Depth + 1
  /\ phase = "ended" => queued = 0

LEMMA DrainFits == MaxStreams * Depth \in Nat /\ Depth <= MaxStreams * Depth
<1>1. MaxStreams \in Nat /\ MaxStreams >= 1 /\ Depth \in Nat
  BY BoundsAssumption
<1>2. \A a, d \in Nat : a >= 1 => a * d \in Nat /\ d <= a * d
  BY Z3
<1> QED
  BY <1>1, <1>2

\* light_stream_shutdown() makes turns enough to write what the queue holds, however full
\* it is when the last module is unloaded.
THEOREM LastLines == Spec => []LastLinesWritten
<1>1. Init => DrainInv
  BY DEF Init, DrainInv
<1>2. TypeOK /\ DrainInv /\ [Next]_vars => DrainInv'
  <2> SUFFICES ASSUME TypeOK, DrainInv, [Next]_vars PROVE DrainInv'
    OBVIOUS
  <2> DEFINE turns == MaxStreams * Depth
  <2>1. /\ turns \in Nat /\ Depth <= turns /\ Depth \in Nat
        /\ queued \in 0..Depth /\ at \in Nat \ {0}
    BY DrainFits, BoundsAssumption DEF TypeOK
  <2>2. /\ phase = "drain" => queued + at <= turns + 1
        /\ phase = "ended" => queued = 0
    BY DEF DrainInv
  <2> SUFFICES /\ phase' = "drain" => queued' + at' <= turns + 1
               /\ phase' = "ended" => queued' = 0
    BY DEF DrainInv
  <2>3. CASE Drain
    <3>1. /\ phase = "drain"
          /\ \/ (queued = 0 \/ at > turns) /\ phase' = "ended" /\ queued' = queued
             \/ phase' = "drain" /\ at' = at + 1 /\ queued' = queued - 1
      BY <2>3 DEF Drain
    <3> HIDE DEF turns
    <3> QED
      BY <2>1, <2>2, <3>1
  <2> HIDE DEF turns
  <2>4. CASE Unload
    <3>1. /\ queued' = queued
          /\ (phase' = "drain" => at' = 1) /\ phase' \in {"unload", "drain"}
      BY <2>4 DEF Unload, Turn, logVars
    <3> QED
      BY <2>1, <3>1
  <2>5. CASE Setup \/ LoadDep \/ LoadModule \/ Launch \/ RunOneShot \/ OneShotsDone \/ RunService
             \/ RunTask \/ PassDone \/ Stop
    <3>1. phase' \notin {"drain", "ended"}
      BY <2>5 DEF Setup, LoadDep, LoadModule, Launch, RunOneShot, OneShotsDone, RunService,
                  RunTask, PassDone, Stop, Turn
    <3> QED
      BY <3>1
  <2>6. CASE Message
    <3>1. phase' \notin {"drain", "ended"}
      BY <2>6 DEF Message, Logs, Booting, Stopping
    <3> QED
      BY <3>1
  <2>7. CASE UNCHANGED vars
    BY <2>2, <2>7 DEF vars, logVars
  <2> QED
    BY <2>3, <2>4, <2>5, <2>6, <2>7 DEF Next, Framework, Over
<1>3. DrainInv => LastLinesWritten
  BY DEF DrainInv, LastLinesWritten
<1> QED
  BY <1>1, <1>2, <1>3, FrameworkTyping, PTL DEF Spec

\* No later task, and no step of the shutdown, overwrites an error in exit_status.
THEOREM ErrorsKept == Spec => ErrorsReachTheCaller
<1>1. [Next]_vars => [exit = "error" => exit' = "error"]_vars
  BY DEF Next, Framework, Setup, LoadDep, LoadModule, Launch, RunOneShot, OneShotsDone,
         RunService, RunTask, PassDone, Stop, Unload, Drain, Message, Over, vars
<1> QED
  BY <1>1, PTL DEF Spec, ErrorsReachTheCaller

=============================================================================
