------------------------- MODULE LightObjectProofs -------------------------
(***************************************************************************)
(* Theorems about LightObject, for any finite sets of threads and objects, *)
(* any makers, and each of the three ports: counts are exact, the release  *)
(* hook runs once, and nothing is used after it.                           *)
(*                                                                         *)
(* The count of an object is a number and its references are spread over   *)
(* threads, links and calls in progress, so the proof is one of counting:  *)
(* the first lemmas say what a step does to each of the three sets, and    *)
(* then each conjunct of the inductive invariant has a lemma with one step *)
(* for each action.                                                        *)
(***************************************************************************)
EXTENDS LightObject, FiniteSetTheorems, TLAPS

-----------------------------------------------------------------------------
(* The inductive invariant. *)

\* A call in progress has its arguments, and a thread that has none has none.
CallInv ==
  \A t \in Threads :
    /\ pc[t] # "idle" => obj[t] \in Objects
    /\ pc[t] \in {"attach", "detached"} => par[t] \in Objects

\* The mutex is held across steps by an attach alone, and what it attaches is linked.
SectionInv ==
  /\ mutex # None => pc[mutex] = "attach"
  /\ \A t \in Threads : pc[t] = "attach" => mutex = t /\ parent[obj[t]] = par[t]

\* On the host a call that expects the count to be zero is right: zero is for ever.
ZeroInv ==
  port = "host" => \A t \in Threads :
    /\ pc[t] \in {"get", "put"} /\ old[t] = 0 => count[obj[t]] = 0
    /\ pc[t] = "attach" /\ old[t] = 0 => count[par[t]] = 0

\* The one caller that wrote the zero is on its way to release the object.
ReleaseInv ==
  \A t \in Threads : pc[t] = "release" =>
    /\ count[obj[t]] = 0 /\ released[obj[t]] = 0 /\ ~static[obj[t]]
    /\ \A u \in Threads : u # t /\ pc[u] = "release" => obj[u] # obj[t]

\* The discipline of callers holds throughout a call: the thread still has the
\* references with which it named its arguments.
NameInv ==
  \A t \in Threads :
    /\ pc[t] \in {"get", "attach", "added", "detached"} => CanName(t, obj[t])
    /\ pc[t] \in {"attach", "added"} /\ par[t] # None => CanName(t, par[t])

\* What a link or a put in progress refers to is alive, unless its storage is static.
AliveInv ==
  /\ \A c \in Objects : parent[c] # None =>
       count[parent[c]] # 0 \/ parent[c] \in StaticStorage
  /\ \A t \in Threads :
       /\ pc[t] = "put" => count[obj[t]] # 0 \/ obj[t] \in StaticStorage
       /\ pc[t] = "detached" => count[par[t]] # 0 \/ par[t] \in StaticStorage

\* The flag is_static is never written after the object's initialisation, and an object
\* that has it is never released.
StaticInv == static = [o \in Objects |-> o \in Declared \cup Singletons]
NeverReleased == \A o \in Declared \cup Singletons : released[o] = 0

IInv ==
  /\ TypeOK /\ CallInv /\ SectionInv /\ ZeroInv
  /\ CountIsReferences /\ ReleasedOnce /\ ReleaseInv
  /\ NameInv /\ AliveInv
  /\ StaticInv /\ NeverReleased

USE MakerAssumption, HeldAssumption, PortsAssumption, NamesAssumption

-----------------------------------------------------------------------------
(* The three sets that a count counts are finite. *)

LEMMA HeldByFinite ==
  ASSUME TypeOK, NEW o \in Objects
  PROVE  IsFiniteSet(HeldBy(o))
<1> DEFINE Tokens(t) == {t} \X (1..held[t][o])
           S == {Tokens(t) : t \in Threads}
<1>1. IsFiniteSet(Threads)
  OBVIOUS
<1>2. IsFiniteSet(S)
  <2> DEFINE f == [t \in Threads |-> Tokens(t)]
  <2>1. f \in [Threads -> S] /\ \A T \in S : \E t \in Threads : f[t] = T
    OBVIOUS
  <2>2. f \in Surjection(Threads, S)
    BY <2>1 DEF Surjection
  <2> QED
    BY <1>1, <2>2, FS_Surjection
<1>3. \A T \in S : IsFiniteSet(T)
  <2> SUFFICES ASSUME NEW t \in Threads PROVE IsFiniteSet(Tokens(t))
    OBVIOUS
  <2>1. held[t][o] \in Nat
    BY DEF TypeOK
  <2>2. IsFiniteSet(1..held[t][o])
    BY <2>1, FS_Interval
  <2>3. IsFiniteSet({t})
    BY FS_Singleton
  <2> QED
    BY <2>2, <2>3, FS_Product
<1> QED
  BY <1>2, <1>3, FS_UNION DEF HeldBy

LEMMA CountsFinite ==
  ASSUME TypeOK, NEW o \in Objects
  PROVE  /\ IsFiniteSet(HeldBy(o)) /\ IsFiniteSet(LinkedTo(o)) /\ IsFiniteSet(PutBy(o))
         /\ Cardinality(HeldBy(o)) \in Nat
         /\ Cardinality(LinkedTo(o)) \in Nat
         /\ Cardinality(PutBy(o)) \in Nat
         /\ (Cardinality(HeldBy(o)) = 0 <=> HeldBy(o) = {})
         /\ (Cardinality(LinkedTo(o)) = 0 <=> LinkedTo(o) = {})
         /\ (Cardinality(PutBy(o)) = 0 <=> PutBy(o) = {})
<1>1. IsFiniteSet(HeldBy(o))
  BY HeldByFinite
<1>2. IsFiniteSet(LinkedTo(o))
  <2>1. LinkedTo(o) \in SUBSET Objects
    BY DEF LinkedTo
  <2> QED
    BY <2>1, FS_Subset
<1>3. IsFiniteSet(PutBy(o))
  <2>1. PutBy(o) \in SUBSET Threads
    BY DEF PutBy
  <2> QED
    BY <2>1, FS_Subset
<1> QED
  BY <1>1, <1>2, <1>3, FS_CardinalityType, FS_EmptySet

\* An element more, and an element less.
LEMMA OneMore ==
  ASSUME NEW S, IsFiniteSet(S), NEW x, x \notin S
  PROVE  Cardinality(S \cup {x}) = Cardinality(S) + 1
  BY FS_AddElement

LEMMA OneLess ==
  ASSUME NEW S, IsFiniteSet(S), NEW x, x \in S
  PROVE  Cardinality(S \ {x}) = Cardinality(S) - 1
  BY FS_RemoveElement

\* A thread that holds nothing of o has no token, one that holds something has.
LEMMA NoToken ==
  ASSUME TypeOK, NEW o \in Objects
  PROVE  HeldBy(o) = {} <=> \A t \in Threads : held[t][o] = 0
<1>1. \A t \in Threads : held[t][o] \in Nat
  BY DEF TypeOK
<1>2. ASSUME NEW t \in Threads, held[t][o] # 0
      PROVE  <<t, 1>> \in HeldBy(o)
  BY <1>1, <1>2 DEF HeldBy
<1>3. ASSUME \A t \in Threads : held[t][o] = 0
      PROVE  HeldBy(o) = {}
  BY <1>3 DEF HeldBy
<1> QED
  BY <1>2, <1>3

\* The tokens of o when g says how many references each thread has; HeldBy is Tokens
\* of held before a step and of held' after it.
Holdings == [Threads -> [Objects -> Nat]]
Tokens(g, o) == UNION {{t} \X (1..g[t][o]) : t \in Threads}

\* What is a token.
LEMMA TokenIn ==
  ASSUME NEW g, NEW o, NEW x
  PROVE  x \in Tokens(g, o) <=> \E t \in Threads : \E n \in 1..g[t][o] : x = <<t, n>>
  BY DEF Tokens

LEMMA TokenPair ==
  ASSUME NEW g, NEW o, NEW t \in Threads, NEW n
  PROVE  <<t, n>> \in Tokens(g, o) <=> n \in 1..g[t][o]
  BY TokenIn

\* Equal holdings give equal tokens, one reference more or less one token more or less.
LEMMA TokensSame ==
  ASSUME NEW g \in Holdings, NEW h \in Holdings, NEW o \in Objects, NEW p \in Objects,
         \A t \in Threads : h[t][o] = g[t][p]
  PROVE  Tokens(h, o) = Tokens(g, p)
<1> SUFFICES ASSUME NEW x PROVE x \in Tokens(h, o) <=> x \in Tokens(g, p)
  OBVIOUS
<1> QED
  BY TokenIn

LEMMA TokensUp ==
  ASSUME NEW g \in Holdings, NEW h \in Holdings, NEW o \in Objects, NEW t \in Threads,
         h[t][o] = g[t][o] + 1, \A u \in Threads \ {t} : h[u][o] = g[u][o]
  PROVE  /\ Tokens(h, o) = Tokens(g, o) \cup {<<t, g[t][o] + 1>>}
         /\ <<t, g[t][o] + 1>> \notin Tokens(g, o)
<1>0. \A u \in Threads : g[u][o] \in Nat /\ h[u][o] \in Nat
  BY DEF Holdings
<1>1. ASSUME NEW x
      PROVE  x \in Tokens(h, o) <=> x \in Tokens(g, o) \/ x = <<t, g[t][o] + 1>>
  <2>1. CASE \E u \in Threads : \E n \in Int : x = <<u, n>>
    <3>1. PICK u \in Threads, n \in Int : x = <<u, n>>
      BY <2>1
    <3>2. x \in Tokens(h, o) <=> n \in 1..h[u][o]
      BY <3>1, TokenPair
    <3>3. x \in Tokens(g, o) <=> n \in 1..g[u][o]
      BY <3>1, TokenPair
    <3>4. x = <<t, g[t][o] + 1>> <=> u = t /\ n = g[t][o] + 1
      BY <3>1
    <3> QED
      BY <1>0, <3>2, <3>3, <3>4
  <2>2. CASE ~ \E u \in Threads : \E n \in Int : x = <<u, n>>
    BY <1>0, <2>2, TokenIn
  <2> QED
    BY <2>1, <2>2
<1>2. <<t, g[t][o] + 1>> \notin Tokens(g, o)
  BY <1>0, TokenPair
<1> QED
  BY <1>1, <1>2

LEMMA TokensDown ==
  ASSUME NEW g \in Holdings, NEW h \in Holdings, NEW o \in Objects, NEW t \in Threads,
         g[t][o] > 0,
         h[t][o] = g[t][o] - 1, \A u \in Threads \ {t} : h[u][o] = g[u][o]
  PROVE  /\ Tokens(h, o) = Tokens(g, o) \ {<<t, g[t][o]>>}
         /\ <<t, g[t][o]>> \in Tokens(g, o)
<1>1. Tokens(g, o) = Tokens(h, o) \cup {<<t, h[t][o] + 1>>} /\ <<t, h[t][o] + 1>> \notin Tokens(h, o)
  <2>1. g[t][o] = h[t][o] + 1
    BY DEF Holdings
  <2>2. \A u \in Threads \ {t} : g[u][o] = h[u][o]
    OBVIOUS
  <2> QED
    BY <2>1, <2>2, TokensUp
<1>2. h[t][o] + 1 = g[t][o]
  BY DEF Holdings
<1> QED
  BY <1>1, <1>2

\* The two spellings agree.
LEMMA HeldTokens ==
  ASSUME NEW o
  PROVE  HeldBy(o) = Tokens(held, o) /\ HeldBy(o)' = Tokens(held', o)
  BY DEF HeldBy, Tokens

LEMMA HeldTyped ==
  ASSUME TypeOK, NEW t \in Threads, NEW o \in Objects
  PROVE  held[t][o] \in Nat
  BY DEF TypeOK

\* held is a table of references before and after a step, and the step adds n to what
\* thread t holds of o.
HeldStep(t, o, n) ==
  /\ held \in Holdings /\ held' \in Holdings
  /\ \A u \in Threads : \A p \in Objects :
       held'[u][p] = IF u = t /\ p = o THEN held[u][p] + n ELSE held[u][p]

LEMMA HeldStepUp ==
  ASSUME TypeOK, NEW t \in Threads, NEW o \in Objects, held' = [held EXCEPT ![t][o] = @ + 1]
  PROVE  HeldStep(t, o, 1)
  BY DEF TypeOK, Holdings, HeldStep

LEMMA HeldStepDown ==
  ASSUME TypeOK, NEW t \in Threads, NEW o \in Objects, held[t][o] > 0,
         held' = [held EXCEPT ![t][o] = @ - 1]
  PROVE  HeldStep(t, o, -1)
  BY DEF TypeOK, Holdings, HeldStep

LEMMA OtherTokens ==
  ASSUME NEW t \in Threads, NEW o \in Objects, NEW n \in Int, HeldStep(t, o, n),
         NEW p \in Objects, p # o
  PROVE  HeldBy(p)' = HeldBy(p)
<1>1. \A u \in Threads : held'[u][p] = held[u][p]
  BY DEF HeldStep
<1>2. held \in Holdings /\ held' \in Holdings
  BY DEF HeldStep
<1>3. Tokens(held', p) = Tokens(held, p)
  BY <1>1, <1>2, TokensSame
<1> QED
  BY <1>3, HeldTokens

\* One reference more, or one less, is one token more or less.
LEMMA TokenMore ==
  ASSUME NEW t \in Threads, NEW o \in Objects, HeldStep(t, o, 1)
  PROVE  /\ HeldBy(o)' = HeldBy(o) \cup {<<t, held[t][o] + 1>>}
         /\ <<t, held[t][o] + 1>> \notin HeldBy(o)
<1>1. held'[t][o] = held[t][o] + 1
  BY DEF HeldStep
<1>2. \A u \in Threads \ {t} : held'[u][o] = held[u][o]
  BY DEF HeldStep
<1>3. held \in Holdings /\ held' \in Holdings
  BY DEF HeldStep
<1>4. /\ Tokens(held', o) = Tokens(held, o) \cup {<<t, held[t][o] + 1>>}
      /\ <<t, held[t][o] + 1>> \notin Tokens(held, o)
  BY <1>1, <1>2, <1>3, TokensUp
<1> QED
  BY <1>4, HeldTokens

LEMMA TokenLess ==
  ASSUME NEW t \in Threads, NEW o \in Objects, held[t][o] > 0, HeldStep(t, o, -1)
  PROVE  /\ HeldBy(o)' = HeldBy(o) \ {<<t, held[t][o]>>}
         /\ <<t, held[t][o]>> \in HeldBy(o)
<1>1. held'[t][o] = held[t][o] - 1
  BY DEF HeldStep, Holdings
<1>2. \A u \in Threads \ {t} : held'[u][o] = held[u][o]
  BY DEF HeldStep
<1>3. held \in Holdings /\ held' \in Holdings
  BY DEF HeldStep
<1>4. /\ Tokens(held', o) = Tokens(held, o) \ {<<t, held[t][o]>>}
      /\ <<t, held[t][o]>> \in Tokens(held, o)
  BY <1>1, <1>2, <1>3, TokensDown
<1> QED
  BY <1>4, HeldTokens

\* A reference handed on is a token exchanged for another.
Handed(t, u, o) ==
  \A v \in Threads : \A p \in Objects :
    held'[v][p] = IF v = t /\ p = o THEN held[v][p] - 1
                  ELSE IF v = u /\ p = o THEN held[v][p] + 1 ELSE held[v][p]

LEMMA HandStep ==
  ASSUME TypeOK, NEW t \in Threads, NEW u \in Threads, u # t, NEW o \in Objects,
         held' = [held EXCEPT ![t][o] = @ - 1, ![u][o] = @ + 1]
  PROVE  Handed(t, u, o)
  BY DEF TypeOK, Handed

LEMMA TokenMoves ==
  ASSUME held \in Holdings, held' \in Holdings, TypeOK,
         NEW t \in Threads, NEW u \in Threads, u # t, NEW o \in Objects,
         held[t][o] > 0, Handed(t, u, o)
  PROVE  /\ Cardinality(HeldBy(o)') = Cardinality(HeldBy(o))
         /\ HeldBy(o) # {}
         /\ \A p \in Objects : p # o => HeldBy(p)' = HeldBy(p)
<1> USE DEF Handed
<1>1. PICK g \in Holdings : \A v \in Threads : \A p \in Objects :
        g[v][p] = IF v = t /\ p = o THEN held[v][p] - 1 ELSE held[v][p]
  <2> DEFINE e == [held EXCEPT ![t][o] = @ - 1]
  <2>1. e \in Holdings
    BY HeldTyped DEF Holdings
  <2>2. \A v \in Threads : \A p \in Objects :
          e[v][p] = IF v = t /\ p = o THEN held[v][p] - 1 ELSE held[v][p]
    BY DEF Holdings
  <2> QED
    BY <2>1, <2>2
<1>2. held[t][o] \in Nat
  BY HeldTyped
<1>4. /\ Tokens(g, o) = Tokens(held, o) \ {<<t, held[t][o]>>}
      /\ <<t, held[t][o]>> \in Tokens(held, o)
  <2>1. g[t][o] = held[t][o] - 1
    BY <1>1
  <2>2. \A v \in Threads \ {t} : g[v][o] = held[v][o]
    BY <1>1
  <2> QED
    BY <1>1, <1>2, <2>1, <2>2, TokensDown
<1>5. /\ Tokens(held', o) = Tokens(g, o) \cup {<<u, g[u][o] + 1>>}
      /\ <<u, g[u][o] + 1>> \notin Tokens(g, o)
  <2>1. held'[u][o] = g[u][o] + 1
    BY <1>1
  <2>2. \A v \in Threads \ {u} : held'[v][o] = g[v][o]
    BY <1>1
  <2> QED
    BY <1>1, <2>1, <2>2, TokensUp
<1>6. IsFiniteSet(Tokens(held, o))
  BY HeldByFinite, HeldTokens
<1>7. IsFiniteSet(Tokens(g, o)) /\ Cardinality(Tokens(g, o)) = Cardinality(Tokens(held, o)) - 1
  <2> DEFINE x == <<t, held[t][o]>>
  <2>1. IsFiniteSet(Tokens(held, o) \ {x})
    BY <1>6, FS_RemoveElement
  <2>2. Cardinality(Tokens(held, o) \ {x}) = Cardinality(Tokens(held, o)) - 1
    BY <1>4, <1>6, OneLess
  <2> QED
    BY <1>4, <2>1, <2>2
<1>8. Cardinality(Tokens(held', o)) = Cardinality(Tokens(g, o)) + 1
  BY <1>5, <1>7, OneMore
<1>9. Cardinality(Tokens(held, o)) \in Nat
  BY <1>6, FS_CardinalityType
<1>10. ASSUME NEW p \in Objects, p # o
       PROVE  Tokens(held', p) = Tokens(held, p)
  <2>1. \A v \in Threads : held'[v][p] = held[v][p]
    BY <1>10
  <2> QED
    BY <2>1, TokensSame
<1> QED
  BY <1>4, <1>7, <1>8, <1>9, <1>10, HeldTokens

-----------------------------------------------------------------------------
(* A step is a step of one thread. *)

Step(t) ==
  \/ \E o \in Objects :
       \/ Get(t, o) \/ Put(t, o) \/ Del(t, o)
       \/ \E p \in Objects : Add(t, o, p)
       \/ \E u \in Threads : Hand(t, u, o)
  \/ GetRefused(t) \/ GetDone(t) \/ PutRefused(t) \/ PutDone(t) \/ Release(t) \/ Retry(t)
  \/ Attached(t) \/ AddEvents(t) \/ DelEvent(t)
  \/ port # "host" /\ mutex = None /\ (SectionGet(t) \/ SectionPut(t))
  \/ port # "host" /\ SectionAttached(t)

\* A step of Next is a step of one thread, and the port stays what it was.
LEMMA StepCases ==
  ASSUME Next
  PROVE  port' = port /\ \E t \in Threads : Step(t)
  BY DEF Next, Goes, Calls, Steps, Step, Rp2Get, Rp2Put, Rp2Attached, StmGet, StmPut,
         StmAttached, Rp2Section, StmSection

\* Either put: the count goes down by one unless it is zero, and the call goes on to
\* the release or returns.
PutEffect(t) ==
  /\ pc[t] = "put"
  /\ count' = [count EXCEPT ![obj[t]] = IF @ = 0 THEN 0 ELSE @ - 1]
  /\ \/ count[obj[t]] = 1 /\ static[obj[t]] = FALSE /\ At(t, "release") /\ UNCHANGED callVars
     \/ (count[obj[t]] = 1 => static[obj[t]]) /\ Return(t)
  /\ UNCHANGED <<static, treeVars, released, held>>

\* The exchanges of the host and the sections of the other ports do the same to a put.
LEMMA PutDoneEffect ==
  ASSUME TypeOK, CallInv, NEW t \in Threads, PutDone(t)
  PROVE  PutEffect(t) /\ old[t] # 0 /\ count[obj[t]] = old[t]
<1>1. pc[t] = "put" /\ Exchange(t, obj[t], old[t] - 1) /\ UNCHANGED <<static, treeVars, released, held>>
  BY DEF PutDone
<1>2. \/ (old[t] = 1 /\ ~static[obj[t]]) /\ At(t, "release") /\ UNCHANGED callVars
      \/ ~(old[t] = 1 /\ ~static[obj[t]]) /\ Return(t)
  BY DEF PutDone
<1>3. static[obj[t]] \in BOOLEAN /\ obj[t] \in Objects
  BY <1>1 DEF TypeOK, CallInv
<1>4. old[t] # 0 /\ count[obj[t]] = old[t]
  BY <1>1 DEF Exchange
<1>5. count' = [count EXCEPT ![obj[t]] = IF @ = 0 THEN 0 ELSE @ - 1]
  BY <1>1, <1>3 DEF Exchange, TypeOK
<1>6. CASE (old[t] = 1 /\ ~static[obj[t]]) /\ At(t, "release") /\ UNCHANGED callVars
  BY <1>1, <1>3, <1>4, <1>5, <1>6, Zenon DEF PutEffect
<1>7. CASE ~(old[t] = 1 /\ ~static[obj[t]]) /\ Return(t)
  BY <1>1, <1>3, <1>4, <1>5, <1>7, Zenon DEF PutEffect
<1> QED
  BY <1>2, <1>4, <1>6, <1>7

LEMMA SectionPutEffect ==
  ASSUME TypeOK, CallInv, NEW t \in Threads, SectionPut(t)
  PROVE  PutEffect(t)
<1>1. pc[t] = "put" /\ LockedPut(obj[t]) /\ UNCHANGED <<static, treeVars, released, held>>
  BY DEF SectionPut
<1>2. \/ (count[obj[t]] = 1 /\ ~static[obj[t]]) /\ At(t, "release") /\ UNCHANGED callVars
      \/ ~(count[obj[t]] = 1 /\ ~static[obj[t]]) /\ Return(t)
  BY DEF SectionPut, Died
<1>3. static[obj[t]] \in BOOLEAN /\ obj[t] \in Objects
  BY <1>1 DEF TypeOK, CallInv
<1>4. CASE (count[obj[t]] = 1 /\ ~static[obj[t]]) /\ At(t, "release") /\ UNCHANGED callVars
  BY <1>1, <1>3, <1>4, Zenon DEF PutEffect, LockedPut
<1>5. CASE ~(count[obj[t]] = 1 /\ ~static[obj[t]]) /\ Return(t)
  BY <1>1, <1>3, <1>5, Zenon DEF PutEffect, LockedPut
<1> QED
  BY <1>2, <1>4, <1>5

\* Any step of a thread, with the two puts told by their effect.
Effect(t) ==
  \/ \E o \in Objects :
       \/ Get(t, o) \/ Put(t, o) \/ Del(t, o)
       \/ \E p \in Objects : Add(t, o, p)
       \/ \E u \in Threads : Hand(t, u, o)
  \/ GetRefused(t) \/ GetDone(t) \/ PutRefused(t) \/ PutEffect(t) \/ Release(t) \/ Retry(t)
  \/ Attached(t) \/ AddEvents(t) \/ DelEvent(t)
  \/ port # "host" /\ SectionGet(t)
  \/ port # "host" /\ SectionAttached(t)

LEMMA StepEffect ==
  ASSUME TypeOK, CallInv, NEW t \in Threads, Step(t)
  PROVE  Effect(t)
  BY PutDoneEffect, SectionPutEffect DEF Step, Effect

\* Where a step that does not put leaves its thread.
LEMMA Whereabouts ==
  ASSUME NEW t \in Threads, Effect(t), ~PutEffect(t)
  PROVE  \/ pc' = pc /\ obj' = obj /\ par' = par
         \/ \E where \in {"idle", "get", "attach", "added"} : At(t, where)
         \/ \E o \in Objects : Put(t, o) \/ Del(t, o)
         \/ DelEvent(t)
<1>1. ASSUME NEW o \in Objects, Get(t, o)
      PROVE  At(t, "get")
  BY <1>1 DEF Get
<1>2. ASSUME NEW o \in Objects, NEW p \in Objects, Add(t, o, p)
      PROVE  At(t, "attach")
  BY <1>2 DEF Add
<1>3. ASSUME Attached(t) \/ SectionAttached(t)
      PROVE  At(t, "added")
  BY <1>3 DEF Attached, SectionAttached
<1>4. ASSUME GetRefused(t) \/ GetDone(t) \/ PutRefused(t) \/ Release(t) \/ AddEvents(t) \/ SectionGet(t)
      PROVE  At(t, "idle")
  BY <1>4 DEF GetRefused, GetDone, PutRefused, Release, AddEvents, SectionGet, Return
<1>5. ASSUME Retry(t) \/ \E u \in Threads, o \in Objects : Hand(t, u, o)
      PROVE  pc' = pc /\ obj' = obj /\ par' = par
  BY <1>5 DEF Retry, Reload, Hand, callVars
<1> QED
  BY <1>1, <1>2, <1>3, <1>4, <1>5 DEF Effect

\* Types are kept.
LEMMA TypeOKStep ==
  ASSUME TypeOK, CallInv, port' = port, NEW t \in Threads, Effect(t)
  PROVE  TypeOK'
<1>1. ASSUME NEW o \in Objects, Get(t, o)
     PROVE  TypeOK'
  BY <1>1 DEF Get, At, Load, treeVars, callVars, TypeOK, CallInv
<1>2. ASSUME GetRefused(t)
     PROVE  TypeOK'
  BY <1>2 DEF GetRefused, Return, At, SeesZero, treeVars, callVars, TypeOK, CallInv
<1>3. ASSUME GetDone(t)
     PROVE  TypeOK'
  BY <1>3 DEF GetDone, Return, At, Exchange, treeVars, callVars, TypeOK, CallInv
<1>4. ASSUME NEW o \in Objects, Put(t, o)
     PROVE  TypeOK'
  BY <1>4 DEF Put, At, Load, treeVars, callVars, TypeOK, CallInv
<1>5. ASSUME PutRefused(t)
     PROVE  TypeOK'
  BY <1>5 DEF PutRefused, Return, At, SeesZero, treeVars, callVars, TypeOK, CallInv
<1>6. ASSUME PutEffect(t)
     PROVE  TypeOK'
  <2>1. /\ pc[t] = "put" /\ UNCHANGED <<static, parent, mutex, released, held>>
        /\ count' = [count EXCEPT ![obj[t]] = IF @ = 0 THEN 0 ELSE @ - 1]
    BY <1>6 DEF PutEffect, treeVars
  <2>2. CASE count[obj[t]] = 1 /\ static[obj[t]] = FALSE /\ At(t, "release") /\ UNCHANGED callVars
    BY <2>1, <2>2 DEF At, callVars, TypeOK, CallInv
  <2>3. count' \in [Objects -> Nat]
    <3>1. obj[t] \in Objects /\ count[obj[t]] \in Nat
      BY <2>1 DEF TypeOK, CallInv
    <3>2. (IF count[obj[t]] = 0 THEN 0 ELSE count[obj[t]] - 1) \in Nat
      BY <3>1
    <3> QED
      BY <2>1, <3>1, <3>2 DEF TypeOK
  <2>4. CASE Return(t)
    BY <2>1, <2>3, <2>4 DEF Return, At, TypeOK
  <2> QED
    BY <1>6, <2>2, <2>4 DEF PutEffect
<1>7. ASSUME Release(t)
     PROVE  TypeOK'
  BY <1>7 DEF Release, Return, At, treeVars, callVars, TypeOK, CallInv
<1>8. ASSUME Retry(t)
     PROVE  TypeOK'
  BY <1>8 DEF Retry, Reload, Load, treeVars, callVars, TypeOK, CallInv
<1>9. ASSUME NEW o \in Objects, NEW p \in Objects, Add(t, o, p)
     PROVE  TypeOK'
  BY <1>9 DEF Add, At, Load, treeVars, callVars, TypeOK, CallInv
<1>10. ASSUME Attached(t)
      PROVE  TypeOK'
  <2>1. CASE Exchange(t, par[t], old[t] + 1) /\ UNCHANGED par
    BY <1>10, <2>1 DEF Attached, At, Exchange, TypeOK, CallInv
  <2>2. CASE SeesZero(t) /\ par' = [par EXCEPT ![t] = None] /\ UNCHANGED count
    BY <1>10, <2>2 DEF Attached, At, TypeOK, CallInv
  <2> QED
    BY <1>10, <2>1, <2>2 DEF Attached
<1>11. ASSUME AddEvents(t)
      PROVE  TypeOK'
  BY <1>11 DEF AddEvents, Return, At, treeVars, callVars, TypeOK, CallInv
<1>12. ASSUME NEW o \in Objects, Del(t, o)
      PROVE  TypeOK'
  BY <1>12 DEF Del, At, treeVars, callVars, TypeOK, CallInv
<1>13. ASSUME DelEvent(t)
      PROVE  TypeOK'
  BY <1>13 DEF DelEvent, At, Load, treeVars, callVars, TypeOK, CallInv
<1>14. ASSUME NEW o \in Objects, NEW u \in Threads, Hand(t, u, o)
      PROVE  TypeOK'
  <2>1. held' \in [Threads -> [Objects -> Nat]]
    <3>1. held[t] \in [Objects -> Nat] /\ held[u] \in [Objects -> Nat] /\ u # t
      BY <1>14 DEF Hand, TypeOK
    <3>2. held[t][o] - 1 \in Nat
      BY <1>14, <3>1 DEF Hand
    <3>3. held' = [[held EXCEPT ![t][o] = @ - 1] EXCEPT ![u][o] = @ + 1]
      BY <1>14 DEF Hand
    <3>4. [held EXCEPT ![t][o] = @ - 1] \in [Threads -> [Objects -> Nat]]
      BY <3>1, <3>2 DEF TypeOK
    <3>5. [held EXCEPT ![t][o] = @ - 1][u] = held[u]
      BY <3>1 DEF TypeOK
    <3>6. held[u][o] + 1 \in Nat
      BY <3>1
    <3> QED
      BY <3>1, <3>3, <3>4, <3>5, <3>6
  <2> QED
    BY <1>14, <2>1 DEF Hand, treeVars, callVars, TypeOK
<1>15. ASSUME port # "host", SectionGet(t)
      PROVE  TypeOK'
  BY <1>15 DEF SectionGet, Return, At, LockedGet, treeVars, callVars, TypeOK, CallInv
<1>16. ASSUME port # "host", SectionAttached(t)
      PROVE  TypeOK'
  BY <1>16 DEF SectionAttached, At, LockedGet, treeVars, callVars, TypeOK, CallInv
<1> QED
  BY <1>1, <1>2, <1>3, <1>4, <1>5, <1>6, <1>7, <1>8, <1>9, <1>10, <1>11, <1>12, <1>13, <1>14, <1>15, <1>16 DEF Effect

\* A call keeps its arguments until it returns.
LEMMA CallInvStep ==
  ASSUME TypeOK, CallInv, port' = port, NEW t \in Threads, Effect(t)
  PROVE  CallInv'
<1>1. ASSUME NEW o \in Objects, Get(t, o)
     PROVE  CallInv'
  BY <1>1 DEF Get, At, Load, treeVars, callVars, TypeOK, CallInv
<1>2. ASSUME GetRefused(t)
     PROVE  CallInv'
  BY <1>2 DEF GetRefused, Return, At, SeesZero, treeVars, callVars, TypeOK, CallInv
<1>3. ASSUME GetDone(t)
     PROVE  CallInv'
  BY <1>3 DEF GetDone, Return, At, Exchange, treeVars, callVars, TypeOK, CallInv
<1>4. ASSUME NEW o \in Objects, Put(t, o)
     PROVE  CallInv'
  BY <1>4 DEF Put, At, Load, treeVars, callVars, TypeOK, CallInv
<1>5. ASSUME PutRefused(t)
     PROVE  CallInv'
  BY <1>5 DEF PutRefused, Return, At, SeesZero, treeVars, callVars, TypeOK, CallInv
<1>6. ASSUME PutEffect(t)
     PROVE  CallInv'
  <2>1. /\ pc[t] = "put" /\ UNCHANGED <<static, parent, mutex, released, held>>
        /\ count' = [count EXCEPT ![obj[t]] = IF @ = 0 THEN 0 ELSE @ - 1]
    BY <1>6 DEF PutEffect, treeVars
  <2>2. CASE count[obj[t]] = 1 /\ static[obj[t]] = FALSE /\ At(t, "release") /\ UNCHANGED callVars
    BY <2>1, <2>2 DEF At, callVars, TypeOK, CallInv
  <2>3. CASE Return(t)
    BY <2>1, <2>3 DEF Return, At, TypeOK, CallInv
  <2> QED
    BY <1>6, <2>2, <2>3 DEF PutEffect
<1>7. ASSUME Release(t)
     PROVE  CallInv'
  BY <1>7 DEF Release, Return, At, treeVars, callVars, TypeOK, CallInv
<1>8. ASSUME Retry(t)
     PROVE  CallInv'
  BY <1>8 DEF Retry, Reload, Load, treeVars, callVars, TypeOK, CallInv
<1>9. ASSUME NEW o \in Objects, NEW p \in Objects, Add(t, o, p)
     PROVE  CallInv'
  BY <1>9 DEF Add, At, Load, treeVars, callVars, TypeOK, CallInv
<1>10. ASSUME Attached(t)
      PROVE  CallInv'
  BY <1>10 DEF Attached, At, SeesZero, Exchange, treeVars, callVars, TypeOK, CallInv
<1>11. ASSUME AddEvents(t)
      PROVE  CallInv'
  BY <1>11 DEF AddEvents, Return, At, treeVars, callVars, TypeOK, CallInv
<1>12. ASSUME NEW o \in Objects, Del(t, o)
      PROVE  CallInv'
  BY <1>12 DEF Del, At, treeVars, callVars, TypeOK, CallInv
<1>13. ASSUME DelEvent(t)
      PROVE  CallInv'
  BY <1>13 DEF DelEvent, At, Load, treeVars, callVars, TypeOK, CallInv
<1>14. ASSUME NEW o \in Objects, NEW u \in Threads, Hand(t, u, o)
      PROVE  CallInv'
  BY <1>14 DEF Hand, treeVars, callVars, TypeOK, CallInv
<1>15. ASSUME port # "host", SectionGet(t)
      PROVE  CallInv'
  BY <1>15 DEF SectionGet, Return, At, LockedGet, treeVars, callVars, TypeOK, CallInv
<1>16. ASSUME port # "host", SectionAttached(t)
      PROVE  CallInv'
  BY <1>16 DEF SectionAttached, At, LockedGet, treeVars, callVars, TypeOK, CallInv
<1> QED
  BY <1>1, <1>2, <1>3, <1>4, <1>5, <1>6, <1>7, <1>8, <1>9, <1>10, <1>11, <1>12, <1>13, <1>14, <1>15, <1>16 DEF Effect

\* Add takes the section and the end of the attach leaves it; del and the others need it free.
LEMMA SectionInvStep ==
  ASSUME TypeOK, CallInv, SectionInv, port' = port, NEW t \in Threads, Effect(t)
  PROVE  SectionInv'
<1>1. ASSUME NEW o \in Objects, Get(t, o)
     PROVE  SectionInv'
  BY <1>1 DEF Get, At, Load, treeVars, callVars, TypeOK, CallInv, SectionInv
<1>2. ASSUME GetRefused(t)
     PROVE  SectionInv'
  BY <1>2 DEF GetRefused, Return, At, SeesZero, treeVars, callVars, TypeOK, CallInv, SectionInv
<1>3. ASSUME GetDone(t)
     PROVE  SectionInv'
  BY <1>3 DEF GetDone, Return, At, Exchange, treeVars, callVars, TypeOK, CallInv, SectionInv
<1>4. ASSUME NEW o \in Objects, Put(t, o)
     PROVE  SectionInv'
  BY <1>4 DEF Put, At, Load, treeVars, callVars, TypeOK, CallInv, SectionInv
<1>5. ASSUME PutRefused(t)
     PROVE  SectionInv'
  BY <1>5 DEF PutRefused, Return, At, SeesZero, treeVars, callVars, TypeOK, CallInv, SectionInv
<1>6. ASSUME PutEffect(t)
     PROVE  SectionInv'
  BY <1>6 DEF PutEffect, Return, At, treeVars, callVars, TypeOK, CallInv, SectionInv
<1>7. ASSUME Release(t)
     PROVE  SectionInv'
  BY <1>7 DEF Release, Return, At, treeVars, callVars, TypeOK, CallInv, SectionInv
<1>8. ASSUME Retry(t)
     PROVE  SectionInv'
  BY <1>8 DEF Retry, Reload, Load, treeVars, callVars, TypeOK, CallInv, SectionInv
<1>9. ASSUME NEW o \in Objects, NEW p \in Objects, Add(t, o, p)
     PROVE  SectionInv'
  BY <1>9 DEF Add, At, Load, treeVars, callVars, TypeOK, CallInv, SectionInv
<1>10. ASSUME Attached(t)
      PROVE  SectionInv'
  BY <1>10 DEF Attached, At, SeesZero, Exchange, treeVars, callVars, TypeOK, CallInv, SectionInv
<1>11. ASSUME AddEvents(t)
      PROVE  SectionInv'
  BY <1>11 DEF AddEvents, Return, At, treeVars, callVars, TypeOK, CallInv, SectionInv
<1>12. ASSUME NEW o \in Objects, Del(t, o)
      PROVE  SectionInv'
  BY <1>12 DEF Del, At, treeVars, callVars, TypeOK, CallInv, SectionInv
<1>13. ASSUME DelEvent(t)
      PROVE  SectionInv'
  BY <1>13 DEF DelEvent, At, Load, treeVars, callVars, TypeOK, CallInv, SectionInv
<1>14. ASSUME NEW o \in Objects, NEW u \in Threads, Hand(t, u, o)
      PROVE  SectionInv'
  BY <1>14 DEF Hand, treeVars, callVars, TypeOK, CallInv, SectionInv
<1>15. ASSUME port # "host", SectionGet(t)
      PROVE  SectionInv'
  BY <1>15 DEF SectionGet, Return, At, LockedGet, treeVars, callVars, TypeOK, CallInv, SectionInv
<1>16. ASSUME port # "host", SectionAttached(t)
      PROVE  SectionInv'
  BY <1>16 DEF SectionAttached, At, LockedGet, treeVars, callVars, TypeOK, CallInv, SectionInv
<1> QED
  BY <1>1, <1>2, <1>3, <1>4, <1>5, <1>6, <1>7, <1>8, <1>9, <1>10, <1>11, <1>12, <1>13, <1>14, <1>15, <1>16 DEF Effect

\* The put that wrote the zero is the only one to go on to the release hook.
LEMMA ReleaseInvStep ==
  ASSUME TypeOK, CallInv, ReleasedOnce, ReleaseInv, port' = port, NEW t \in Threads, Effect(t)
  PROVE  ReleaseInv'
<1>1. ASSUME NEW o \in Objects, Get(t, o)
     PROVE  ReleaseInv'
  BY <1>1 DEF Get, At, Load, treeVars, callVars, TypeOK, CallInv, ReleasedOnce, ReleaseInv
<1>2. ASSUME GetRefused(t)
     PROVE  ReleaseInv'
  BY <1>2 DEF GetRefused, Return, At, SeesZero, treeVars, callVars, TypeOK, CallInv, ReleasedOnce, ReleaseInv
<1>3. ASSUME GetDone(t)
     PROVE  ReleaseInv'
  BY <1>3 DEF GetDone, Return, At, Exchange, treeVars, callVars, TypeOK, CallInv, ReleasedOnce, ReleaseInv
<1>4. ASSUME NEW o \in Objects, Put(t, o)
     PROVE  ReleaseInv'
  BY <1>4 DEF Put, At, Load, treeVars, callVars, TypeOK, CallInv, ReleasedOnce, ReleaseInv
<1>5. ASSUME PutRefused(t)
     PROVE  ReleaseInv'
  BY <1>5 DEF PutRefused, Return, At, SeesZero, treeVars, callVars, TypeOK, CallInv, ReleasedOnce, ReleaseInv
<1>6. ASSUME PutEffect(t)
     PROVE  ReleaseInv'
  <2>1. /\ pc[t] = "put" /\ UNCHANGED <<static, parent, mutex, released, held>>
        /\ count' = [count EXCEPT ![obj[t]] = IF @ = 0 THEN 0 ELSE @ - 1]
    BY <1>6 DEF PutEffect, treeVars
  <2>2. CASE count[obj[t]] = 1 /\ static[obj[t]] = FALSE /\ At(t, "release") /\ UNCHANGED callVars
    BY <2>1, <2>2 DEF At, callVars, TypeOK, CallInv, ReleasedOnce, ReleaseInv
  <2>3. CASE Return(t)
    BY <2>1, <2>3 DEF Return, At, TypeOK, CallInv, ReleasedOnce, ReleaseInv
  <2> QED
    BY <1>6, <2>2, <2>3 DEF PutEffect
<1>7. ASSUME Release(t)
     PROVE  ReleaseInv'
  BY <1>7 DEF Release, Return, At, treeVars, callVars, TypeOK, CallInv, ReleasedOnce, ReleaseInv
<1>8. ASSUME Retry(t)
     PROVE  ReleaseInv'
  BY <1>8 DEF Retry, Reload, Load, treeVars, callVars, TypeOK, CallInv, ReleasedOnce, ReleaseInv
<1>9. ASSUME NEW o \in Objects, NEW p \in Objects, Add(t, o, p)
     PROVE  ReleaseInv'
  BY <1>9 DEF Add, At, Load, treeVars, callVars, TypeOK, CallInv, ReleasedOnce, ReleaseInv
<1>10. ASSUME Attached(t)
      PROVE  ReleaseInv'
  BY <1>10 DEF Attached, At, SeesZero, Exchange, treeVars, callVars, TypeOK, CallInv, ReleasedOnce, ReleaseInv
<1>11. ASSUME AddEvents(t)
      PROVE  ReleaseInv'
  BY <1>11 DEF AddEvents, Return, At, treeVars, callVars, TypeOK, CallInv, ReleasedOnce, ReleaseInv
<1>12. ASSUME NEW o \in Objects, Del(t, o)
      PROVE  ReleaseInv'
  BY <1>12 DEF Del, At, treeVars, callVars, TypeOK, CallInv, ReleasedOnce, ReleaseInv
<1>13. ASSUME DelEvent(t)
      PROVE  ReleaseInv'
  BY <1>13 DEF DelEvent, At, Load, treeVars, callVars, TypeOK, CallInv, ReleasedOnce, ReleaseInv
<1>14. ASSUME NEW o \in Objects, NEW u \in Threads, Hand(t, u, o)
      PROVE  ReleaseInv'
  BY <1>14 DEF Hand, treeVars, callVars, TypeOK, CallInv, ReleasedOnce, ReleaseInv
<1>15. ASSUME port # "host", SectionGet(t)
      PROVE  ReleaseInv'
  BY <1>15 DEF SectionGet, Return, At, LockedGet, treeVars, callVars, TypeOK, CallInv, ReleasedOnce, ReleaseInv
<1>16. ASSUME port # "host", SectionAttached(t)
      PROVE  ReleaseInv'
  BY <1>16 DEF SectionAttached, At, LockedGet, treeVars, callVars, TypeOK, CallInv, ReleasedOnce, ReleaseInv
<1> QED
  BY <1>1, <1>2, <1>3, <1>4, <1>5, <1>6, <1>7, <1>8, <1>9, <1>10, <1>11, <1>12, <1>13, <1>14, <1>15, <1>16 DEF Effect

\* The hook runs once for the zero it was called for.
LEMMA ReleasedOnceStep ==
  ASSUME TypeOK, CallInv, ReleasedOnce, ReleaseInv, port' = port, NEW t \in Threads, Effect(t)
  PROVE  ReleasedOnce'
<1>1. ASSUME NEW o \in Objects, Get(t, o)
     PROVE  ReleasedOnce'
  BY <1>1 DEF Get, At, Load, treeVars, callVars, TypeOK, CallInv, ReleasedOnce, ReleaseInv
<1>2. ASSUME GetRefused(t)
     PROVE  ReleasedOnce'
  BY <1>2 DEF GetRefused, Return, At, SeesZero, treeVars, callVars, TypeOK, CallInv, ReleasedOnce, ReleaseInv
<1>3. ASSUME GetDone(t)
     PROVE  ReleasedOnce'
  BY <1>3 DEF GetDone, Return, At, Exchange, treeVars, callVars, TypeOK, CallInv, ReleasedOnce, ReleaseInv
<1>4. ASSUME NEW o \in Objects, Put(t, o)
     PROVE  ReleasedOnce'
  BY <1>4 DEF Put, At, Load, treeVars, callVars, TypeOK, CallInv, ReleasedOnce, ReleaseInv
<1>5. ASSUME PutRefused(t)
     PROVE  ReleasedOnce'
  BY <1>5 DEF PutRefused, Return, At, SeesZero, treeVars, callVars, TypeOK, CallInv, ReleasedOnce, ReleaseInv
<1>6. ASSUME PutEffect(t)
     PROVE  ReleasedOnce'
  BY <1>6 DEF PutEffect, Return, At, treeVars, callVars, TypeOK, CallInv, ReleasedOnce, ReleaseInv
<1>7. ASSUME Release(t)
     PROVE  ReleasedOnce'
  BY <1>7 DEF Release, Return, At, treeVars, callVars, TypeOK, CallInv, ReleasedOnce, ReleaseInv
<1>8. ASSUME Retry(t)
     PROVE  ReleasedOnce'
  BY <1>8 DEF Retry, Reload, Load, treeVars, callVars, TypeOK, CallInv, ReleasedOnce, ReleaseInv
<1>9. ASSUME NEW o \in Objects, NEW p \in Objects, Add(t, o, p)
     PROVE  ReleasedOnce'
  BY <1>9 DEF Add, At, Load, treeVars, callVars, TypeOK, CallInv, ReleasedOnce, ReleaseInv
<1>10. ASSUME Attached(t)
      PROVE  ReleasedOnce'
  BY <1>10 DEF Attached, At, SeesZero, Exchange, treeVars, callVars, TypeOK, CallInv, ReleasedOnce, ReleaseInv
<1>11. ASSUME AddEvents(t)
      PROVE  ReleasedOnce'
  BY <1>11 DEF AddEvents, Return, At, treeVars, callVars, TypeOK, CallInv, ReleasedOnce, ReleaseInv
<1>12. ASSUME NEW o \in Objects, Del(t, o)
      PROVE  ReleasedOnce'
  BY <1>12 DEF Del, At, treeVars, callVars, TypeOK, CallInv, ReleasedOnce, ReleaseInv
<1>13. ASSUME DelEvent(t)
      PROVE  ReleasedOnce'
  BY <1>13 DEF DelEvent, At, Load, treeVars, callVars, TypeOK, CallInv, ReleasedOnce, ReleaseInv
<1>14. ASSUME NEW o \in Objects, NEW u \in Threads, Hand(t, u, o)
      PROVE  ReleasedOnce'
  BY <1>14 DEF Hand, treeVars, callVars, TypeOK, CallInv, ReleasedOnce, ReleaseInv
<1>15. ASSUME port # "host", SectionGet(t)
      PROVE  ReleasedOnce'
  BY <1>15 DEF SectionGet, Return, At, LockedGet, treeVars, callVars, TypeOK, CallInv, ReleasedOnce, ReleaseInv
<1>16. ASSUME port # "host", SectionAttached(t)
      PROVE  ReleasedOnce'
  BY <1>16 DEF SectionAttached, At, LockedGet, treeVars, callVars, TypeOK, CallInv, ReleasedOnce, ReleaseInv
<1> QED
  BY <1>1, <1>2, <1>3, <1>4, <1>5, <1>6, <1>7, <1>8, <1>9, <1>10, <1>11, <1>12, <1>13, <1>14, <1>15, <1>16 DEF Effect

\* A zero that a host call has seen stays: nothing but an exchange with a non-zero
\* expectation writes a count.
LEMMA ZeroInvStep ==
  ASSUME TypeOK, CallInv, ZeroInv, port' = port, NEW t \in Threads, Effect(t)
  PROVE  ZeroInv'
<1>1. ASSUME NEW o \in Objects, Get(t, o)
     PROVE  ZeroInv'
  BY <1>1 DEF Get, At, Load, treeVars, callVars, TypeOK, CallInv, ZeroInv
<1>2. ASSUME GetRefused(t)
     PROVE  ZeroInv'
  BY <1>2 DEF GetRefused, Return, At, SeesZero, treeVars, callVars, TypeOK, CallInv, ZeroInv
<1>3. ASSUME GetDone(t)
     PROVE  ZeroInv'
  BY <1>3 DEF GetDone, Return, At, Exchange, treeVars, callVars, TypeOK, CallInv, ZeroInv
<1>4. ASSUME NEW o \in Objects, Put(t, o)
     PROVE  ZeroInv'
  BY <1>4 DEF Put, At, Load, treeVars, callVars, TypeOK, CallInv, ZeroInv
<1>5. ASSUME PutRefused(t)
     PROVE  ZeroInv'
  BY <1>5 DEF PutRefused, Return, At, SeesZero, treeVars, callVars, TypeOK, CallInv, ZeroInv
<1>6. ASSUME PutEffect(t)
     PROVE  ZeroInv'
  BY <1>6 DEF PutEffect, Return, At, treeVars, callVars, TypeOK, CallInv, ZeroInv
<1>7. ASSUME Release(t)
     PROVE  ZeroInv'
  BY <1>7 DEF Release, Return, At, treeVars, callVars, TypeOK, CallInv, ZeroInv
<1>8. ASSUME Retry(t)
     PROVE  ZeroInv'
  BY <1>8 DEF Retry, Reload, Load, treeVars, callVars, TypeOK, CallInv, ZeroInv
<1>9. ASSUME NEW o \in Objects, NEW p \in Objects, Add(t, o, p)
     PROVE  ZeroInv'
  BY <1>9 DEF Add, At, Load, treeVars, callVars, TypeOK, CallInv, ZeroInv
<1>10. ASSUME Attached(t)
      PROVE  ZeroInv'
  BY <1>10 DEF Attached, At, SeesZero, Exchange, treeVars, callVars, TypeOK, CallInv, ZeroInv
<1>11. ASSUME AddEvents(t)
      PROVE  ZeroInv'
  BY <1>11 DEF AddEvents, Return, At, treeVars, callVars, TypeOK, CallInv, ZeroInv
<1>12. ASSUME NEW o \in Objects, Del(t, o)
      PROVE  ZeroInv'
  BY <1>12 DEF Del, At, treeVars, callVars, TypeOK, CallInv, ZeroInv
<1>13. ASSUME DelEvent(t)
      PROVE  ZeroInv'
  BY <1>13 DEF DelEvent, At, Load, treeVars, callVars, TypeOK, CallInv, ZeroInv
<1>14. ASSUME NEW o \in Objects, NEW u \in Threads, Hand(t, u, o)
      PROVE  ZeroInv'
  BY <1>14 DEF Hand, treeVars, callVars, TypeOK, CallInv, ZeroInv
<1>15. ASSUME port # "host", SectionGet(t)
      PROVE  ZeroInv'
  BY <1>15 DEF SectionGet, Return, At, LockedGet, treeVars, callVars, TypeOK, CallInv, ZeroInv
<1>16. ASSUME port # "host", SectionAttached(t)
      PROVE  ZeroInv'
  BY <1>16 DEF SectionAttached, At, LockedGet, treeVars, callVars, TypeOK, CallInv, ZeroInv
<1> QED
  BY <1>1, <1>2, <1>3, <1>4, <1>5, <1>6, <1>7, <1>8, <1>9, <1>10, <1>11, <1>12, <1>13, <1>14, <1>15, <1>16 DEF Effect

\* Others cannot take away the references by which a thread names its arguments.
LEMMA NameInvStep ==
  ASSUME TypeOK, CallInv, NameInv, port' = port, NEW t \in Threads, Effect(t)
  PROVE  NameInv'
<1>1. ASSUME NEW o \in Objects, Get(t, o)
     PROVE  NameInv'
  BY <1>1 DEF Get, At, Load, treeVars, callVars, TypeOK, CallInv, NameInv, CanName
<1>2. ASSUME GetRefused(t)
     PROVE  NameInv'
  BY <1>2 DEF GetRefused, Return, At, SeesZero, treeVars, callVars, TypeOK, CallInv, NameInv, CanName
<1>3. ASSUME GetDone(t)
     PROVE  NameInv'
  BY <1>3 DEF GetDone, Return, At, Exchange, treeVars, callVars, TypeOK, CallInv, NameInv, CanName
<1>4. ASSUME NEW o \in Objects, Put(t, o)
     PROVE  NameInv'
  BY <1>4 DEF Put, At, Load, treeVars, callVars, TypeOK, CallInv, NameInv, CanName
<1>5. ASSUME PutRefused(t)
     PROVE  NameInv'
  BY <1>5 DEF PutRefused, Return, At, SeesZero, treeVars, callVars, TypeOK, CallInv, NameInv, CanName
<1>6. ASSUME PutEffect(t)
     PROVE  NameInv'
  <2>1. /\ pc[t] = "put" /\ UNCHANGED <<static, parent, mutex, released, held>>
        /\ count' = [count EXCEPT ![obj[t]] = IF @ = 0 THEN 0 ELSE @ - 1]
    BY <1>6 DEF PutEffect, treeVars
  <2>2. CASE count[obj[t]] = 1 /\ static[obj[t]] = FALSE /\ At(t, "release") /\ UNCHANGED callVars
    BY <2>1, <2>2 DEF At, callVars, TypeOK, CallInv, NameInv, CanName
  <2>3. CASE Return(t)
    BY <2>1, <2>3 DEF Return, At, TypeOK, CallInv, NameInv, CanName
  <2> QED
    BY <1>6, <2>2, <2>3 DEF PutEffect
<1>7. ASSUME Release(t)
     PROVE  NameInv'
  BY <1>7 DEF Release, Return, At, treeVars, callVars, TypeOK, CallInv, NameInv, CanName
<1>8. ASSUME Retry(t)
     PROVE  NameInv'
  BY <1>8 DEF Retry, Reload, Load, treeVars, callVars, TypeOK, CallInv, NameInv, CanName
<1>9. ASSUME NEW o \in Objects, NEW p \in Objects, Add(t, o, p)
     PROVE  NameInv'
  BY <1>9 DEF Add, At, Load, treeVars, callVars, TypeOK, CallInv, NameInv, CanName
<1>10. ASSUME Attached(t)
      PROVE  NameInv'
  BY <1>10 DEF Attached, At, SeesZero, Exchange, treeVars, callVars, TypeOK, CallInv, NameInv, CanName
<1>11. ASSUME AddEvents(t)
      PROVE  NameInv'
  BY <1>11 DEF AddEvents, Return, At, treeVars, callVars, TypeOK, CallInv, NameInv, CanName
<1>12. ASSUME NEW o \in Objects, Del(t, o)
      PROVE  NameInv'
  BY <1>12 DEF Del, At, treeVars, callVars, TypeOK, CallInv, NameInv, CanName
<1>13. ASSUME DelEvent(t)
      PROVE  NameInv'
  BY <1>13 DEF DelEvent, At, Load, treeVars, callVars, TypeOK, CallInv, NameInv, CanName
<1>14. ASSUME NEW o \in Objects, NEW u \in Threads, Hand(t, u, o)
      PROVE  NameInv'
  <2>1. pc' = pc /\ obj' = obj /\ par' = par /\ pc[t] = "idle"
    BY <1>14 DEF Hand, callVars
  <2>2. \A v \in Threads \ {t}, c \in Objects : held[v][c] > 0 => held'[v][c] > 0
    BY <1>14 DEF Hand, TypeOK
  <2> QED
    BY <2>1, <2>2 DEF NameInv, CanName, CallInv, TypeOK
<1>15. ASSUME port # "host", SectionGet(t)
      PROVE  NameInv'
  BY <1>15 DEF SectionGet, Return, At, LockedGet, treeVars, callVars, TypeOK, CallInv, NameInv, CanName
<1>16. ASSUME port # "host", SectionAttached(t)
      PROVE  NameInv'
  BY <1>16 DEF SectionAttached, At, LockedGet, treeVars, callVars, TypeOK, CallInv, NameInv, CanName
<1> QED
  BY <1>1, <1>2, <1>3, <1>4, <1>5, <1>6, <1>7, <1>8, <1>9, <1>10, <1>11, <1>12, <1>13, <1>14, <1>15, <1>16 DEF Effect

\* Only the thread that takes a step moves.
OthersStay(t) ==
  \A u \in Threads \ {t} : pc'[u] = pc[u] /\ obj'[u] = obj[u] /\ par'[u] = par[u]

LEMMA OthersStayStep ==
  ASSUME TypeOK, NEW t \in Threads, Effect(t)
  PROVE  OthersStay(t)
<1>1. CASE PutEffect(t)
  <2>1. CASE At(t, "release") /\ UNCHANGED callVars
    BY <2>1 DEF At, callVars, OthersStay, TypeOK
  <2>2. CASE Return(t)
    BY <2>2 DEF Return, At, OthersStay, TypeOK
  <2> QED
    BY <1>1, <2>1, <2>2 DEF PutEffect
<1>2. CASE Attached(t)
  <2>1. par' = par \/ par' = [par EXCEPT ![t] = None]
    BY <1>2 DEF Attached
  <2> QED
    BY <1>2, <2>1 DEF Attached, At, OthersStay, TypeOK
<1>3. CASE \E o \in Objects : \/ Get(t, o) \/ Put(t, o) \/ Del(t, o)
                              \/ \E p \in Objects : Add(t, o, p)
                              \/ \E u \in Threads : Hand(t, u, o)
  BY <1>3 DEF Get, Put, Del, Add, Hand, At, callVars, OthersStay, TypeOK
<1>4. CASE GetRefused(t) \/ GetDone(t) \/ PutRefused(t) \/ Release(t) \/ AddEvents(t) \/ SectionGet(t)
  <2>1. Return(t)
    BY <1>4 DEF GetRefused, GetDone, PutRefused, Release, AddEvents, SectionGet
  <2> QED
    BY <2>1 DEF Return, At, OthersStay, TypeOK
<1>5. CASE Retry(t) \/ DelEvent(t) \/ SectionAttached(t)
  BY <1>5 DEF Retry, Reload, DelEvent, SectionAttached, At, OthersStay, TypeOK
<1> QED
  BY <1>1, <1>2, <1>3, <1>4, <1>5 DEF Effect

\* A step that neither begins nor ends an attach, or that neither begins nor ends a
\* put, leaves who attaches, or who puts, as it was.
LEMMA LinkedKept ==
  ASSUME NEW t \in Threads, OthersStay(t), pc[t] # "attach", pc'[t] # "attach",
         parent' = parent, NEW x \in Objects
  PROVE  LinkedTo(x)' = LinkedTo(x)
  BY DEF OthersStay, LinkedTo, Attaching

LEMMA PutByKept ==
  ASSUME NEW t \in Threads, OthersStay(t), pc[t] \notin {"put", "detached"},
         pc'[t] \notin {"put", "detached"}, NEW x \in Objects
  PROVE  PutBy(x)' = PutBy(x)
  BY DEF OthersStay, PutBy

LEMMA HeldKept ==
  ASSUME held' = held, NEW x \in Objects
  PROVE  HeldBy(x)' = HeldBy(x)
  BY DEF HeldBy

\* A put, or the link a call has cut, that thread t begins or ends for object o.
LEMMA PutByMore ==
  ASSUME TypeOK, NEW t \in Threads, OthersStay(t), pc[t] \notin {"put", "detached"}, NEW o \in Objects,
         (pc'[t] = "put" /\ obj'[t] = o) \/ (pc'[t] = "detached" /\ par'[t] = o)
  PROVE  /\ Cardinality(PutBy(o)') = Cardinality(PutBy(o)) + 1
         /\ \A x \in Objects \ {o} : PutBy(x)' = PutBy(x)
<1>1. \A x : \A u \in Threads \ {t} : u \in PutBy(x)' <=> u \in PutBy(x)
  BY DEF OthersStay, PutBy
<1>2. \A x : t \notin PutBy(x) /\ PutBy(x) \subseteq Threads /\ PutBy(x)' \subseteq Threads
  BY DEF PutBy
<1>3. \A x : t \in PutBy(x)' <=> x = o
  BY DEF PutBy
<1>4. PutBy(o)' = PutBy(o) \cup {t}
  BY <1>1, <1>2, <1>3
<1>5. ASSUME NEW x \in Objects \ {o}
      PROVE  PutBy(x)' = PutBy(x)
  BY <1>1, <1>2, <1>3
<1>6. IsFiniteSet(PutBy(o)) /\ t \notin PutBy(o)
  BY <1>2, CountsFinite
<1>7. Cardinality(PutBy(o) \cup {t}) = Cardinality(PutBy(o)) + 1
  BY <1>6, OneMore
<1> QED
  BY <1>4, <1>5, <1>7

LEMMA PutByLess ==
  ASSUME TypeOK, NEW t \in Threads, OthersStay(t), pc[t] = "put", NEW o \in Objects, obj[t] = o,
         pc'[t] \notin {"put", "detached"}
  PROVE  /\ Cardinality(PutBy(o)') = Cardinality(PutBy(o)) - 1
         /\ \A x \in Objects \ {o} : PutBy(x)' = PutBy(x)
<1>1. \A x : \A u \in Threads \ {t} : u \in PutBy(x)' <=> u \in PutBy(x)
  BY DEF OthersStay, PutBy
<1>2. \A x : t \notin PutBy(x)' /\ PutBy(x) \subseteq Threads /\ PutBy(x)' \subseteq Threads
  BY DEF PutBy
<1>3. \A x : t \in PutBy(x) <=> x = o
  BY DEF PutBy
<1>4. PutBy(o)' = PutBy(o) \ {t}
  BY <1>1, <1>2, <1>3
<1>5. ASSUME NEW x \in Objects \ {o}
      PROVE  PutBy(x)' = PutBy(x)
  BY <1>1, <1>2, <1>3
<1>6. IsFiniteSet(PutBy(o)) /\ t \in PutBy(o)
  BY <1>3, CountsFinite
<1>7. Cardinality(PutBy(o) \ {t}) = Cardinality(PutBy(o)) - 1
  BY <1>6, OneLess
<1> QED
  BY <1>4, <1>5, <1>7

\* While nobody is in the section no attach is half done; the one that is, is in it.
LEMMA AttachingOne ==
  ASSUME SectionInv, TypeOK
  PROVE  /\ mutex = None => Attaching = {}
         /\ \A t \in Threads : pc[t] = "attach" => Attaching = {obj[t]} \cap Objects
<1>1. \A t \in Threads : pc[t] = "attach" => mutex = t
  BY DEF SectionInv
<1> QED
  BY <1>1 DEF Attaching

\* The attach's link counts when the attach leaves the section.
LEMMA LinkedMore ==
  ASSUME TypeOK, CallInv, SectionInv, NEW t \in Threads, OthersStay(t),
         pc[t] = "attach", pc'[t] # "attach", parent' = parent,
         NEW o \in Objects, obj[t] = o, NEW p \in Objects, par[t] = p
  PROVE  /\ Cardinality(LinkedTo(p)') = Cardinality(LinkedTo(p)) + 1
         /\ \A x \in Objects \ {p} : LinkedTo(x)' = LinkedTo(x)
<1>1. parent[o] = p
  BY DEF SectionInv
<1>2. Attaching = {o}
  BY AttachingOne
<1>3. Attaching' = {}
  <2>1. \A u \in Threads \ {t} : pc[u] # "attach"
    BY DEF SectionInv
  <2> QED
    BY <2>1 DEF Attaching, OthersStay
<1>4. LinkedTo(p)' = LinkedTo(p) \cup {o} /\ o \notin LinkedTo(p)
  BY <1>1, <1>2, <1>3 DEF LinkedTo
<1>5. \A x \in Objects \ {p} : LinkedTo(x)' = LinkedTo(x)
  BY <1>1, <1>2, <1>3 DEF LinkedTo
<1>6. Cardinality(LinkedTo(p) \cup {o}) = Cardinality(LinkedTo(p)) + 1
  BY <1>4, CountsFinite, OneMore
<1> QED
  BY <1>4, <1>5, <1>6

\* What the invariant says of one object.
Exact(x) == IF count[x] # 0 THEN count[x] = References(x) ELSE HeldBy(x) = {}

LEMMA ExactKept ==
  ASSUME NEW x \in Objects, Exact(x), count'[x] = count[x],
         HeldBy(x)' = HeldBy(x), LinkedTo(x)' = LinkedTo(x), PutBy(x)' = PutBy(x)
  PROVE  Exact(x)'
  BY DEF Exact, References

\* A dead object that stays dead may lose and gain links and puts, but no holder.
LEMMA ExactDead ==
  ASSUME NEW x \in Objects, Exact(x), count[x] = 0, count'[x] = 0, HeldBy(x)' = HeldBy(x)
  PROVE  Exact(x)'
  BY DEF Exact

\* The same in numbers.
LEMMA TokenCountMore ==
  ASSUME TypeOK, NEW t \in Threads, NEW o \in Objects, HeldStep(t, o, 1)
  PROVE  Cardinality(HeldBy(o)') = Cardinality(HeldBy(o)) + 1
<1> DEFINE x == <<t, held[t][o] + 1>>
<1>1. HeldBy(o)' = HeldBy(o) \cup {x} /\ x \notin HeldBy(o)
  BY TokenMore
<1>2. Cardinality(HeldBy(o) \cup {x}) = Cardinality(HeldBy(o)) + 1
  BY <1>1, HeldByFinite, OneMore
<1> QED
  BY <1>1, <1>2

LEMMA TokenCountLess ==
  ASSUME TypeOK, NEW t \in Threads, NEW o \in Objects, held[t][o] > 0, HeldStep(t, o, -1)
  PROVE  Cardinality(HeldBy(o)') = Cardinality(HeldBy(o)) - 1 /\ HeldBy(o) # {}
<1> DEFINE x == <<t, held[t][o]>>
<1>1. HeldBy(o)' = HeldBy(o) \ {x} /\ x \in HeldBy(o)
  BY TokenLess
<1>2. Cardinality(HeldBy(o) \ {x}) = Cardinality(HeldBy(o)) - 1
  BY <1>1, HeldByFinite, OneLess
<1> QED
  BY <1>1, <1>2

\* What a step does to the count it does to the references: a get adds a token, a put
\* that has begun has turned a token or a link into itself, and its end takes both away.
LEMMA CountIsReferencesStep ==
  ASSUME TypeOK, CallInv, SectionInv, ZeroInv, CountIsReferences, port' = port, NEW t \in Threads, Effect(t)
  PROVE  CountIsReferences'
<1> SUFFICES \A x \in Objects : Exact(x)'
  BY DEF CountIsReferences, Exact
<1>0. \A x \in Objects : Exact(x)
  BY DEF CountIsReferences, Exact
<1> USE <1>0
<1>1. ASSUME NEW o \in Objects, Get(t, o)
     PROVE  \A x \in Objects : Exact(x)'
  <2>1. pc[t] # "attach" /\ pc'[t] # "attach" /\ parent' = parent
    BY <1>1 DEF Get, At, Load, treeVars, callVars, TypeOK
  <2>2. pc[t] \notin {"put", "detached"} /\ pc'[t] \notin {"put", "detached"}
    BY <1>1 DEF Get, At, Load, treeVars, callVars, TypeOK
  <2>3. count' = count /\ held' = held
    BY <1>1 DEF Get, At, Load, treeVars, callVars
  <2> QED
    BY <2>1, <2>2, <2>3, OthersStayStep, LinkedKept, PutByKept, HeldKept, ExactKept
<1>2. ASSUME GetRefused(t)
     PROVE  \A x \in Objects : Exact(x)'
  <2>1. pc[t] # "attach" /\ pc'[t] # "attach" /\ parent' = parent
    BY <1>2 DEF GetRefused, Return, At, SeesZero, treeVars, callVars, TypeOK
  <2>2. pc[t] \notin {"put", "detached"} /\ pc'[t] \notin {"put", "detached"}
    BY <1>2 DEF GetRefused, Return, At, SeesZero, treeVars, callVars, TypeOK
  <2>3. count' = count /\ held' = held
    BY <1>2 DEF GetRefused, Return, At, SeesZero, treeVars, callVars
  <2> QED
    BY <2>1, <2>2, <2>3, OthersStayStep, LinkedKept, PutByKept, HeldKept, ExactKept
<1>3. ASSUME GetDone(t)
     PROVE  \A x \in Objects : Exact(x)'
  <2>0. PICK o \in Objects : o = obj[t]
    BY <1>3 DEF CallInv, GetDone
  <2>1. pc[t] = "get" /\ pc'[t] = "idle" /\ parent' = parent /\ o \in Objects
    BY <1>3, <2>0 DEF GetDone, Return, At, treeVars, TypeOK, CallInv
  <2>2. OthersStay(t)
    BY OthersStayStep
  <2>3. \A x \in Objects : LinkedTo(x)' = LinkedTo(x) /\ PutBy(x)' = PutBy(x)
    BY <2>0, <2>1, <2>2, LinkedKept, PutByKept
  <2>4. count[o] # 0 /\ count' = [count EXCEPT ![o] = @ + 1] /\ held' = [held EXCEPT ![t][o] = @ + 1]
    BY <1>3, <2>0 DEF GetDone, Exchange
  <2>5. \A x \in Objects : Exact(x)'
    <3>1. HeldStep(t, o, 1)
      BY <2>0, <2>1, <2>4, HeldStepUp
    <3>2. \A x \in Objects \ {o} : HeldBy(x)' = HeldBy(x)
      BY <2>0, <2>1, <3>1, OtherTokens
    <3>3. \A x \in Objects \ {o} : Exact(x)'
      BY <2>3, <2>4, <3>2, ExactKept DEF TypeOK
    <3>4. Cardinality(HeldBy(o)') = Cardinality(HeldBy(o)) + 1
      BY <2>0, <2>1, <3>1, TokenCountMore
    <3>5. Exact(o)
      BY <2>0, <2>1
    <3>6. count'[o] = count[o] + 1 /\ count[o] \in Nat
      BY <2>0, <2>1, <2>4 DEF TypeOK
    <3>7. Exact(o)'
      BY <2>0, <2>1, <2>3, <2>4, <3>4, <3>5, <3>6, CountsFinite DEF Exact, References
    <3> QED
      BY <3>3, <3>7
  <2> QED
    BY <2>5
<1>4. ASSUME NEW o \in Objects, Put(t, o)
     PROVE  \A x \in Objects : Exact(x)'
  <2>1. /\ pc[t] = "idle" /\ pc'[t] = "put" /\ obj'[t] = o
        /\ parent' = parent /\ count' = count /\ held[t][o] > 0
    BY <1>4 DEF Put, At, treeVars, TypeOK
  <2>2. OthersStay(t)
    BY OthersStayStep
  <2>3. HeldStep(t, o, -1)
    BY <1>4, HeldStepDown DEF Put
  <2>4. \A x \in Objects : LinkedTo(x)' = LinkedTo(x)
    BY <2>1, <2>2, LinkedKept
  <2>7. /\ Cardinality(PutBy(o)') = Cardinality(PutBy(o)) + 1
        /\ \A x \in Objects \ {o} : PutBy(x)' = PutBy(x)
    <3>1. pc[t] \notin {"put", "detached"}
      BY <2>1
    <3>2. (pc'[t] = "put" /\ obj'[t] = o) \/ (pc'[t] = "detached" /\ par'[t] = o)
      BY <2>1
    <3> QED
      BY <2>2, <3>1, <3>2, PutByMore
  <2>5. \A x \in Objects \ {o} : Exact(x)'
    <3>1. \A x \in Objects \ {o} : HeldBy(x)' = HeldBy(x)
      BY <2>3, OtherTokens
    <3> QED
      BY <2>1, <2>4, <2>7, <3>1, ExactKept
  <2>6. Cardinality(HeldBy(o)') = Cardinality(HeldBy(o)) - 1 /\ HeldBy(o) # {}
    BY <2>1, <2>3, TokenCountLess
  <2>8. Exact(o)'
    BY <2>1, <2>4, <2>6, <2>7, CountsFinite DEF Exact, References
  <2> QED
    BY <2>5, <2>8
<1>5. ASSUME PutRefused(t)
     PROVE  \A x \in Objects : Exact(x)'
  <2>0. PICK o \in Objects : o = obj[t]
    BY <1>5 DEF PutRefused, CallInv
  <2>1. /\ pc[t] = "put" /\ pc'[t] = "idle" /\ parent' = parent
        /\ count' = count /\ held' = held /\ count[o] = 0
    BY <1>5, <2>0 DEF PutRefused, SeesZero, Return, At, treeVars, TypeOK, ZeroInv
  <2>2. OthersStay(t)
    BY OthersStayStep
  <2>3. \A x \in Objects : HeldBy(x)' = HeldBy(x) /\ LinkedTo(x)' = LinkedTo(x)
    BY <2>1, <2>2, LinkedKept, HeldKept
  <2>4. \A x \in Objects \ {o} : Exact(x)'
    BY <2>0, <2>1, <2>2, <2>3, PutByLess, ExactKept
  <2>5. Exact(o)'
    BY <2>1, <2>3, ExactDead
  <2> QED
    BY <2>4, <2>5
<1>6. ASSUME PutEffect(t)
     PROVE  \A x \in Objects : Exact(x)'
  <2>0. PICK o \in Objects : o = obj[t]
    BY <1>6 DEF CallInv, PutEffect
  <2>1. /\ pc[t] = "put" /\ parent' = parent /\ held' = held /\ o \in Objects
        /\ count' = [count EXCEPT ![o] = IF @ = 0 THEN 0 ELSE @ - 1]
    BY <1>6, <2>0 DEF PutEffect, treeVars, CallInv
  <2>2. pc'[t] \in {"idle", "release"}
    BY <1>6, <2>0 DEF PutEffect, Return, At, TypeOK
  <2>3. OthersStay(t)
    BY OthersStayStep
  <2>4. \A x \in Objects : HeldBy(x)' = HeldBy(x) /\ LinkedTo(x)' = LinkedTo(x)
    BY <2>0, <2>1, <2>2, <2>3, LinkedKept, HeldKept
  <2>5. \A x \in Objects \ {o} : Exact(x)'
    <3>1. \A x \in Objects \ {o} : PutBy(x)' = PutBy(x)
      BY <2>0, <2>1, <2>2, <2>3, PutByLess
    <3>2. \A x \in Objects \ {o} : count'[x] = count[x]
      BY <2>0, <2>1 DEF TypeOK
    <3> QED
      BY <2>4, <3>1, <3>2, ExactKept
  <2>6. Cardinality(PutBy(o)') = Cardinality(PutBy(o)) - 1
    BY <2>0, <2>1, <2>2, <2>3, PutByLess
  <2>7. count[o] \in Nat /\ count'[o] = (IF count[o] = 0 THEN 0 ELSE count[o] - 1) /\ Exact(o)
    BY <2>0, <2>1 DEF TypeOK
  <2>8. Exact(o)'
    <3>1. CASE count[o] = 0
      BY <2>4, <2>7, <3>1 DEF Exact
    <3>2. CASE count[o] # 0
      <4>1. count'[o] = count[o] - 1 /\ count[o] = References(o)
        BY <2>7, <3>2 DEF Exact
      <4>2. References(o)' = References(o) - 1
        BY <2>4, <2>6, CountsFinite DEF References
      <4>3. References(o) = 1 => HeldBy(o) = {}
        <5>1. PutBy(o) # {}
          BY <2>0, <2>1 DEF PutBy
        <5> QED
          BY <5>1, CountsFinite DEF References
      <4> QED
        BY <2>4, <2>7, <3>2, <4>1, <4>2, <4>3 DEF Exact
    <3> QED
      BY <3>1, <3>2
  <2> QED
    BY <2>5, <2>8
<1>7. ASSUME Release(t)
     PROVE  \A x \in Objects : Exact(x)'
  <2>1. pc[t] # "attach" /\ pc'[t] # "attach" /\ parent' = parent
    BY <1>7 DEF Release, Return, At, treeVars, callVars, TypeOK
  <2>2. pc[t] \notin {"put", "detached"} /\ pc'[t] \notin {"put", "detached"}
    BY <1>7 DEF Release, Return, At, treeVars, callVars, TypeOK
  <2>3. count' = count /\ held' = held
    BY <1>7 DEF Release, Return, At, treeVars, callVars
  <2> QED
    BY <2>1, <2>2, <2>3, OthersStayStep, LinkedKept, PutByKept, HeldKept, ExactKept
<1>8. ASSUME Retry(t)
     PROVE  \A x \in Objects : Exact(x)'
  <2>1. count' = count /\ held' = held /\ parent' = parent /\ pc' = pc /\ obj' = obj /\ par' = par
    BY <1>8 DEF Retry, Reload, treeVars
  <2>2. \A x \in Objects : LinkedTo(x)' = LinkedTo(x) /\ PutBy(x)' = PutBy(x)
    BY <2>1 DEF LinkedTo, Attaching, PutBy
  <2> QED
    BY <2>1, <2>2, HeldKept, ExactKept
<1>9. ASSUME NEW o \in Objects, NEW p \in Objects, Add(t, o, p)
     PROVE  \A x \in Objects : Exact(x)'
  <2>1. /\ pc[t] = "idle" /\ pc'[t] = "attach" /\ obj'[t] = o /\ mutex = None
        /\ parent[o] = None /\ parent' = [parent EXCEPT ![o] = p]
        /\ count' = count /\ held' = held
    BY <1>9 DEF Add, At, TypeOK
  <2>2. OthersStay(t)
    BY OthersStayStep
  <2>3. Attaching = {}
    BY <2>1, AttachingOne
  <2>4. Attaching' = {o}
    <3>1. \A u \in Threads : pc[u] # "attach"
      BY <2>1 DEF SectionInv
    <3> QED
      BY <2>1, <2>2, <3>1 DEF Attaching, OthersStay
  <2>5. \A x \in Objects : LinkedTo(x)' = LinkedTo(x)
    BY <2>1, <2>3, <2>4 DEF LinkedTo, TypeOK
  <2> QED
    BY <2>1, <2>2, <2>5, PutByKept, HeldKept, ExactKept
<1>10. ASSUME Attached(t)
      PROVE  \A x \in Objects : Exact(x)'
  <2>0. PICK o \in Objects : o = par[t]
    BY <1>10 DEF CallInv, Attached
  <2>1. /\ pc[t] = "attach" /\ pc'[t] = "added" /\ parent' = parent /\ held' = held
        /\ o \in Objects /\ obj[t] \in Objects
    BY <1>10, <2>0 DEF Attached, At, TypeOK, CallInv
  <2>2. OthersStay(t)
    BY OthersStayStep
  <2>3. \A x \in Objects : HeldBy(x)' = HeldBy(x) /\ PutBy(x)' = PutBy(x)
    BY <2>0, <2>1, <2>2, PutByKept, HeldKept
  <2>4. \A x \in Objects \ {o} : LinkedTo(x)' = LinkedTo(x)
    BY <2>0, <2>1, <2>2, LinkedMore
  <2>5. Cardinality(LinkedTo(o)') = Cardinality(LinkedTo(o)) + 1
    BY <2>0, <2>1, <2>2, LinkedMore
  <2>6. count[o] \in Nat /\ count' = [count EXCEPT ![o] = IF @ = 0 THEN 0 ELSE @ + 1]
    <3>1. CASE Exchange(t, o, old[t] + 1)
      BY <2>0, <2>1, <3>1 DEF Exchange, TypeOK
    <3>2. CASE SeesZero(t) /\ UNCHANGED count
      BY <2>0, <2>1, <3>2 DEF SeesZero, ZeroInv, TypeOK
    <3> QED
      BY <1>10, <2>0, <3>1, <3>2 DEF Attached
  <2>7. \A x \in Objects \ {o} : Exact(x)'
    BY <2>3, <2>4, <2>6, ExactKept DEF TypeOK
  <2>8. Exact(o) /\ count'[o] = IF count[o] = 0 THEN 0 ELSE count[o] + 1
    BY <2>0, <2>1, <2>6 DEF TypeOK
  <2>9. Exact(o)'
    BY <2>0, <2>1, <2>3, <2>5, <2>6, <2>8, CountsFinite DEF Exact, References
  <2> QED
    BY <2>7, <2>9
<1>11. ASSUME AddEvents(t)
      PROVE  \A x \in Objects : Exact(x)'
  <2>1. pc[t] # "attach" /\ pc'[t] # "attach" /\ parent' = parent
    BY <1>11 DEF AddEvents, Return, At, treeVars, callVars, TypeOK
  <2>2. pc[t] \notin {"put", "detached"} /\ pc'[t] \notin {"put", "detached"}
    BY <1>11 DEF AddEvents, Return, At, treeVars, callVars, TypeOK
  <2>3. count' = count /\ held' = held
    BY <1>11 DEF AddEvents, Return, At, treeVars, callVars
  <2> QED
    BY <2>1, <2>2, <2>3, OthersStayStep, LinkedKept, PutByKept, HeldKept, ExactKept
<1>12. ASSUME NEW o \in Objects, Del(t, o)
      PROVE  \A x \in Objects : Exact(x)'
  <2>0. PICK p \in Objects : p = parent[o]
    BY <1>12 DEF TypeOK, Del
  <2>1. /\ pc[t] = "idle" /\ pc'[t] = "detached" /\ par'[t] = p /\ mutex = None
        /\ p \in Objects /\ parent' = [parent EXCEPT ![o] = None]
        /\ count' = count /\ held' = held
    BY <1>12, <2>0 DEF Del, At, TypeOK
  <2>2. OthersStay(t)
    BY OthersStayStep
  <2>3. Attaching = {} /\ Attaching' = {}
    <3>1. \A u \in Threads : pc[u] # "attach"
      BY <2>0, <2>1 DEF SectionInv
    <3> QED
      BY <2>0, <2>1, <2>2, <3>1 DEF Attaching, OthersStay
  <2>4. /\ LinkedTo(p)' = LinkedTo(p) \ {o} /\ o \in LinkedTo(p)
        /\ \A x \in Objects \ {p} : LinkedTo(x)' = LinkedTo(x)
    BY <2>0, <2>1, <2>3 DEF LinkedTo, TypeOK
  <2>5. /\ Cardinality(PutBy(p)') = Cardinality(PutBy(p)) + 1
        /\ \A x \in Objects \ {p} : PutBy(x)' = PutBy(x)
    BY <2>0, <2>1, <2>2, PutByMore
  <2>6. \A x \in Objects \ {p} : Exact(x)'
    BY <2>0, <2>1, <2>4, <2>5, HeldKept, ExactKept
  <2>7. Cardinality(LinkedTo(p)') = Cardinality(LinkedTo(p)) - 1
    BY <2>0, <2>1, <2>4, CountsFinite, OneLess
  <2>9. Exact(p)'
    BY <2>0, <2>1, <2>5, <2>7, HeldKept, CountsFinite DEF Exact, References
  <2> QED
    BY <2>6, <2>9
<1>13. ASSUME DelEvent(t)
      PROVE  \A x \in Objects : Exact(x)'
  <2>1. /\ pc[t] = "detached" /\ pc'[t] = "put" /\ obj'[t] = par[t]
        /\ parent' = parent /\ count' = count /\ held' = held
    BY <1>13 DEF DelEvent, At, treeVars, TypeOK
  <2>2. OthersStay(t)
    BY OthersStayStep
  <2>3. \A x \in Objects : PutBy(x)' = PutBy(x)
    BY <2>1, <2>2 DEF PutBy, OthersStay
  <2> QED
    BY <2>1, <2>2, <2>3, LinkedKept, HeldKept, ExactKept
<1>14. ASSUME NEW o \in Objects, NEW u \in Threads, Hand(t, u, o)
      PROVE  \A x \in Objects : Exact(x)'
  <2>1. /\ pc' = pc /\ obj' = obj /\ par' = par /\ parent' = parent /\ count' = count
        /\ held[t][o] > 0 /\ u # t /\ held' = [held EXCEPT ![t][o] = @ - 1, ![u][o] = @ + 1]
    BY <1>14 DEF Hand, callVars, treeVars
  <2>2. \A x \in Objects : LinkedTo(x)' = LinkedTo(x) /\ PutBy(x)' = PutBy(x)
    BY <2>1 DEF LinkedTo, Attaching, PutBy
  <2>3. /\ Cardinality(HeldBy(o)') = Cardinality(HeldBy(o)) /\ HeldBy(o) # {}
        /\ \A x \in Objects : x # o => HeldBy(x)' = HeldBy(x)
    <3>1. held \in Holdings /\ held' \in Holdings
      BY TypeOKStep DEF TypeOK, Holdings
    <3>2. Handed(t, u, o)
      <4>1. u # t /\ held' = [held EXCEPT ![t][o] = @ - 1, ![u][o] = @ + 1]
        BY <1>14 DEF Hand
      <4> QED
        BY <4>1, HandStep
    <3>3. held[t][o] > 0 /\ u # t
      BY <2>1
    <3> QED
      BY <3>1, <3>2, <3>3, TokenMoves
  <2>4. \A x \in Objects \ {o} : Exact(x)'
    BY <2>1, <2>2, <2>3, ExactKept
  <2>5. Exact(o)'
    BY <2>1, <2>2, <2>3 DEF Exact, References
  <2> QED
    BY <2>4, <2>5
<1>15. ASSUME port # "host", SectionGet(t)
      PROVE  \A x \in Objects : Exact(x)'
  <2>0. PICK o \in Objects : o = obj[t]
    BY <1>15 DEF CallInv, SectionGet
  <2>1. pc[t] = "get" /\ pc'[t] = "idle" /\ parent' = parent /\ o \in Objects
    BY <1>15, <2>0 DEF SectionGet, Return, At, treeVars, TypeOK, CallInv
  <2>2. OthersStay(t)
    BY OthersStayStep
  <2>3. \A x \in Objects : LinkedTo(x)' = LinkedTo(x) /\ PutBy(x)' = PutBy(x)
    BY <2>0, <2>1, <2>2, LinkedKept, PutByKept
  <2>4. CASE count[o] # 0
    <3>0. count' = [count EXCEPT ![o] = @ + 1] /\ held' = [held EXCEPT ![t][o] = @ + 1]
      BY <1>15, <2>0, <2>1, <2>4 DEF SectionGet, LockedGet, TypeOK
    <3>1. HeldStep(t, o, 1)
      BY <2>0, <2>1, <2>4, <3>0, HeldStepUp
    <3>2. \A x \in Objects \ {o} : HeldBy(x)' = HeldBy(x)
      BY <2>0, <2>1, <3>1, OtherTokens
    <3>3. \A x \in Objects \ {o} : Exact(x)'
      BY <2>3, <2>4, <3>0, <3>2, ExactKept DEF TypeOK
    <3>4. Cardinality(HeldBy(o)') = Cardinality(HeldBy(o)) + 1
      BY <2>0, <2>1, <3>1, TokenCountMore
    <3>5. Exact(o)
      BY <2>0, <2>1
    <3>6. count'[o] = count[o] + 1 /\ count[o] \in Nat
      BY <2>0, <2>1, <2>4, <3>0 DEF TypeOK
    <3>7. Exact(o)'
      BY <2>0, <2>1, <2>3, <2>4, <3>0, <3>4, <3>5, <3>6, CountsFinite DEF Exact, References
    <3> QED
      BY <3>3, <3>7
  <2>5. CASE count[o] = 0
    <3>1. count' = count
      BY <1>15, <2>0, <2>1, <2>5 DEF SectionGet, LockedGet, TypeOK
    <3>2. held' = held
      BY <1>15, <2>0, <2>1, <2>5 DEF SectionGet, TypeOK
    <3> QED
      BY <2>3, <3>1, <3>2, HeldKept, ExactKept
  <2> QED
    BY <2>4, <2>5
<1>16. ASSUME port # "host", SectionAttached(t)
      PROVE  \A x \in Objects : Exact(x)'
  <2>0. PICK o \in Objects : o = par[t]
    BY <1>16 DEF CallInv, SectionAttached
  <2>1. /\ pc[t] = "attach" /\ pc'[t] = "added" /\ parent' = parent /\ held' = held
        /\ o \in Objects /\ obj[t] \in Objects
    BY <1>16, <2>0 DEF SectionAttached, At, TypeOK, CallInv
  <2>2. OthersStay(t)
    BY OthersStayStep
  <2>3. \A x \in Objects : HeldBy(x)' = HeldBy(x) /\ PutBy(x)' = PutBy(x)
    BY <2>0, <2>1, <2>2, PutByKept, HeldKept
  <2>4. \A x \in Objects \ {o} : LinkedTo(x)' = LinkedTo(x)
    BY <2>0, <2>1, <2>2, LinkedMore
  <2>5. Cardinality(LinkedTo(o)') = Cardinality(LinkedTo(o)) + 1
    BY <2>0, <2>1, <2>2, LinkedMore
  <2>6. count[o] \in Nat /\ count' = [count EXCEPT ![o] = IF @ = 0 THEN 0 ELSE @ + 1]
    BY <1>16, <2>0, <2>1 DEF SectionAttached, LockedGet, TypeOK
  <2>7. \A x \in Objects \ {o} : Exact(x)'
    BY <2>3, <2>4, <2>6, ExactKept DEF TypeOK
  <2>8. Exact(o) /\ count'[o] = IF count[o] = 0 THEN 0 ELSE count[o] + 1
    BY <2>0, <2>1, <2>6 DEF TypeOK
  <2>9. Exact(o)'
    BY <2>0, <2>1, <2>3, <2>5, <2>6, <2>8, CountsFinite DEF Exact, References
  <2> QED
    BY <2>7, <2>9
<1> QED
  BY <1>1, <1>2, <1>3, <1>4, <1>5, <1>6, <1>7, <1>8, <1>9, <1>10, <1>11, <1>12, <1>13, <1>14, <1>15, <1>16 DEF Effect

\* Who holds a reference to an object knows it alive.
LEMMA HolderAlive ==
  ASSUME TypeOK, CountIsReferences, NEW t \in Threads, NEW o \in Objects, held[t][o] > 0
  PROVE  count[o] # 0
<1>1. HeldBy(o) # {}
  BY NoToken
<1> QED
  BY <1>1 DEF CountIsReferences

\* The put that writes the zero is the last user: nobody holds the object, no other put
\* is on its way, and a link to it is being made by a caller that may name it because
\* its storage is static.
LEMMA LastPut ==
  ASSUME TypeOK, CallInv, SectionInv, CountIsReferences, NameInv,
         NEW t \in Threads, NEW o \in Objects, pc[t] = "put", obj[t] = o, count[o] = 1
  PROVE  /\ PutBy(o) = {t}
         /\ \A c \in Objects : parent[c] = o => o \in StaticStorage
<1>1. /\ Cardinality(HeldBy(o)) + Cardinality(LinkedTo(o)) + Cardinality(PutBy(o)) = 1
      /\ t \in PutBy(o)
  BY DEF CountIsReferences, References, PutBy
<1>2. Cardinality(PutBy(o) \ {t}) = Cardinality(PutBy(o)) - 1 /\ IsFiniteSet(PutBy(o) \ {t})
  BY <1>1, CountsFinite, FS_RemoveElement
<1>3. Cardinality(PutBy(o) \ {t}) \in Nat
  BY <1>2, FS_CardinalityType
<1>4. Cardinality(HeldBy(o)) = 0 /\ Cardinality(LinkedTo(o)) = 0 /\ Cardinality(PutBy(o) \ {t}) = 0
  BY <1>1, <1>2, <1>3, CountsFinite
<1>5. HeldBy(o) = {} /\ LinkedTo(o) = {} /\ PutBy(o) \ {t} = {}
  BY <1>2, <1>4, CountsFinite, FS_EmptySet
<1>6. ASSUME NEW c \in Objects, parent[c] = o
      PROVE  o \in StaticStorage
  <2>1. PICK u \in Threads : pc[u] = "attach" /\ obj[u] = c
    BY <1>5, <1>6 DEF LinkedTo, Attaching
  <2>2. par[u] = o /\ o # None
    BY <1>6, <2>1 DEF SectionInv
  <2>3. CanName(u, o)
    BY <2>1, <2>2 DEF NameInv
  <2>4. ~ (held[u][o] > 0)
    BY <1>5, NoToken
  <2> QED
    BY <2>3, <2>4 DEF CanName
<1> QED
  BY <1>1, <1>5, <1>6

\* A dead object stays dead, and only a put kills: the counts of the other steps never
\* fall to zero.
LEMMA CountAlive ==
  ASSUME TypeOK, CallInv, NEW t \in Threads, Effect(t), ~PutEffect(t), NEW x \in Objects,
         count[x] # 0
  PROVE  count'[x] # 0
<1>1. CASE Attached(t)
  <2>1. count' = count \/ Exchange(t, par[t], old[t] + 1)
    BY <1>1 DEF Attached
  <2> QED
    BY <1>1, <2>1 DEF Attached, Exchange, TypeOK, CallInv
<1>2. CASE GetDone(t) \/ SectionGet(t) \/ SectionAttached(t)
  BY <1>2 DEF GetDone, SectionGet, SectionAttached, Exchange, LockedGet, TypeOK, CallInv
<1>3. CASE count' = count
  BY <1>3
<1> QED
  BY <1>1, <1>2, <1>3
     DEF Effect, Get, Put, Del, Add, Hand, GetRefused, PutRefused, Release, Retry, Reload,
         AddEvents, DelEvent

\* So what links and puts refer to stays alive.
LEMMA AliveInvStep ==
  ASSUME TypeOK, CallInv, SectionInv, CountIsReferences, NameInv, AliveInv,
         port' = port, NEW t \in Threads, Effect(t)
  PROVE  AliveInv'
<1> DEFINE Lives(x) == count'[x] # 0 \/ x \in StaticStorage
<1>1. CASE PutEffect(t)
  <2>0. PICK o \in Objects : obj[t] = o
    BY <1>1 DEF PutEffect, CallInv
  <2>1. /\ pc[t] = "put" /\ parent' = parent /\ pc'[t] \in {"idle", "release"}
        /\ count' = [count EXCEPT ![o] = IF @ = 0 THEN 0 ELSE @ - 1]
    BY <1>1, <2>0 DEF PutEffect, Return, At, treeVars, TypeOK
  <2>2. OthersStay(t)
    BY OthersStayStep
  <2>3. ASSUME NEW c \in Objects, parent'[c] # None
        PROVE  Lives(parent'[c])
    <3>1. parent[c] \in Objects /\ (count[parent[c]] # 0 \/ parent[c] \in StaticStorage)
      BY <2>1, <2>3 DEF AliveInv, TypeOK
    <3>2. CASE parent[c] # o
      BY <2>1, <3>1, <3>2 DEF TypeOK
    <3>3. CASE parent[c] = o
      <4>1. count[o] = 1 => o \in StaticStorage
        BY <2>0, <2>1, <3>3, LastPut
      <4>2. count[o] \in Nat /\ count'[o] = IF count[o] = 0 THEN 0 ELSE count[o] - 1
        BY <2>1 DEF TypeOK
      <4> QED
        BY <2>1, <3>1, <3>3, <4>1, <4>2
    <3> QED
      BY <3>2, <3>3
  <2>4. ASSUME NEW u \in Threads \ {t}, NEW x \in Objects,
               \/ pc[u] = "put" /\ obj[u] = x
               \/ pc[u] = "detached" /\ par[u] = x
        PROVE  Lives(x)
    <3>1. count[x] # 0 \/ x \in StaticStorage
      BY <2>4 DEF AliveInv
    <3>2. CASE x # o
      BY <2>1, <3>1, <3>2 DEF TypeOK
    <3>3. CASE x = o
      <4>1. u \in PutBy(o)
        BY <2>4, <3>3 DEF PutBy
      <4>2. count[o] # 1
        BY <2>0, <2>1, <4>1, LastPut
      <4>3. count[o] \in Nat /\ count'[o] = IF count[o] = 0 THEN 0 ELSE count[o] - 1
        BY <2>1 DEF TypeOK
      <4> QED
        BY <3>1, <3>3, <4>2, <4>3
    <3> QED
      BY <3>2, <3>3
  <2>5. ASSUME NEW u \in Threads, pc'[u] = "put"
        PROVE  Lives(obj'[u])
    <3>1. u # t /\ pc[u] = "put" /\ obj'[u] = obj[u] /\ obj[u] \in Objects
      BY <2>1, <2>2, <2>5 DEF OthersStay, CallInv
    <3> QED
      BY <2>4, <3>1
  <2>6. ASSUME NEW u \in Threads, pc'[u] = "detached"
        PROVE  Lives(par'[u])
    <3>1. u # t /\ pc[u] = "detached" /\ par'[u] = par[u] /\ par[u] \in Objects
      BY <2>1, <2>2, <2>6 DEF OthersStay, CallInv
    <3> QED
      BY <2>4, <3>1
  <2> QED
    BY <2>3, <2>5, <2>6 DEF AliveInv
<1>2. CASE ~PutEffect(t)
  <2>1. \A x \in Objects : count[x] # 0 => count'[x] # 0
    BY <1>2, CountAlive
  <2>2. OthersStay(t)
    BY OthersStayStep
  <2>3. ASSUME NEW c \in Objects, parent'[c] # None
        PROVE  Lives(parent'[c])
    <3>1. CASE parent'[c] = parent[c]
      BY <2>1, <2>3, <3>1 DEF AliveInv, TypeOK
    <3>2. CASE parent'[c] # parent[c]
      <4>1. PICK p \in Objects : Add(t, c, p)
        <5>1. \/ parent' = parent
              \/ \E o \in Objects : Del(t, o)
              \/ \E o \in Objects : \E p \in Objects : Add(t, o, p)
          BY <1>2 DEF Effect, Get, Put, Hand, GetRefused, GetDone, PutRefused, Release, Retry,
                      Reload, Attached, AddEvents, DelEvent, SectionGet, SectionAttached, treeVars
        <5>2. \A o \in Objects : ~Del(t, o)
          BY <2>3, <3>2 DEF Del, TypeOK
        <5>3. \A o \in Objects : \A p \in Objects : Add(t, o, p) => o = c
          BY <3>2 DEF Add, TypeOK
        <5> QED
          BY <3>2, <5>1, <5>2, <5>3
      <4>2. parent'[c] = p /\ CanName(t, p)
        BY <4>1 DEF Add, TypeOK
      <4> QED
        BY <2>1, <4>2, HolderAlive DEF CanName
    <3> QED
      BY <3>1, <3>2
  <2>4. ASSUME NEW u \in Threads, pc'[u] = "put"
        PROVE  Lives(obj'[u])
    <3>1. CASE pc[u] = "put" /\ obj'[u] = obj[u]
      BY <2>1, <3>1 DEF AliveInv, CallInv
    <3>2. CASE ~(pc[u] = "put" /\ obj'[u] = obj[u])
      <4>1. u = t
        BY <2>2, <2>4, <3>2 DEF OthersStay
      <4>2. (\E o \in Objects : Put(t, o)) \/ DelEvent(t)
        BY <1>2, <2>4, <3>2, <4>1, Whereabouts DEF At, Del, TypeOK
      <4>3. ASSUME NEW o \in Objects, Put(t, o)
            PROVE  Lives(obj'[t])
        <5>1. obj'[t] = o /\ held[t][o] > 0
          BY <4>3 DEF Put, TypeOK
        <5> QED
          BY <2>1, <5>1, HolderAlive
      <4>4. ASSUME DelEvent(t)
            PROVE  Lives(obj'[t])
        <5>1. obj'[t] = par[t] /\ pc[t] = "detached" /\ par[t] \in Objects
          BY <4>4 DEF DelEvent, TypeOK, CallInv
        <5> QED
          BY <2>1, <5>1 DEF AliveInv
      <4> QED
        BY <4>1, <4>2, <4>3, <4>4
    <3> QED
      BY <3>1, <3>2
  <2>5. ASSUME NEW u \in Threads, pc'[u] = "detached"
        PROVE  Lives(par'[u])
    <3>1. CASE pc[u] = "detached" /\ par'[u] = par[u]
      BY <2>1, <3>1 DEF AliveInv, CallInv
    <3>2. CASE ~(pc[u] = "detached" /\ par'[u] = par[u])
      <4>1. u = t
        BY <2>2, <2>5, <3>2 DEF OthersStay
      <4>2. \E o \in Objects : Del(t, o)
        BY <1>2, <2>5, <3>2, <4>1, Whereabouts DEF At, Put, DelEvent, TypeOK
      <4>3. PICK o \in Objects : Del(t, o)
        BY <4>2
      <4>4. parent[o] \in Objects /\ parent[o] # None /\ par'[t] = parent[o]
        BY <4>3 DEF Del, TypeOK
      <4> QED
        BY <2>1, <4>1, <4>4 DEF AliveInv
    <3> QED
      BY <3>1, <3>2
  <2> QED
    BY <2>3, <2>4, <2>5 DEF AliveInv
<1> QED
  BY <1>1, <1>2

\* No step writes the flag, and what has it is never released.
LEMMA StaticInvStep ==
  ASSUME TypeOK, CallInv, ReleaseInv, StaticInv, NeverReleased, NEW t \in Threads, Effect(t)
  PROVE  StaticInv' /\ NeverReleased'
<1>1. static' = static
  BY DEF Effect, Get, Put, Del, Add, Hand, GetRefused, GetDone, PutRefused, PutEffect, Release,
         Retry, Reload, Attached, AddEvents, DelEvent, SectionGet, SectionAttached
<1>2. CASE Release(t)
  <2>1. obj[t] \in Objects /\ released' = [released EXCEPT ![obj[t]] = @ + 1]
    BY <1>2 DEF Release, CallInv
  <2>2. obj[t] \notin Declared \cup Singletons
    <3>1. ~static[obj[t]]
      BY <1>2 DEF Release, ReleaseInv
    <3> QED
      BY <2>1, <3>1, Zenon DEF StaticInv
  <2>3. NeverReleased'
    BY <2>1, <2>2 DEF NeverReleased, TypeOK, Objects
  <2> QED
    BY <1>1, <2>3 DEF StaticInv
<1>3. CASE ~Release(t)
  <2>1. released' = released
    BY <1>3 DEF Effect, Get, Put, Del, Add, Hand, GetRefused, GetDone, PutRefused, PutEffect,
                Retry, Reload, Attached, AddEvents, DelEvent, SectionGet, SectionAttached
  <2> QED
    BY <1>1, <2>1 DEF StaticInv, NeverReleased
<1> QED
  BY <1>2, <1>3

-----------------------------------------------------------------------------
(* The invariant holds at the start and is kept. *)

\* At the start each object that was initialised has one reference, its maker's.
LEMMA InitCount ==
  ASSUME Init
  PROVE  CountIsReferences
<1> SUFFICES ASSUME NEW o \in Objects PROVE Exact(o)
  BY DEF CountIsReferences, Exact
<1>1. LinkedTo(o) = {} /\ PutBy(o) = {}
  BY DEF Init, LinkedTo, PutBy
<1>2. \A t \in Threads : held[t][o] = IF o \notin Declared /\ Maker[o] = t THEN 1 ELSE 0
  BY DEF Init
<1>3. CASE o \in Declared
  <2>1. count[o] = 0
    BY <1>3 DEF Init
  <2>2. HeldBy(o) = {}
    BY <1>2, <1>3 DEF HeldBy
  <2> QED
    BY <2>1, <2>2 DEF Exact
<1>4. CASE o \notin Declared
  <2>1. count[o] = 1
    BY <1>4 DEF Init
  <2>2. Maker[o] \in Threads
    OBVIOUS
  <2>3. HeldBy(o) = {<<Maker[o], 1>>}
    <3>1. \A t \in Threads : {t} \X (1..held[t][o]) = IF Maker[o] = t THEN {<<t, 1>>} ELSE {}
      BY <1>2, <1>4
    <3> QED
      BY <2>2, <3>1 DEF HeldBy
  <2>4. Cardinality(HeldBy(o)) = 1 /\ Cardinality(LinkedTo(o)) = 0 /\ Cardinality(PutBy(o)) = 0
    BY <1>1, <2>3, FS_Singleton, FS_EmptySet
  <2> QED
    BY <2>1, <2>4 DEF Exact, References
<1> QED
  BY <1>3, <1>4

\* The invariant at the start, in a stutter and in a step.
LEMMA InitInv ==
  ASSUME Init
  PROVE  IInv
<1>1. TypeOK
  BY DEF Init, TypeOK
<1>2. CallInv /\ SectionInv /\ ZeroInv /\ ReleaseInv /\ NameInv /\ AliveInv
  BY DEF Init, CallInv, SectionInv, ZeroInv, ReleaseInv, NameInv, AliveInv
<1>3. ReleasedOnce /\ NeverReleased
  BY DEF Init, ReleasedOnce, NeverReleased, Objects
<1>4. StaticInv
  BY DEF Init, StaticInv
<1> QED
  BY <1>1, <1>2, <1>3, <1>4, InitCount DEF IInv

LEMMA StutterInv ==
  ASSUME IInv, UNCHANGED vars
  PROVE  IInv'
<1>1. /\ UNCHANGED <<port, count, static, parent, mutex, released, held, pc, obj, par, old>>
      /\ \A o : HeldBy(o)' = HeldBy(o) /\ LinkedTo(o)' = LinkedTo(o) /\ PutBy(o)' = PutBy(o)
  BY DEF vars, treeVars, callVars, HeldBy, LinkedTo, Attaching, PutBy
<1>2. CountIsReferences'
  BY <1>1 DEF IInv, CountIsReferences, References
<1>3. TypeOK' /\ CallInv' /\ SectionInv' /\ ZeroInv'
  BY <1>1 DEF IInv, TypeOK, CallInv, SectionInv, ZeroInv
<1>4. ReleasedOnce' /\ ReleaseInv' /\ NameInv' /\ AliveInv'
  BY <1>1 DEF IInv, ReleasedOnce, ReleaseInv, NameInv, CanName, AliveInv
<1>5. StaticInv' /\ NeverReleased'
  BY <1>1 DEF IInv, StaticInv, NeverReleased
<1> QED
  BY <1>2, <1>3, <1>4, <1>5 DEF IInv

LEMMA NextInv ==
  ASSUME IInv, [Next]_vars
  PROVE  IInv'
<1>1. CASE Next
  <2>1. PICK t \in Threads : Step(t)
    BY <1>1, StepCases
  <2>2. port' = port
    BY <1>1, StepCases
  <2>3. Effect(t)
    BY <2>1, StepEffect DEF IInv
  <2>4. TypeOK' /\ CallInv' /\ SectionInv' /\ ZeroInv'
    BY <2>2, <2>3, TypeOKStep, CallInvStep, SectionInvStep, ZeroInvStep DEF IInv
  <2>5. CountIsReferences' /\ ReleasedOnce' /\ ReleaseInv'
    BY <2>2, <2>3, CountIsReferencesStep, ReleasedOnceStep, ReleaseInvStep DEF IInv
  <2>6. NameInv' /\ AliveInv'
    BY <2>2, <2>3, NameInvStep, AliveInvStep DEF IInv
  <2>7. StaticInv' /\ NeverReleased'
    BY <2>3, StaticInvStep DEF IInv
  <2> QED
    BY <2>4, <2>5, <2>6, <2>7 DEF IInv
<1> QED
  BY <1>1, StutterInv

\* The inductive invariant holds in every state of every behaviour.
THEOREM Invariance == Spec => []IInv
  BY InitInv, NextInv, PTL DEF Spec

-----------------------------------------------------------------------------
(* What follows for every state. *)

\* Every variable of the object model keeps its type, on every port.
THEOREM ObjectTyping == Spec => []TypeOK
<1>1. IInv => TypeOK
  BY DEF IInv
<1> QED
  BY <1>1, Invariance, PTL

\* At every step of any number of threads, and not only when they have all come to rest
\* as in the concurrent tests, the count of a live object is the number of references to
\* it: none is lost by two exchanges that race, or by an attach that races a detach.
THEOREM ExactCounts == Spec => []CountIsReferences
<1>1. IInv => CountIsReferences
  BY DEF IInv
<1> QED
  BY <1>1, Invariance, PTL

\* Of any number of racing puts one calls the release hook, and only when the count is
\* zero and stays so.
THEOREM ReleasedAtMostOnce == Spec => []ReleasedOnce
<1>1. IInv => ReleasedOnce
  BY DEF IInv
<1> QED
  BY <1>1, Invariance, PTL

\* The objects a call works on have not been released, but for those of which
\* light_object_init() cleared the static flag.
LEMMA TouchedAlive ==
  ASSUME IInv, NEW t \in Threads, NEW o \in Touched(t) \ Reinited
  PROVE  released[o] = 0
<1>1. /\ TypeOK /\ CallInv /\ CountIsReferences /\ ReleasedOnce /\ NameInv /\ AliveInv
      /\ NeverReleased
  BY DEF IInv
<1>2. o \in Objects /\ (CanName(t, o) \/ count[o] # 0 \/ o \in StaticStorage)
  <2>1. CASE pc[t] = "get"
    BY <1>1, <2>1 DEF Touched, CallInv, NameInv
  <2>2. CASE pc[t] = "put"
    BY <1>1, <2>2 DEF Touched, CallInv, AliveInv
  <2>3. CASE pc[t] \in {"attach", "added", "detached"}
    <3>1. o \in {obj[t], par[t]} /\ o # None
      BY <2>3 DEF Touched
    <3>2. o \in Objects
      BY <1>1, <3>1 DEF TypeOK
    <3> QED
      BY <1>1, <2>3, <3>1, <3>2 DEF NameInv, AliveInv
  <2> QED
    BY <2>1, <2>2, <2>3 DEF Touched
<1>3. CASE count[o] # 0
  BY <1>1, <1>2, <1>3 DEF ReleasedOnce, TypeOK
<1>4. CASE o \in StaticStorage
  BY <1>1, <1>4 DEF NeverReleased, StaticStorage
<1> QED
  BY <1>1, <1>2, <1>3, <1>4, HolderAlive DEF CanName

\* In any program: an object that was not reinitialised is not used after its release.
THEOREM OthersNotUsedAfterRelease ==
  Spec => [](\A t \in Threads : \A o \in Touched(t) \ Reinited : released[o] = 0)
<1>1. IInv => \A t \in Threads : \A o \in Touched(t) \ Reinited : released[o] = 0
  BY TouchedAlive
<1> QED
  BY <1>1, Invariance, PTL

\* Without such objects (run object_static shows what becomes of one) no thread, in no
\* retry loop and no callback, works on an object whose release hook has begun.
THEOREM NoUseOfReleased ==
  ASSUME Reinited = {}
  PROVE  Spec => []NoUseAfterRelease
<1>1. IInv => NoUseAfterRelease
  <2> SUFFICES ASSUME IInv, NEW t \in Threads, NEW o \in Touched(t)
               PROVE  released[o] = 0
    BY DEF NoUseAfterRelease
  <2> QED
    BY TouchedAlive
<1> QED
  BY <1>1, Invariance, PTL

\* Nor is storage the program did not allocate ever given to free().
THEOREM StaticNeverFreed ==
  ASSUME Reinited = {}
  PROVE  Spec => []StaticStorageKept
<1>1. IInv => StaticStorageKept
  BY DEF IInv, NeverReleased, StaticStorageKept, StaticStorage
<1> QED
  BY <1>1, Invariance, PTL

=============================================================================
