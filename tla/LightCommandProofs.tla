------------------------- MODULE LightCommandProofs -------------------------
(***************************************************************************)
(* Theorems about LightCommand, for every program: any set of commands and *)
(* options, any link order, any limits.                                    *)
(***************************************************************************)
EXTENDS LightCommand, FiniteSetTheorems, SequenceTheorems, WellFoundedInduction, TLAPS

USE CommandsAssumption, DeclaredAssumption, LimitsAssumption

-----------------------------------------------------------------------------
(* Least elements: the form of induction these proofs use. *)

LEMMA LeastElement ==
  ASSUME NEW T, T \subseteq Nat, T # {}
  PROVE  \E n \in T : \A k \in T : n <= k
<1>1. PICK n \in T : \A k \in T : ~ (<<k, n>> \in OpToRel(<, Nat))
  BY NatLessThanWellFounded, WFMin, Zenon
<1>2. ASSUME NEW k \in T PROVE ~(k < n)
  BY <1>1, <1>2, Zenon DEF OpToRel
<1>3. ASSUME NEW k \in T PROVE n <= k
  BY <1>2
<1> QED
  BY <1>3

-----------------------------------------------------------------------------
(* Walking up the tree. *)

Above == Commands \cup {Root, AppRoot, None}

Parents == [Commands -> Above]

\* One step up, as the loops of command.c take it.
Up(up, x) == IF x \in Commands THEN up[x] ELSE None

IsWalk(up, c, w, m) ==
  w = [n \in 0..m |-> IF n = 0 THEN c
                      ELSE IF w[n - 1] \in Commands THEN up[w[n - 1]] ELSE None]

LEMMA WalkExists ==
  ASSUME NEW up \in Parents, NEW c \in Commands, NEW m \in Nat
  PROVE  \E w : IsWalk(up, c, w, m)
<1> DEFINE T == {n \in Nat : ~ \E w : IsWalk(up, c, w, n)}
<1> SUFFICES ASSUME T # {} PROVE FALSE
  OBVIOUS
<1>1. PICK n \in T : \A k \in T : n <= k
  BY LeastElement
<1>2. CASE n = 0
  <2> DEFINE w == [k \in 0..0 |-> c]
  <2>1. w = [k \in 0..0 |-> IF k = 0 THEN c
                            ELSE IF w[k - 1] \in Commands THEN up[w[k - 1]] ELSE None]
    OBVIOUS
  <2>2. IsWalk(up, c, w, 0)
    BY <2>1 DEF IsWalk
  <2> QED
    BY <1>2, <2>2
<1>3. CASE n # 0
  <2>1. n - 1 \in Nat /\ n - 1 \notin T
    BY <1>1, <1>3
  <2>2. PICK v : IsWalk(up, c, v, n - 1)
    BY <2>1
  <2> DEFINE top == n - 1
             B(x, k) == IF k = 0 THEN c
                        ELSE IF x[k - 1] \in Commands THEN up[x[k - 1]] ELSE None
             w == [k \in 0..n |-> IF k = n THEN Up(up, v[top]) ELSE v[k]]
  <2>3. \A k \in 0..top : v[k] = B(v, k)
    <3>1. v = [k \in 0..top |-> B(v, k)]
      BY <2>2 DEF IsWalk
    <3> HIDE DEF B, top
    <3> QED
      BY <3>1
  <2>4. top \in Nat /\ n = top + 1
    BY <2>1
  <2>5. w = [k \in 0..n |-> w[k]] /\ w[n] = Up(up, v[top]) /\ \A k \in 0..top : w[k] = v[k]
    BY <2>4
  <2> HIDE DEF w, top
  <2>6. ASSUME NEW k \in 0..n PROVE w[k] = B(w, k)
    <3>1. CASE k = 0
      <4>1. 0 \in 0..top
        BY <2>4
      <4>2. w[0] = v[0] /\ v[0] = B(v, 0)
        BY <2>3, <2>5, <4>1
      <4> QED
        BY <3>1, <4>2
    <3>2. CASE k \in 1..top
      <4>1. k - 1 \in 0..top /\ k \in 0..top /\ k # 0
        BY <2>4, <3>2
      <4> QED
        BY <2>3, <2>5, <4>1
    <3>3. CASE k = n
      <4>1. k - 1 = top /\ top \in 0..top /\ k # 0
        BY <2>4, <3>3
      <4> QED
        BY <2>5, <3>3, <4>1 DEF Up
    <3> QED
      BY <2>4, <3>1, <3>2, <3>3
  <2>7. w = [k \in 0..n |-> B(w, k)]
    <3> HIDE DEF B
    <3> QED
      BY <2>5, <2>6
  <2>8. IsWalk(up, c, w, n)
    BY <2>7 DEF IsWalk
  <2> QED
    BY <2>8
<1> QED
  BY <1>2, <1>3

LEMMA AncestorIsWalk ==
  ASSUME NEW up, NEW c, \E w : IsWalk(up, c, w, MaxDepth)
  PROVE  IsWalk(up, c, Ancestor(up, c), MaxDepth)
  BY Zenon DEF IsWalk, Ancestor

\* The walk starts at the command and follows parent, one struct at a time.
LEMMA AncestorSteps ==
  ASSUME NEW up \in Parents, NEW c \in Commands
  PROVE  /\ Ancestor(up, c)[0] = c
         /\ \A n \in 1..MaxDepth : Ancestor(up, c)[n] = Up(up, Ancestor(up, c)[n - 1])
         /\ \A n \in 0..MaxDepth : Ancestor(up, c)[n] \in Above
<1> DEFINE w == Ancestor(up, c)
<1>1. MaxDepth \in Nat /\ MaxDepth >= 1
  OBVIOUS
<1>2. IsWalk(up, c, w, MaxDepth)
  BY <1>1, WalkExists, AncestorIsWalk
<1> HIDE DEF w
<1>3. /\ w[0] = c
      /\ \A n \in 1..MaxDepth : w[n] = IF w[n - 1] \in Commands THEN up[w[n - 1]] ELSE None
  BY <1>1, <1>2 DEF IsWalk
<1>4. ASSUME NEW n \in 0..MaxDepth PROVE w[n] \in Above
  <2>1. CASE n = 0
    BY <1>3, <2>1 DEF Above
  <2>2. CASE n # 0
    <3>1. n \in 1..MaxDepth
      BY <1>1, <2>2
    <3> QED
      BY <1>3, <3>1 DEF Above, Parents
  <2> QED
    BY <2>1, <2>2
<1> QED
  BY <1>3, <1>4 DEF w, Up

\* A full name joins the command and its ancestors below root_command.
LEMMA FullNameParts ==
  ASSUME NEW up \in Parents, NEW c \in Commands
  PROVE  \E d \in 1..MaxDepth :
           /\ FullName(up, c) = [i \in 1..d |-> Ancestor(up, c)[d - i]]
           /\ \A k \in 0..(d - 1) : Ancestor(up, c)[k] \notin {Root, None}
           /\ d = MaxDepth \/ Ancestor(up, c)[d] \in {Root, None}
<1> DEFINE w == Ancestor(up, c)
           Ends(n) == n = MaxDepth \/ w[n] \in {Root, None}
           Good(n) == /\ \A k \in 0..(n - 1) : w[k] \notin {Root, None}
                      /\ Ends(n)
           T == {n \in 1..MaxDepth : Ends(n)}
<1>1. MaxDepth \in Nat /\ MaxDepth >= 1 /\ w[0] \in Commands
  BY AncestorSteps
<1> HIDE DEF w
<1>2. T \subseteq Nat /\ MaxDepth \in T
  BY <1>1
<1> HIDE DEF T
<1>3. PICK m \in T : \A k \in T : m <= k
  BY <1>2, LeastElement
<1> USE DEF T
<1>4. ASSUME NEW k \in 0..(m - 1) PROVE w[k] \notin {Root, None}
  <2>1. CASE k = 0
    BY <1>1, <2>1
  <2>2. CASE k # 0
    <3>1. k \in 1..MaxDepth /\ k < m
      BY <1>1, <1>3, <2>2
    <3>2. k \notin T
      BY <1>1, <1>3, <3>1
    <3> QED
      BY <3>1, <3>2
  <2> QED
    BY <2>1, <2>2
<1>5. m \in 1..MaxDepth /\ Good(m)
  BY <1>3, <1>4
<1> DEFINE depth == CHOOSE n \in 1..MaxDepth : Good(n)
<1> HIDE DEF Good
<1>6. depth \in 1..MaxDepth /\ Good(depth)
  BY <1>5
<1>7. FullName(up, c) = [i \in 1..depth |-> w[depth - i]]
  BY DEF FullName, Good, w
<1> HIDE DEF depth
<1> QED
  BY <1>6, <1>7 DEF Good, w

LEMMA FullNameType ==
  ASSUME NEW up \in Parents, NEW c \in Commands
  PROVE  FullName(up, c) \in Seq(Commands \cup {AppRoot}) /\ FullName(up, c) # <<>>
<1>1. PICK d \in 1..MaxDepth :
        /\ FullName(up, c) = [i \in 1..d |-> Ancestor(up, c)[d - i]]
        /\ \A k \in 0..(d - 1) : Ancestor(up, c)[k] \notin {Root, None}
  BY FullNameParts
<1>2. \A n \in 0..MaxDepth : Ancestor(up, c)[n] \in Above
  BY AncestorSteps
<1>3. MaxDepth \in Nat /\ d \in Nat /\ d >= 1 /\ d <= MaxDepth
  OBVIOUS
<1> DEFINE w == Ancestor(up, c)  f == FullName(up, c)
<1> HIDE DEF w, f
<1>4. f = [i \in 1..d |-> w[d - i]] /\ \A i \in 1..d : w[d - i] \in Commands \cup {AppRoot}
  <2>1. f = [i \in 1..d |-> w[d - i]]
    BY <1>1 DEF w, f
  <2>2. ASSUME NEW i \in 1..d PROVE w[d - i] \in Commands \cup {AppRoot}
    <3>1. d - i \in 0..(d - 1) /\ d - i \in 0..MaxDepth
      BY <1>3
    <3> QED
      BY <1>1, <1>2, <3>1 DEF w, Above
  <2> QED
    BY <2>1, <2>2
<1>5. f \in Seq(Commands \cup {AppRoot}) /\ Len(f) = d
  BY <1>3, <1>4
<1>6. f # <<>>
  BY <1>3, <1>5
<1> QED
  BY <1>5, <1>6 DEF f

-----------------------------------------------------------------------------
(* The inductive invariant.                                                *)

\* c is some command's child.
Hangs(c) == \E p \in Nodes : c \in Elements(child[p])

\* A child's parent pointer leads back to where it hangs, no command hangs twice, and a
\* full name is what a command gets when it is hung.
TreeInv ==
  /\ \A c \in linked : Declared[c] \in linked \cup {Root, AppRoot}
  /\ \A p \in Nodes : \A i \in 1..Len(child[p]) :
       child[p][i] \in linked /\ parent[child[p][i]] = p
  /\ \A p \in Nodes : \A i, j \in 1..Len(child[p]) : child[p][i] = child[p][j] => i = j
  /\ \A c \in Commands : full[c] # <<>> <=> Hangs(c)

\* Parents are the declared ones, the sentinel's aside; a command made at run time has one
\* once it hangs, and nothing is below it before it exists.
ParentInv ==
  /\ \A c \in Commands \ Created :
       \/ parent[c] = Declared[c]
       \/ Declared[c] = AppRoot /\ appRoot # None /\ parent[c] = appRoot
  /\ \A c \in Created : parent[c] = None \/ (parent[c] = Declared[c] /\ Hangs(c))
  /\ \A c \in Commands : parent[c] \in Created => Exists(parent[c])

\* The application's root: resolved after the load, a child of root_command or the declared
\* candidate, and the only declared root that may hang.
RootInv ==
  /\ phase = "load" => appRoot = None
  /\ phase # "load" => records = {}
  /\ candidate = None => appRoot = None
  /\ phase # "load" /\ appRoot = None => candidate = None
  /\ candidate # None => candidate \in linked /\ candidate \notin records
  /\ appRoot # None =>
       appRoot \in linked /\ parent[appRoot] = Root /\ (appRoot = candidate \/ Hangs(appRoot))
  /\ \A c \in AutoRoots : Hangs(c) => c = appRoot

\* What waits, for its record or for the root, waits once and does not hang.
QueueInv ==
  /\ \A i, j \in 1..Len(pending) : pending[i] = pending[j] => i = j
  /\ \A i \in 1..Len(pending) : /\ pending[i] \in linked \ (Created \cup AutoRoots)
                                /\ pending[i] \notin records /\ ~Hangs(pending[i])
  /\ \A c \in records \cap Commands : c \notin Created /\ ~Hangs(c)
  /\ phase = "done" => pending = <<>>
  /\ at <= Len(pending) + 1

\* No record is forgotten: it waits, hangs, was reported, or is the root that gave way.
StatusInv ==
  \A c \in linked \ Created :
    \/ c \in records \/ c \in Elements(pending) \/ Hangs(c) \/ c \in reported
    \/ c = candidate /\ (phase = "load" \/ appRoot # candidate)

\* The name of the candidate leads to the root that was resolved, or there was no room.
FindInv ==
  phase # "load" /\ candidate # None =>
    \/ Find(Root, Name[candidate]) = appRoot
    \/ /\ candidate \in reported /\ appRoot = candidate
       /\ Find(Root, Name[candidate]) = None /\ Len(child[Root]) >= MaxSub

\* No ancestor within the depth of a full name is the sentinel.
Safe(up, c) == \A n \in 0..(MaxDepth - 1) : Ancestor(up, c)[n] # AppRoot

SafeInv ==
  /\ ~FollowedSentinel => \A c \in Commands : Hangs(c) => Safe(parent, c)
  /\ NeverThroughSentinel

\* What waits for the root is below the sentinel; what this pass has looked at and left
\* still cannot be attached; nothing is reported while there is room.
PassInv ==
  /\ \A i \in 1..Len(pending) : BelowSentinel(pending[i])
  /\ phase = "drain" /\ ~progress => \A i \in 1..(at - 1) : ~Resolved(pending[i])

RoomInv == Fits => reported \cap Commands = {}

Inv == /\ TypeOK /\ TreeInv /\ ParentInv /\ RootInv
       /\ QueueInv /\ StatusInv /\ FindInv /\ SafeInv

-----------------------------------------------------------------------------
(* Registration, as its callers use it.                                     *)

\* c may be hung below p: it hangs nowhere, p is where it belongs, and no name is built
\* through the sentinel unless c is made below a command that hangs nowhere.
Placeable(c, p) ==
  /\ ~FollowedSentinel
  /\ c \in linked /\ p \in linked \cup {Root} /\ ~Hangs(c)
  /\ \/ parent[c] = p
     \/ parent[c] = AppRoot /\ appRoot # None /\ p = appRoot
     \/ parent[c] = None /\ c \in Created /\ c \notin reported /\ p = Declared[c]
  /\ p \in Created => Exists(p)
  /\ \/ Safe([parent EXCEPT ![c] = p], c)
     \/ c \in Created /\ parent[c] = None /\ p \in Commands /\ ~Hangs(p)

Attaches(c, p) ==
  /\ Len(child[p]) < MaxSub
  /\ parent' = [parent EXCEPT ![c] = p]
  /\ child' = [child EXCEPT ![p] = Append(@, c)]
  /\ full' = [full EXCEPT ![c] = FullName(parent', c)]
  /\ reported' = reported

Refuses(c, p) ==
  /\ Len(child[p]) >= MaxSub
  /\ parent' = Placed(c)
  /\ reported' = reported \cup {c}
  /\ UNCHANGED <<child, full>>

Registers(c, p) == Placeable(c, p) /\ (Attaches(c, p) \/ Refuses(c, p))

TreeStands == UNCHANGED tree

LEMMA SetsFacts ==
  /\ Root \notin Commands /\ AppRoot \notin Commands /\ None \notin Commands
  /\ Root \in Nodes /\ Commands \subseteq Nodes /\ Commands \subseteq Above
  /\ Root \in Above /\ AppRoot \in Above /\ None \in Above
  /\ AppRoot \notin Nodes /\ None \notin Nodes
  BY DEF Nodes, Above

LEMMA RegisterIs ==
  ASSUME TypeOK, NEW c \in Commands, NEW p \in Nodes, Placeable(c, p), Register(Placed(c), p, c)
  PROVE  Registers(c, p)
<1>1. parent \in [Commands -> Above]
  BY DEF TypeOK, Above
<1>2. [Placed(c) EXCEPT ![c] = p] = [parent EXCEPT ![c] = p]
  BY <1>1 DEF Placed
<1>3. Len(child[p]) \in Nat
  BY DEF TypeOK
<1>4. CASE Len(child[p]) >= MaxSub
  BY <1>4 DEF Register, Registers, Refuses
<1>5. CASE Len(child[p]) < MaxSub
  <2>1. ~(Len(child[p]) >= MaxSub)
    BY <1>3, <1>5
  <2> QED
    BY <1>2, <1>5, <2>1 DEF Register, Registers, Attaches
<1> QED
  BY <1>3, <1>4, <1>5

LEMMA HasElement ==
  ASSUME NEW S, NEW s \in Seq(S), NEW x
  PROVE  x \in Elements(s) <=> \E i \in 1..Len(s) : s[i] = x
  BY DEF Elements

LEMMA AppendElements ==
  ASSUME NEW S, NEW s \in Seq(S), NEW x \in S, NEW y
  PROVE  y \in Elements(Append(s, x)) <=> y \in Elements(s) \/ y = x
<1>1. /\ Append(s, x) \in Seq(S) /\ Len(Append(s, x)) = Len(s) + 1
      /\ \A i \in 1..Len(s) : Append(s, x)[i] = s[i]
      /\ Append(s, x)[Len(s) + 1] = x /\ Len(s) \in Nat
  OBVIOUS
<1> DEFINE t == Append(s, x)
<1> HIDE DEF t
<1>2. t \in Seq(S) /\ Len(t) = Len(s) + 1 /\ Len(s) \in Nat /\ t[Len(s) + 1] = x
      /\ \A i \in 1..Len(s) : t[i] = s[i]
  BY <1>1 DEF t
<1>3. (\E i \in 1..Len(t) : t[i] = y) <=> (\E i \in 1..Len(s) : s[i] = y) \/ y = x
  <2>1. ASSUME NEW i \in 1..Len(t), t[i] = y PROVE (\E j \in 1..Len(s) : s[j] = y) \/ y = x
    <3>1. i \in 1..Len(s) \/ i = Len(s) + 1
      BY <1>2, <2>1
    <3> QED
      BY <1>2, <2>1, <3>1
  <2>2. ASSUME NEW i \in 1..Len(s), s[i] = y PROVE \E j \in 1..Len(t) : t[j] = y
    <3>1. i \in 1..Len(t) /\ t[i] = y
      BY <1>2, <2>2
    <3> QED
      BY <3>1
  <2>3. Len(s) + 1 \in 1..Len(t)
    BY <1>2
  <2> QED
    BY <1>2, <2>1, <2>2, <2>3
<1>4. y \in Elements(t) <=> \E i \in 1..Len(t) : t[i] = y
  BY <1>2, HasElement
<1>5. y \in Elements(s) <=> \E i \in 1..Len(s) : s[i] = y
  BY HasElement
<1> QED
  BY <1>3, <1>4, <1>5 DEF t

\* What an attachment does to the children.
LEMMA AttachChildren ==
  ASSUME TypeOK, NEW c \in Commands, NEW p \in Nodes, Attaches(c, p)
  PROVE  /\ child' \in [Nodes -> Seq(Commands)]
         /\ Len(child'[p]) = Len(child[p]) + 1 /\ child'[p][Len(child[p]) + 1] = c
         /\ Len(child[p]) \in Nat /\ Len(child[p]) < MaxSub
         /\ \A i \in 1..Len(child[p]) : child'[p][i] = child[p][i]
         /\ \A q \in Nodes : q # p => child'[q] = child[q]
         /\ \A x : Hangs(x)' <=> Hangs(x) \/ x = c
<1>1. /\ child \in [Nodes -> Seq(Commands)] /\ child[p] \in Seq(Commands)
      /\ child' = [child EXCEPT ![p] = Append(@, c)]
  BY DEF TypeOK, Attaches
<1>2. child' \in [Nodes -> Seq(Commands)] /\ child'[p] = Append(child[p], c)
      /\ \A q \in Nodes : q # p => child'[q] = child[q]
  BY <1>1
<1>3. /\ Len(child'[p]) = Len(child[p]) + 1 /\ child'[p][Len(child[p]) + 1] = c
      /\ Len(child[p]) \in Nat
      /\ \A i \in 1..Len(child[p]) : child'[p][i] = child[p][i]
  BY <1>1, <1>2
<1>4. ASSUME NEW x PROVE Hangs(x)' <=> Hangs(x) \/ x = c
  <2>1. x \in Elements(child'[p]) <=> x \in Elements(child[p]) \/ x = c
    BY <1>1, <1>2, AppendElements
  <2>2. \A q \in Nodes : q # p => (x \in Elements(child'[q]) <=> x \in Elements(child[q]))
    BY <1>2
  <2> QED
    BY <2>1, <2>2 DEF Hangs
<1> QED
  BY <1>2, <1>3, <1>4 DEF Attaches

LEMMA RefusedHangs ==
  ASSUME UNCHANGED child PROVE \A x : Hangs(x)' <=> Hangs(x)
  BY DEF Hangs

LEMMA ParentType ==
  ASSUME TypeOK PROVE parent \in Parents
  BY DEF TypeOK, Parents, Above

LEMMA PlacedType ==
  ASSUME TypeOK, NEW c \in Commands PROVE Placed(c) \in Parents
  BY DEF TypeOK, Parents, Above, Placed

-----------------------------------------------------------------------------
(* Walks that meet no sentinel.                                            *)

\* Once a walk has left the commands it stays at NULL.
LEMMA WalkEnds ==
  ASSUME NEW up \in Parents, NEW c \in Commands, NEW k \in 0..MaxDepth,
         Ancestor(up, c)[k] \notin Commands
  PROVE  \A n \in (k + 1)..MaxDepth : Ancestor(up, c)[n] = None
<1> DEFINE w == Ancestor(up, c)
           T == {n \in Nat : n \in (k + 1)..MaxDepth /\ w[n] # None}
<1>1. /\ MaxDepth \in Nat /\ k \in Nat /\ w[k] \notin Commands
      /\ \A n \in 1..MaxDepth : w[n] = Up(up, w[n - 1])
  BY AncestorSteps
<1>2. None \notin Commands
  BY SetsFacts
<1> HIDE DEF w
<1> SUFFICES ASSUME T # {} PROVE FALSE
  BY <1>1 DEF w
<1>3. PICK n \in T : \A j \in T : n <= j
  BY LeastElement
<1>4. n \in 1..MaxDepth /\ n - 1 \in k..MaxDepth /\ n - 1 \in Nat
  BY <1>1, <1>3
<1>5. w[n - 1] \notin Commands
  <2>1. CASE n - 1 = k
    BY <1>1, <2>1
  <2>2. CASE n - 1 # k
    <3>1. n - 1 \in (k + 1)..MaxDepth /\ n - 1 \notin T
      BY <1>1, <1>3, <1>4, <2>2
    <3> QED
      BY <1>2, <1>4, <3>1
  <2> QED
    BY <2>1, <2>2
<1>6. w[n] = None
  BY <1>1, <1>4, <1>5 DEF Up
<1> QED
  BY <1>3, <1>6

\* A parent pointer the walk does not use may change.
LEMMA WalkAvoids ==
  ASSUME NEW up \in Parents, NEW up2 \in Parents, NEW d \in Commands, NEW c \in Commands,
         NEW m \in 0..MaxDepth,
         \A x \in Commands : x # c => up2[x] = up[x],
         \A n \in 0..(m - 1) : Ancestor(up, d)[n] # c
  PROVE  \A n \in 0..m : Ancestor(up2, d)[n] = Ancestor(up, d)[n]
<1> DEFINE w == Ancestor(up, d)  v == Ancestor(up2, d)
           T == {n \in Nat : n \in 0..m /\ v[n] # w[n]}
<1>1. /\ MaxDepth \in Nat /\ m \in Nat /\ w[0] = d /\ v[0] = d
      /\ \A n \in 1..MaxDepth : w[n] = Up(up, w[n - 1])
      /\ \A n \in 1..MaxDepth : v[n] = Up(up2, v[n - 1])
      /\ \A n \in 0..(m - 1) : w[n] # c
  BY AncestorSteps
<1> HIDE DEF w, v
<1> SUFFICES ASSUME T # {} PROVE FALSE
  BY <1>1 DEF w, v
<1>2. PICK n \in T : \A j \in T : n <= j
  BY LeastElement
<1>3. n \in 1..MaxDepth /\ n - 1 \in 0..(m - 1) /\ n - 1 \in 0..m /\ n - 1 \in Nat
  BY <1>1, <1>2
<1>4. n - 1 \notin T
  BY <1>2, <1>3
<1>5. v[n - 1] = w[n - 1] /\ w[n - 1] # c
  BY <1>1, <1>3, <1>4
<1>6. v[n] = w[n]
  BY <1>1, <1>3, <1>5 DEF Up
<1> QED
  BY <1>2, <1>6

\* The walk from c is c, then the walk from its parent.
LEMMA WalkShifts ==
  ASSUME NEW up \in Parents, NEW c \in Commands, up[c] \in Commands
  PROVE  \A n \in 1..MaxDepth : Ancestor(up, c)[n] = Ancestor(up, up[c])[n - 1]
<1> DEFINE w == Ancestor(up, c)  v == Ancestor(up, up[c])
           T == {n \in Nat : n \in 1..MaxDepth /\ w[n] # v[n - 1]}
<1>1. /\ MaxDepth \in Nat /\ w[0] = c /\ v[0] = up[c]
      /\ \A n \in 1..MaxDepth : w[n] = Up(up, w[n - 1])
      /\ \A n \in 1..MaxDepth : v[n] = Up(up, v[n - 1])
  BY AncestorSteps
<1> HIDE DEF w, v
<1> SUFFICES ASSUME T # {} PROVE FALSE
  BY <1>1 DEF w, v
<1>2. PICK n \in T : \A j \in T : n <= j
  BY LeastElement
<1>3. CASE n = 1
  <2>1. w[1] = Up(up, w[0])
    BY <1>1, <1>2, <1>3
  <2>2. w[1] = up[c]
    BY <1>1, <2>1 DEF Up
  <2>3. v[n - 1] = v[0]
    BY <1>3
  <2> QED
    BY <1>1, <1>2, <1>3, <2>2, <2>3
<1>4. CASE n # 1
  <2>1. n - 1 \in 1..MaxDepth /\ n - 1 \in Nat /\ n \in 1..MaxDepth
    BY <1>1, <1>2, <1>4
  <2>2. n - 1 \notin T
    BY <1>2, <2>1
  <2>3. w[n - 1] = v[(n - 1) - 1]
    BY <2>1, <2>2
  <2>4. w[n] = v[n - 1]
    BY <1>1, <2>1, <2>3
  <2> QED
    BY <1>2, <2>4
<1> QED
  BY <1>3, <1>4

\* The last step of a walk to the sentinel is over a parent that is the sentinel.
LEMMA ReachesSentinel ==
  ASSUME NEW up \in Parents, NEW c \in Commands, NEW n \in 0..MaxDepth,
         Ancestor(up, c)[n] = AppRoot
  PROVE  /\ n \in 1..MaxDepth /\ n - 1 \in 0..(MaxDepth - 1)
         /\ Ancestor(up, c)[n - 1] \in Commands /\ up[Ancestor(up, c)[n - 1]] = AppRoot
<1>1. Ancestor(up, c)[0] = c /\ MaxDepth \in Nat
  BY AncestorSteps
<1>2. n # 0
  BY <1>1, SetsFacts
<1>3. n \in 1..MaxDepth /\ n - 1 \in 0..(MaxDepth - 1)
  BY <1>1, <1>2
<1>4. Ancestor(up, c)[n] = Up(up, Ancestor(up, c)[n - 1])
  BY <1>3, AncestorSteps
<1> QED
  BY <1>3, <1>4, SetsFacts DEF Up

LEMMA ResolvedSafe ==
  ASSUME TypeOK, NEW c \in Commands, Resolved(c), parent[c] # AppRoot
  PROVE  Safe(parent, c)
<1> SUFFICES ASSUME NEW n \in 0..(MaxDepth - 1), Ancestor(parent, c)[n] = AppRoot PROVE FALSE
  BY DEF Safe
<1>0. parent \in Parents
  BY ParentType
<1> DEFINE w == Ancestor(parent, c)  k == n - 1
<1>4. n \in 0..MaxDepth
  OBVIOUS
<1>1. k \in 0..(MaxDepth - 1) /\ w[k] \in Commands /\ parent[w[k]] = AppRoot
  BY <1>0, <1>4, ReachesSentinel
<1>2. w[0] = c
  BY <1>0, AncestorSteps
<1> HIDE DEF k
<1>3. k = 0
  BY <1>1 DEF Resolved
<1> QED
  BY <1>1, <1>2, <1>3

\* A child of root_command, or of one, is safe.
LEMMA ShortSafe ==
  ASSUME NEW up \in Parents, NEW c \in Commands,
         up[c] = Root \/ (up[c] \in Commands /\ up[up[c]] = Root)
  PROVE  Safe(up, c)
<1> DEFINE w == Ancestor(up, c)
<1>1. /\ MaxDepth \in Nat /\ MaxDepth >= 1 /\ w[0] = c
      /\ \A n \in 1..MaxDepth : w[n] = Up(up, w[n - 1])
  BY AncestorSteps
<1>2. w[1] = up[c]
  <2>1. w[1] = Up(up, w[1 - 1]) /\ 1 - 1 = 0
    BY <1>1
  <2> HIDE DEF w
  <2> QED
    BY <1>1, <2>1 DEF Up
<1>3. ASSUME NEW n \in 0..MaxDepth, w[n] = AppRoot PROVE FALSE
  <2>1. n # 0
    BY <1>1, <1>3, SetsFacts
  <2>2. n # 1
    BY <1>2, <1>3, SetsFacts
  <2>3. n \in 2..MaxDepth
    BY <1>1, <2>1, <2>2
  <2>4. CASE up[c] = Root
    <3>1. 1 \in 0..MaxDepth /\ w[1] \notin Commands /\ n \in (1 + 1)..MaxDepth
      BY <1>1, <1>2, <2>3, <2>4, SetsFacts
    <3>2. w[n] = None
      BY <3>1, WalkEnds
    <3> QED
      BY <1>3, <3>2
  <2>5. CASE up[c] \in Commands /\ up[up[c]] = Root
    <3>1. w[2] = Up(up, w[1])
      <4>1. 2 \in 1..MaxDepth /\ 2 - 1 = 1
        BY <1>1, <2>3
      <4> HIDE DEF w
      <4> QED
        BY <1>1, <4>1
    <3>2. w[2] = Root
      BY <1>2, <2>5, <3>1 DEF Up
    <3>3. n # 2
      BY <1>3, <3>2, SetsFacts
    <3>4. 2 \in 0..MaxDepth /\ w[2] \notin Commands /\ n \in (2 + 1)..MaxDepth
      BY <1>1, <2>3, <3>2, <3>3, SetsFacts
    <3>5. w[n] = None
      BY <3>4, WalkEnds
    <3> QED
      BY <1>3, <3>5
  <2> QED
    BY <2>4, <2>5
<1> QED
  BY <1>3 DEF Safe

-----------------------------------------------------------------------------
(* Looking a name up.                                                      *)

\* i is the first child of p with this name.
FirstNamed(p, name, i) ==
  /\ i \in 1..Len(child[p]) /\ Name[child[p][i]] = name
  /\ \A j \in 1..(i - 1) : Name[child[p][j]] # name

LEMMA FindFirst ==
  ASSUME TypeOK, NEW p \in Nodes, NEW name, NEW i, FirstNamed(p, name, i)
  PROVE  Find(p, name) = child[p][i]
<1> DEFINE hits == {j \in DOMAIN child[p] : Name[child[p][j]] = name}
<1>1. /\ DOMAIN child[p] = 1..Len(child[p]) /\ Len(child[p]) \in Nat
  BY DEF TypeOK
<1>2. i \in hits /\ hits \subseteq Nat /\ \A j \in hits : i <= j
  <2>1. i \in hits /\ i \in Nat
    BY <1>1 DEF FirstNamed
  <2>2. ASSUME NEW j \in hits PROVE i <= j
    <3>1. j \in 1..Len(child[p]) /\ Name[child[p][j]] = name
      BY <1>1
    <3>2. ~(j \in 1..(i - 1))
      BY <3>1 DEF FirstNamed
    <3> QED
      BY <2>1, <3>1, <3>2
  <2> QED
    BY <1>1, <2>1, <2>2
<1> DEFINE m == CHOOSE k \in hits : \A j \in hits : k <= j
<1>3. Find(p, name) = IF hits = {} THEN None ELSE child[p][m]
  BY DEF Find
<1> HIDE DEF hits
<1>4. m \in hits /\ \A j \in hits : m <= j
  BY <1>2
<1>5. m = i
  <2> HIDE DEF m
  <2>1. m \in Nat /\ i \in Nat /\ m <= i /\ i <= m
    BY <1>2, <1>4
  <2> QED
    BY <2>1
<1> QED
  BY <1>2, <1>3, <1>5

FindsFirst ==
  TypeOK => \A p \in Nodes : \A name, i : FirstNamed(p, name, i) => Find(p, name) = child[p][i]

LEMMA FindsFirstHolds == FindsFirst
  BY FindFirst DEF FindsFirst

LEMMA FindsFirstNext == FindsFirst'
  BY FindsFirstHolds, PTL

LEMMA FindNothing ==
  ASSUME TypeOK, NEW p \in Nodes, NEW name
  PROVE  Find(p, name) = None <=> \A i \in 1..Len(child[p]) : Name[child[p][i]] # name
<1> DEFINE T == {j \in 1..Len(child[p]) : Name[child[p][j]] = name}
<1>1. DOMAIN child[p] = 1..Len(child[p]) /\ Len(child[p]) \in Nat
      /\ \A i \in 1..Len(child[p]) : child[p][i] \in Commands
  <2>1. child \in [Nodes -> Seq(Commands)]
    BY DEF TypeOK
  <2>2. child[p] \in Seq(Commands)
    BY <2>1
  <2> QED
    BY <2>2
<1>2. CASE T = {}
  <2>1. Find(p, name) = None
    BY <1>1, <1>2 DEF Find
  <2> QED
    BY <1>2, <2>1
<1>3. CASE T # {}
  <2>1. T \subseteq Nat
    BY <1>1
  <2>2. PICK i \in T : \A j \in T : i <= j
    BY <1>3, <2>1, LeastElement
  <2>3. FirstNamed(p, name, i)
    <3>1. ASSUME NEW j \in 1..(i - 1) PROVE Name[child[p][j]] # name
      <4>1. j \in 1..Len(child[p]) /\ ~(i <= j)
        BY <1>1, <2>2
      <4> QED
        BY <2>2, <4>1
    <3> QED
      BY <2>2, <3>1 DEF FirstNamed
  <2>4. Find(p, name) = child[p][i] /\ i \in 1..Len(child[p])
    BY <2>3, FindFirst DEF FirstNamed
  <2>5. Find(p, name) # None
    BY <1>1, <2>4, SetsFacts
  <2> QED
    BY <2>2, <2>5
<1> QED
  BY <1>2, <1>3

\* What is found is the first child of that name.
LEMMA FindSomething ==
  ASSUME TypeOK, NEW p \in Nodes, NEW name, Find(p, name) # None
  PROVE  \E i \in 1..Len(child[p]) : FirstNamed(p, name, i) /\ Find(p, name) = child[p][i]
<1> DEFINE T == {j \in 1..Len(child[p]) : Name[child[p][j]] = name}
<1>1. Len(child[p]) \in Nat /\ T \subseteq Nat /\ T # {}
  <2>1. Len(child[p]) \in Nat
    BY DEF TypeOK
  <2> QED
    BY <2>1, FindNothing
<1> HIDE DEF T
<1>2. PICK i \in T : \A j \in T : i <= j
  BY <1>1, LeastElement
<1>3. FirstNamed(p, name, i)
  <2>1. i \in 1..Len(child[p]) /\ Name[child[p][i]] = name
    BY <1>2 DEF T
  <2>2. ASSUME NEW j \in 1..(i - 1) PROVE Name[child[p][j]] # name
    <3>1. j \in 1..Len(child[p]) /\ ~(i <= j)
      BY <1>1, <2>1
    <3>2. j \notin T
      BY <1>2, <3>1
    <3> QED
      BY <3>1, <3>2 DEF T
  <2> QED
    BY <2>1, <2>2 DEF FirstNamed
<1>4. Find(p, name) = child[p][i]
  BY <1>3, FindFirst
<1> QED
  BY <1>3, <1>4 DEF FirstNamed

\* A name that was found is found again when children have been added behind it.
LEMMA FindStable ==
  ASSUME TypeOK, TypeOK', NEW p \in Nodes, NEW name,
         Len(child[p]) <= Len(child'[p]),
         \A i \in 1..Len(child[p]) : child'[p][i] = child[p][i],
         Find(p, name) # None
  PROVE  Find(p, name)' = Find(p, name)
<1>1. PICK i \in 1..Len(child[p]) : FirstNamed(p, name, i) /\ Find(p, name) = child[p][i]
  BY FindSomething
<1>2. Len(child[p]) \in Nat /\ Len(child'[p]) \in Nat
  <2>1. child \in [Nodes -> Seq(Commands)] /\ child' \in [Nodes -> Seq(Commands)]
    BY DEF TypeOK
  <2> QED
    BY <2>1
<1>3. FirstNamed(p, name, i)'
  BY <1>1, <1>2 DEF FirstNamed
<1>4. Find(p, name)' = child'[p][i]
  BY <1>3, FindsFirstNext DEF FindsFirst
<1> QED
  BY <1>1, <1>4

-----------------------------------------------------------------------------
(* What each action registers.                                             *)

\* Where the parent pointer of a loaded record may lead.
LEMMA StaticParent ==
  ASSUME Inv, NEW c \in linked \ Created
  PROVE  /\ c \in Commands
         /\ parent[c] \in linked \cup {Root, AppRoot}
         /\ parent[c] = AppRoot => Declared[c] = AppRoot
<1>1. c \in Commands /\ Declared[c] \in linked \cup {Root, AppRoot}
  BY DEF Inv, TypeOK, TreeInv
<1>2. parent[c] = Declared[c]
        \/ (Declared[c] = AppRoot /\ appRoot # None /\ parent[c] = appRoot)
  BY <1>1 DEF Inv, ParentInv
<1>3. appRoot # None => appRoot \in linked
  BY DEF Inv, RootInv
<1> QED
  BY <1>1, <1>2, <1>3

LEMMA HangsBelow ==
  ASSUME Inv, NEW c, Hangs(c)
  PROVE  c \in linked /\ parent[c] \in Nodes /\ c \in Elements(child[parent[c]])
<1>1. PICK p \in Nodes : c \in Elements(child[p])
  BY DEF Hangs
<1>2. child \in [Nodes -> Seq(Commands)]
  BY DEF Inv, TypeOK
<1>3. child[p] \in Seq(Commands)
  BY <1>2
<1>4. PICK i \in 1..Len(child[p]) : child[p][i] = c
  BY <1>1, <1>3, HasElement
<1>5. c \in linked /\ parent[c] = p
  BY <1>4 DEF Inv, TreeInv
<1> QED
  BY <1>1, <1>5

LEMMA AutoloadPlaceable ==
  ASSUME Inv, NEW c \in Commands, ~FollowedSentinel, Autoload(c), Resolved(c)
  PROVE  Registers(c, parent[c])
<1> USE DEF Inv
<1>1. c \in linked \ Created /\ ~Hangs(c) /\ appRoot = None
  BY DEF Autoload, QueueInv, RootInv, TypeOK
<1>2. parent \in Parents
  BY ParentType
<1>3. parent[c] # AppRoot
  <2>1. Ancestor(parent, c)[0] = c /\ 0 \in 0..(MaxDepth - 1)
    BY <1>2, AncestorSteps
  <2> QED
    BY <1>1, <2>1 DEF Resolved
<1>4. parent[c] \in linked \cup {Root} /\ parent[c] \in Nodes
  BY <1>1, <1>3, StaticParent DEF TypeOK, Nodes
<1>5. [parent EXCEPT ![c] = parent[c]] = parent /\ Placed(c) = parent
  BY <1>2, <1>3 DEF Parents, Placed
<1>6. Safe(parent, c)
  BY <1>3, ResolvedSafe
<1>7. Placeable(c, parent[c])
  BY <1>1, <1>4, <1>5, <1>6 DEF Placeable, ParentInv
<1>8. Register(Placed(c), parent[c], c)
  BY <1>5 DEF Autoload
<1> QED
  BY <1>4, <1>7, <1>8, RegisterIs

LEMMA DrainPlaceable ==
  ASSUME Inv, ~FollowedSentinel, DrainPending, NEW c, c = pending[at], Resolved(c)
  PROVE  /\ c \in linked \ Created /\ at \in 1..Len(pending)
         /\ Registers(c, Placed(c)[c])
<1> USE DEF Inv
<1>0. at \in 1..Len(pending)
  BY DEF DrainPending, TypeOK
<1>1. c \in linked \ Created /\ ~Hangs(c) /\ c \in Commands
  BY <1>0 DEF QueueInv, TypeOK
<1>2. parent \in Parents
  BY ParentType
<1>3. Register(Placed(c), Placed(c)[c], c)
  BY DEF DrainPending
<1>4. CASE parent[c] # AppRoot
  <2>1. parent[c] \in linked \cup {Root} /\ parent[c] \in Nodes
    BY <1>1, <1>4, StaticParent DEF TypeOK, Nodes
  <2>2. [parent EXCEPT ![c] = parent[c]] = parent /\ Placed(c) = parent
    BY <1>2, <1>4 DEF Parents, Placed
  <2>3. Safe(parent, c)
    BY <1>1, <1>4, ResolvedSafe
  <2>4. Placeable(c, parent[c])
    BY <1>1, <2>1, <2>2, <2>3 DEF Placeable, ParentInv
  <2> QED
    BY <1>0, <1>1, <1>3, <2>1, <2>2, <2>4, RegisterIs
<1>5. CASE parent[c] = AppRoot
  <2>1. Ancestor(parent, c)[0] = c /\ 0 \in 0..(MaxDepth - 1)
    BY <1>1, <1>2, AncestorSteps
  <2>2. appRoot # None
    BY <1>1, <1>5, <2>1 DEF Resolved
  <2>3. /\ appRoot \in linked /\ parent[appRoot] = Root /\ appRoot \in Commands
        /\ Exists(appRoot)
    BY <2>2, SetsFacts DEF RootInv, TypeOK, Exists
  <2> DEFINE up == [parent EXCEPT ![c] = appRoot]
  <2>4. up \in Parents /\ Placed(c) = up /\ up[c] = appRoot /\ up[appRoot] = Root
    <3>1. appRoot # c
      BY <1>5, <2>3, SetsFacts
    <3> QED
      BY <1>1, <1>2, <1>5, <2>3, <3>1, SetsFacts DEF Parents, Placed
  <2>5. Safe(up, c)
    <3> HIDE DEF up
    <3> QED
      BY <1>1, <2>3, <2>4, ShortSafe
  <2>6. Placeable(c, appRoot)
    BY <1>1, <1>5, <2>2, <2>3, <2>5 DEF Placeable
  <2> QED
    BY <1>0, <1>1, <1>3, <2>3, <2>4, <2>6, RegisterIs, SetsFacts
<1> QED
  BY <1>4, <1>5

LEMMA CreatePlaceable ==
  ASSUME Inv, ~FollowedSentinel, NEW c \in Created, Create(c)
  PROVE  Registers(c, Declared[c])
<1> USE DEF Inv
<1> DEFINE d == Declared[c]  up == [parent EXCEPT ![c] = d]
<1>1. /\ c \in linked /\ c \in Commands /\ parent[c] = None /\ c \notin reported
      /\ d \in linked \cup {Root, AppRoot} /\ (d \in Created => Exists(d))
  BY DEF Create, TreeInv, Exists
<1>2. ~Hangs(c)
  BY <1>1, HangsBelow, SetsFacts
<1>3. parent \in Parents /\ Placed(c) = parent
  BY <1>1, ParentType, SetsFacts DEF Placed
<1>4. d \in linked \cup {Root} /\ d \in Nodes /\ d \in Above
  BY <1>1, SetsFacts DEF Create, TypeOK, Nodes
<1>5. up \in Parents /\ up[c] = d /\ \A x \in Commands : x # c => up[x] = parent[x]
  BY <1>1, <1>3, <1>4 DEF Parents
<1> HIDE DEF up
<1>6. ASSUME d = Root PROVE Safe(up, c)
  BY <1>1, <1>5, <1>6, ShortSafe
<1>7. ASSUME d \in Commands, Hangs(d) PROVE Safe(up, c)
  <2>1. Safe(parent, d) /\ d # c
    BY <1>2, <1>7 DEF SafeInv
  <2>2. ASSUME NEW n \in 0..(MaxDepth - 1), Ancestor(parent, d)[n] = c PROVE FALSE
    <3>1. n # 0
      BY <1>3, <1>7, <2>1, <2>2, AncestorSteps
    <3>2. n \in 1..MaxDepth /\ n - 1 \in 0..MaxDepth
      BY <3>1
    <3> DEFINE x == Ancestor(parent, d)[n - 1]
    <3>3. Up(parent, x) = c
      BY <1>3, <1>7, <2>2, <3>2, AncestorSteps
    <3> HIDE DEF x
    <3>4. x \in Commands /\ parent[x] = c
      BY <1>1, <3>3, SetsFacts DEF Up
    <3> QED
      BY <1>1, <3>4 DEF ParentInv, Exists
  <2>3. \A n \in 0..MaxDepth : Ancestor(up, d)[n] = Ancestor(parent, d)[n]
    <3>1. MaxDepth \in 0..MaxDepth
      OBVIOUS
    <3> QED
      BY <1>1, <1>3, <1>5, <1>7, <2>2, <3>1, WalkAvoids
  <2>4. ASSUME NEW n \in 0..(MaxDepth - 1) PROVE Ancestor(up, c)[n] # AppRoot
    <3>1. CASE n = 0
      BY <1>1, <1>5, <3>1, AncestorSteps, SetsFacts
    <3>2. CASE n # 0
      <4>1. n \in 1..MaxDepth /\ n - 1 \in 0..MaxDepth /\ n - 1 \in 0..(MaxDepth - 1)
        BY <3>2
      <4>2. Ancestor(up, c)[n] = Ancestor(up, d)[n - 1]
        BY <1>1, <1>5, <1>7, <4>1, WalkShifts
      <4> QED
        BY <2>1, <2>3, <4>1, <4>2 DEF Safe
    <3> QED
      BY <3>1, <3>2
  <2> QED
    BY <2>4 DEF Safe
<1>8. Safe(up, c) \/ (c \in Created /\ parent[c] = None /\ d \in Commands /\ ~Hangs(d))
  BY <1>1, <1>4, <1>6, <1>7 DEF Nodes
<1>9. Placeable(c, d)
  BY <1>1, <1>2, <1>4, <1>8 DEF Placeable, up
<1>10. Register(Placed(c), d, c)
  BY <1>3 DEF Create
<1> QED
  BY <1>1, <1>4, <1>9, <1>10, RegisterIs

LEMMA ResolvePlaceable ==
  ASSUME Inv, ~FollowedSentinel, Resolve, candidate # None, Find(Root, Name[candidate]) = None
  PROVE  Registers(candidate, Root)
<1> USE DEF Inv
<1> DEFINE c == candidate
<1>1. c \in AutoRoots /\ c \in Commands /\ c \in linked /\ c \notin Created
  BY DEF TypeOK, RootInv
<1>2. Declared[c] = Root /\ parent[c] = Root
  BY <1>1, SetsFacts DEF ParentInv
<1>3. ~Hangs(c)
  <2> SUFFICES ASSUME Hangs(c) PROVE FALSE
    OBVIOUS
  <2>1. c \in Elements(child[Root])
    BY <1>2, HangsBelow
  <2>2. child \in [Nodes -> Seq(Commands)]
    BY DEF TypeOK
  <2>3. child[Root] \in Seq(Commands)
    BY <2>2, SetsFacts
  <2>4. PICK i \in 1..Len(child[Root]) : child[Root][i] = c
    BY <2>1, <2>3, HasElement
  <2> QED
    BY <2>4, FindNothing, SetsFacts
<1>4. parent \in Parents /\ Placed(c) = parent /\ [parent EXCEPT ![c] = Root] = parent
  BY <1>1, <1>2, ParentType, SetsFacts DEF Placed, Parents
<1>5. Safe(parent, c)
  BY <1>1, <1>2, <1>4, ShortSafe
<1>6. Placeable(c, Root)
  BY <1>1, <1>2, <1>3, <1>4, <1>5, SetsFacts DEF Placeable
<1>7. Register(Placed(c), Root, c)
  BY <1>4 DEF Resolve
<1> QED
  BY <1>1, <1>6, <1>7, RegisterIs, SetsFacts

-----------------------------------------------------------------------------
(* The tree, step by step.                                                 *)

\* A step registers one command or leaves the tree alone.
LEMMA NextRegisters ==
  ASSUME Inv, [Next]_vars
  PROVE  /\ linked' = linked
         /\ reported \subseteq reported'
         /\ \/ \E c \in Commands, p \in Nodes : Registers(c, p)
            \/ TreeStands
<1>0. reported \subseteq reported'
  BY DEF Next, Step, Load, Autoload, AutoloadOption, AutoloadAppRoot, Create, Resolve, DrainPending,
     Drained, vars, Register
<1>1. linked' = linked
  BY DEF Next, Step, Load, Autoload, AutoloadOption, AutoloadAppRoot, Create, Resolve, DrainPending,
     Drained, vars
<1>2. ASSUME NEW c \in Commands, NEW p, Registers(c, p) PROVE p \in Nodes
  BY <1>2 DEF Registers, Placeable, Nodes, Inv, TypeOK
<1>3. ASSUME NEW c \in Commands, ~FollowedSentinel, Autoload(c)
      PROVE  TreeStands \/ \E x \in Commands, p \in Nodes : Registers(x, p)
  <2>1. CASE Resolved(c)
    BY <1>2, <1>3, <2>1, AutoloadPlaceable
  <2>2. CASE ~Resolved(c)
    BY <1>3, <2>2 DEF Autoload, TreeStands
  <2> QED
    BY <2>1, <2>2
<1>4. ASSUME ~FollowedSentinel, DrainPending
      PROVE  TreeStands \/ \E x \in Commands, p \in Nodes : Registers(x, p)
  <2> DEFINE c == pending[at]
  <2>1. CASE Resolved(c)
    <3>1. c \in linked \ Created /\ Registers(c, Placed(c)[c])
      BY <1>4, <2>1, DrainPlaceable
    <3> QED
      BY <1>2, <3>1, StaticParent
  <2>2. CASE ~Resolved(c)
    BY <1>4, <2>2 DEF DrainPending, TreeStands
  <2> QED
    BY <2>1, <2>2
<1>5. ASSUME NEW c \in Created, ~FollowedSentinel, Create(c)
      PROVE  \E x \in Commands, p \in Nodes : Registers(x, p)
  BY <1>2, <1>5, CreatePlaceable
<1>6. ASSUME ~FollowedSentinel, Resolve
      PROVE  TreeStands \/ \E x \in Commands, p \in Nodes : Registers(x, p)
  <2>1. CASE candidate # None /\ Find(Root, Name[candidate]) = None
    <3>1. candidate \in Commands
      BY <2>1 DEF Inv, TypeOK
    <3> QED
      BY <1>6, <2>1, <3>1, ResolvePlaceable, SetsFacts
  <2>2. CASE ~(candidate # None /\ Find(Root, Name[candidate]) = None)
    BY <1>6, <2>2 DEF Resolve, TreeStands
  <2> QED
    BY <2>1, <2>2
<1>7. ASSUME (\E o \in Options : AutoloadOption(o)) \/ (\E c \in AutoRoots : AutoloadAppRoot(c))
             \/ Drained \/ UNCHANGED vars
      PROVE  TreeStands
  BY <1>7 DEF AutoloadOption, AutoloadAppRoot, Drained, vars, TreeStands
<1> QED
  BY <1>0, <1>1, <1>3, <1>4, <1>5, <1>6, <1>7 DEF Next, Step, Load

\* The resolution does not change its mind.
LEMMA AppRootKept ==
  ASSUME Inv, [Next]_vars
  PROVE  appRoot # None => appRoot' = appRoot
<1> SUFFICES ASSUME appRoot # None PROVE appRoot' = appRoot
  OBVIOUS
<1>1. ASSUME Resolve PROVE appRoot' = appRoot
  <2>1. phase = "done" /\ candidate # None
    BY <1>1 DEF Resolve, Inv, RootInv
  <2>2. CASE Find(Root, Name[candidate]) = appRoot
    BY <1>1, <2>1, <2>2 DEF Resolve
  <2>3. CASE Find(Root, Name[candidate]) = None /\ appRoot = candidate
    BY <1>1, <2>1, <2>3 DEF Resolve
  <2> QED
    BY <2>1, <2>2, <2>3 DEF Inv, FindInv
<1> QED
  BY <1>1 DEF Next, Step, Load, Autoload, AutoloadOption, AutoloadAppRoot, Create, DrainPending,
     Drained, vars

\* What a registration does to the parent pointers.
LEMMA ParentsStep ==
  ASSUME Inv, NEW c \in Commands, NEW p \in Nodes, Registers(c, p)
  PROVE  /\ parent' \in Parents
         /\ \A x \in Commands : x # c => parent'[x] = parent[x]
         /\ parent'[c] = p \/ parent'[c] = parent[c]
         /\ parent'[c] # parent[c] =>
              \/ parent[c] = AppRoot
              \/ parent[c] = None /\ c \in Created /\ c \notin reported
         /\ parent'[c] # AppRoot
         /\ Attaches(c, p) => parent'[c] = p
         /\ parent[c] = AppRoot => appRoot # None /\ parent'[c] = appRoot
<1>1. parent \in Parents /\ p \in Above /\ p # AppRoot
  BY ParentType, SetsFacts DEF Inv, Nodes, Above
<1>2. \/ parent[c] = p
      \/ parent[c] = AppRoot /\ appRoot # None /\ p = appRoot
      \/ parent[c] = None /\ c \in Created /\ c \notin reported
  BY DEF Registers, Placeable
<1>3. CASE Attaches(c, p)
  <2>1. parent' = [parent EXCEPT ![c] = p]
    BY <1>3 DEF Attaches
  <2> QED
    BY <1>1, <1>2, <2>1, SetsFacts DEF Parents
<1>4. CASE Refuses(c, p)
  <2>1. parent' = Placed(c) /\ ~Attaches(c, p)
    <3>1. Len(child[p]) \in Nat
      BY DEF Inv, TypeOK
    <3> QED
      BY <1>4, <3>1 DEF Refuses, Attaches
  <2>2. CASE parent[c] = AppRoot
    BY <1>1, <1>2, <2>1, <2>2, SetsFacts DEF Placed, Parents
  <2>3. CASE parent[c] # AppRoot
    BY <1>1, <1>2, <2>1, <2>3 DEF Placed
  <2> QED
    BY <2>2, <2>3
<1> QED
  BY <1>3, <1>4 DEF Registers

LEMMA RegisterHangs ==
  ASSUME Inv, NEW c \in Commands, NEW p \in Nodes, Registers(c, p)
  PROVE  /\ \A x : Hangs(x)' <=> Hangs(x) \/ (x = c /\ Attaches(c, p))
         /\ ~Attaches(c, p) => Refuses(c, p)
<1>1. CASE Attaches(c, p)
  <2>1. TypeOK
    BY DEF Inv
  <2> QED
    BY <1>1, <2>1, AttachChildren
<1>2. CASE Refuses(c, p) /\ ~Attaches(c, p)
  BY <1>2, RefusedHangs DEF Refuses
<1> QED
  BY <1>1, <1>2 DEF Registers

LEMMA TreeInvStep ==
  ASSUME Inv, [Next]_vars PROVE TreeInv'
<1> USE DEF Inv
<1>0. linked' = linked
  BY NextRegisters
<1>1. CASE TreeStands
  BY <1>0, <1>1 DEF TreeStands, tree, TreeInv, Hangs
<1>2. ASSUME NEW c \in Commands, NEW p \in Nodes, Registers(c, p) PROVE TreeInv'
  <2>1. c \in linked /\ ~Hangs(c)
    BY <1>2 DEF Registers, Placeable
  <2>2. ASSUME NEW q \in Nodes, NEW i \in 1..Len(child[q])
        PROVE  /\ child[q][i] # c /\ child[q][i] \in linked
               /\ parent'[child[q][i]] = q
    <3>1. child[q] \in Seq(Commands)
      <4>1. child \in [Nodes -> Seq(Commands)]
        BY DEF TypeOK
      <4> QED
        BY <4>1
    <3>2. child[q][i] \in Elements(child[q]) /\ child[q][i] \in Commands
      BY <2>2, <3>1, HasElement
    <3>3. child[q][i] # c
      BY <2>1, <3>2 DEF Hangs
    <3> QED
      BY <1>2, <2>2, <3>2, <3>3, ParentsStep DEF TreeInv
  <2>3. CASE Attaches(c, p)
    <3>1. /\ Len(child'[p]) = Len(child[p]) + 1 /\ child'[p][Len(child[p]) + 1] = c
          /\ Len(child[p]) \in Nat
          /\ \A i \in 1..Len(child[p]) : child'[p][i] = child[p][i]
          /\ \A q \in Nodes : q # p => child'[q] = child[q]
          /\ \A x : Hangs(x)' <=> Hangs(x) \/ x = c
      BY <2>3, AttachChildren
    <3>2. ASSUME NEW q \in Nodes, NEW i \in 1..Len(child'[q])
          PROVE  child'[q][i] \in linked /\ parent'[child'[q][i]] = q
      <4>1. CASE q # p
        BY <2>2, <3>1, <3>2, <4>1
      <4>2. CASE q = p /\ i \in 1..Len(child[p])
        BY <2>2, <3>1, <4>2
      <4>3. CASE q = p /\ i = Len(child[p]) + 1
        BY <1>2, <2>1, <2>3, <3>1, <4>3, ParentsStep
      <4> QED
        BY <3>1, <3>2, <4>1, <4>2, <4>3
    <3>3. ASSUME NEW q \in Nodes, NEW i \in 1..Len(child'[q]), NEW j \in 1..Len(child'[q]),
                 child'[q][i] = child'[q][j]
          PROVE  i = j
      <4>1. CASE q # p
        BY <3>1, <3>3, <4>1 DEF TreeInv
      <4>2. CASE q = p
        <5>1. i \in 1..Len(child[p]) \/ i = Len(child[p]) + 1
          BY <3>1, <3>3, <4>2
        <5>2. j \in 1..Len(child[p]) \/ j = Len(child[p]) + 1
          BY <3>1, <3>3, <4>2
        <5>3. \A k \in 1..Len(child[p]) : child'[p][k] # c
          BY <2>2, <3>1
        <5> QED
          BY <3>1, <3>3, <4>2, <5>1, <5>2, <5>3 DEF TreeInv
      <4> QED
        BY <4>1, <4>2
    <3>4. ASSUME NEW x \in Commands PROVE full'[x] # <<>> <=> Hangs(x)'
      <4>1. CASE x = c
        <5>1. full'[c] = FullName(parent', c)
          BY <2>3 DEF Attaches, TypeOK
        <5>2. parent' \in Parents
          BY <1>2, ParentsStep
        <5> QED
          BY <3>1, <4>1, <5>1, <5>2, FullNameType
      <4>2. CASE x # c
        <5>1. full'[x] = full[x]
          BY <2>3, <4>2 DEF Attaches, TypeOK
        <5> QED
          BY <3>1, <4>2, <5>1 DEF TreeInv
      <4> QED
        BY <4>1, <4>2
    <3> QED
      BY <1>0, <3>2, <3>3, <3>4 DEF TreeInv
  <2>4. CASE Refuses(c, p)
    <3>1. child' = child /\ full' = full /\ \A x : Hangs(x)' <=> Hangs(x)
      BY <2>4, RefusedHangs DEF Refuses
    <3> QED
      BY <1>0, <2>2, <3>1 DEF TreeInv
  <2> QED
    BY <1>2, <2>3, <2>4 DEF Registers
<1> QED
  BY <1>1, <1>2, NextRegisters

LEMMA ParentInvStep ==
  ASSUME Inv, [Next]_vars PROVE ParentInv'
<1> USE DEF Inv
<1>0. (appRoot # None => appRoot' = appRoot) /\ reported \subseteq reported'
  BY AppRootKept, NextRegisters
<1>1. CASE TreeStands
  BY <1>0, <1>1 DEF TreeStands, tree, ParentInv, Hangs, Exists
<1>2. ASSUME NEW c \in Commands, NEW p \in Nodes, Registers(c, p) PROVE ParentInv'
  <2>1. /\ \A x \in Commands : x # c => parent'[x] = parent[x]
        /\ parent'[c] = p \/ parent'[c] = parent[c]
        /\ parent'[c] # parent[c] => parent[c] = AppRoot \/ (parent[c] = None /\ c \in Created)
        /\ Attaches(c, p) => parent'[c] = p
        /\ parent[c] = AppRoot => appRoot # None /\ parent'[c] = appRoot
    BY <1>2, ParentsStep
  <2>2. /\ \A x : Hangs(x)' <=> Hangs(x) \/ (x = c /\ Attaches(c, p))
        /\ ~Attaches(c, p) => Refuses(c, p)
    BY <1>2, RegisterHangs
  <2>3. /\ ~Hangs(c) /\ (p \in Created => Exists(p))
        /\ \/ parent[c] = p
           \/ parent[c] = AppRoot /\ appRoot # None /\ p = appRoot
           \/ parent[c] = None /\ c \in Created /\ p = Declared[c]
    BY <1>2 DEF Registers, Placeable
  <2>4. ASSUME NEW x \in Commands \ Created
        PROVE  \/ parent'[x] = Declared[x]
               \/ Declared[x] = AppRoot /\ appRoot' # None /\ parent'[x] = appRoot'
    <3>1. CASE x # c \/ parent'[c] = parent[c]
      BY <1>0, <2>1, <3>1 DEF ParentInv
    <3>2. CASE x = c /\ parent'[c] # parent[c]
      <4>1. parent[c] = AppRoot /\ Declared[c] = AppRoot
        BY <2>1, <3>2, SetsFacts DEF ParentInv
      <4> QED
        BY <1>0, <2>1, <3>2, <4>1
    <3> QED
      BY <3>1, <3>2
  <2>5. ASSUME NEW x \in Created
        PROVE  parent'[x] = None \/ (parent'[x] = Declared[x] /\ Hangs(x)')
    <3>1. CASE x # c
      BY <2>1, <2>2, <3>1 DEF ParentInv
    <3>2. CASE x = c
      <4>1. parent[c] = None /\ p = Declared[c]
        <5>1. parent[c] = None
          BY <2>3, <3>2 DEF ParentInv
        <5> QED
          BY <2>3, <5>1, SetsFacts
      <4>2. CASE Attaches(c, p)
        BY <2>1, <2>2, <3>2, <4>1, <4>2
      <4>3. CASE ~Attaches(c, p)
        <5>1. parent' = Placed(c)
          BY <2>2, <4>3 DEF Refuses
        <5>2. parent' = parent
          BY <4>1, <5>1, SetsFacts DEF Placed
        <5> QED
          BY <3>2, <4>1, <5>2
      <4> QED
        BY <4>2, <4>3
    <3> QED
      BY <3>1, <3>2
  <2>6. ASSUME NEW x \in Commands, parent'[x] \in Created PROVE Exists(parent[x])'
    <3> DEFINE y == parent'[x]
    <3>1. y \in Created /\ Exists(y)
      <4>1. CASE x # c \/ parent'[c] = parent[c]
        BY <2>1, <2>6, <4>1 DEF ParentInv
      <4>2. CASE x = c /\ parent'[c] = p
        BY <2>3, <2>6, <4>2
      <4> QED
        BY <2>1, <4>1, <4>2
    <3> HIDE DEF y
    <3>2. parent[y] # None => parent'[y] # None
      BY <2>1, <3>1, SetsFacts
    <3> QED
      BY <1>0, <3>1, <3>2 DEF Exists, y
  <2> QED
    BY <2>4, <2>5, <2>6 DEF ParentInv
<1> QED
  BY <1>1, <1>2, NextRegisters

\* A registration does not move the ancestors of a command that hangs already.
LEMMA WalkKept ==
  ASSUME Inv, NEW c \in Commands, NEW p \in Nodes, Registers(c, p),
         NEW d \in Commands, d # c, Hangs(d)
  PROVE  \A n \in 0..(MaxDepth - 1) : Ancestor(parent', d)[n] = Ancestor(parent, d)[n]
<1>1. /\ parent' \in Parents
      /\ \A x \in Commands : x # c => parent'[x] = parent[x]
      /\ parent'[c] # parent[c] =>
           \/ parent[c] = AppRoot
           \/ parent[c] = None /\ c \in Created /\ c \notin reported
  BY ParentsStep
<1>2. parent \in Parents /\ Safe(parent, d)
  BY ParentType DEF Inv, SafeInv, Registers, Placeable
<1>3. CASE parent'[c] = parent[c]
  <2>1. parent' = parent
    BY <1>1, <1>2, <1>3 DEF Parents
  <2> QED
    BY <2>1
<1>4. CASE parent'[c] # parent[c]
  <2>1. ASSUME NEW n \in 0..((MaxDepth - 1) - 1), Ancestor(parent, d)[n] = c PROVE FALSE
    <3>1. CASE parent[c] = AppRoot
      <4>1. n + 1 \in 1..MaxDepth /\ n + 1 \in 0..(MaxDepth - 1) /\ (n + 1) - 1 = n
        BY <2>1
      <4>2. Ancestor(parent, d)[n + 1] = Up(parent, c)
        BY <1>2, <2>1, <4>1, AncestorSteps
      <4>3. Ancestor(parent, d)[n + 1] = AppRoot
        BY <3>1, <4>2 DEF Up
      <4> QED
        BY <1>2, <4>1, <4>3 DEF Safe
    <3>2. CASE parent[c] = None /\ c \in Created /\ c \notin reported
      <4>1. n # 0
        BY <1>2, <2>1, AncestorSteps
      <4>2. n \in 1..MaxDepth
        BY <4>1
      <4> DEFINE x == Ancestor(parent, d)[n - 1]
      <4>3. Up(parent, x) = c
        BY <1>2, <2>1, <4>2, AncestorSteps
      <4> HIDE DEF x
      <4>4. x \in Commands /\ parent[x] = c
        BY <4>3, SetsFacts DEF Up
      <4> QED
        BY <3>2, <4>4 DEF Inv, ParentInv, Exists
    <3> QED
      BY <1>1, <1>4, <3>1, <3>2
  <2>2. PICK m \in 0..MaxDepth : m = MaxDepth - 1
    OBVIOUS
  <2>3. \A n \in 0..(m - 1) : Ancestor(parent, d)[n] # c
    BY <2>1, <2>2
  <2>4. \A n \in 0..m : Ancestor(parent', d)[n] = Ancestor(parent, d)[n]
    BY <1>1, <1>2, <2>3, WalkAvoids
  <2> QED
    BY <2>2, <2>4
<1> QED
  BY <1>3, <1>4

\* The sentinel is in a full name exactly if the walk meets it.
LEMMA NameMeetsSentinel ==
  ASSUME NEW up \in Parents, NEW c \in Commands
  PROVE  AppRoot \notin Elements(FullName(up, c)) <=> Safe(up, c)
<1> DEFINE w == Ancestor(up, c)
<1>1. PICK d \in 1..MaxDepth :
        /\ FullName(up, c) = [i \in 1..d |-> w[d - i]]
        /\ d = MaxDepth \/ w[d] \in {Root, None}
  BY FullNameParts
<1>2. MaxDepth \in Nat /\ d \in Nat /\ d >= 1 /\ d <= MaxDepth
  OBVIOUS
<1>3. d # MaxDepth => \A n \in (d + 1)..MaxDepth : w[n] = None
  <2> SUFFICES ASSUME d # MaxDepth PROVE \A n \in (d + 1)..MaxDepth : w[n] = None
    OBVIOUS
  <2>1. d \in 0..MaxDepth /\ w[d] \notin Commands
    BY <1>1, <1>2, SetsFacts
  <2> QED
    BY <2>1, WalkEnds
<1>4. AppRoot \in Elements(FullName(up, c)) <=> \E i \in 1..d : w[d - i] = AppRoot
  <2> DEFINE f == FullName(up, c)
  <2>1. f = [i \in 1..d |-> w[d - i]]
    BY <1>1
  <2> HIDE DEF f, w
  <2>2. DOMAIN f = 1..d /\ \A i \in 1..d : f[i] = w[d - i]
    BY <2>1
  <2>3. AppRoot \in Elements(f) <=> \E i \in 1..d : w[d - i] = AppRoot
    BY <2>2 DEF Elements
  <2> QED
    BY <2>3 DEF f
<1> HIDE DEF w
<1>5. ASSUME NEW n \in 0..(MaxDepth - 1), w[n] = AppRoot PROVE \E i \in 1..d : w[d - i] = AppRoot
  <2>1. n < d
    <3>1. n # d \/ d = MaxDepth
      BY <1>1, <1>5, SetsFacts
    <3>2. ~(n > d) \/ d = MaxDepth
      BY <1>2, <1>3, <1>5, SetsFacts
    <3> QED
      BY <1>2, <3>1, <3>2
  <2>2. d - n \in 1..d /\ d - (d - n) = n
    BY <1>2, <2>1
  <2> QED
    BY <1>5, <2>2
<1>6. ASSUME NEW i \in 1..d, w[d - i] = AppRoot PROVE \E n \in 0..(MaxDepth - 1) : w[n] = AppRoot
  <2>1. d - i \in 0..(MaxDepth - 1)
    BY <1>2
  <2> QED
    BY <1>6, <2>1
<1> QED
  BY <1>4, <1>5, <1>6 DEF Safe, w

LEMMA SafeInvStep ==
  ASSUME Inv, [Next]_vars PROVE SafeInv'
<1> USE DEF Inv
<1>1. CASE TreeStands
  BY <1>1 DEF TreeStands, tree, SafeInv, Hangs, FollowedSentinel, NeverThroughSentinel
<1>2. ASSUME NEW c \in Commands, NEW p \in Nodes, Registers(c, p) PROVE SafeInv'
  <2>1. parent' \in Parents
    BY <1>2, ParentsStep
  <2>2. \A x : Hangs(x)' <=> Hangs(x) \/ (x = c /\ Attaches(c, p))
    BY <1>2, RegisterHangs
  <2>3. ~Hangs(c) /\ ~FollowedSentinel
    BY <1>2 DEF Registers, Placeable
  <2>4. ASSUME NEW d \in Commands, d # c, Hangs(d) PROVE Safe(parent, d)'
    <3>1. Safe(parent, d)
      BY <2>3, <2>4 DEF SafeInv
    <3>2. \A n \in 0..(MaxDepth - 1) : Ancestor(parent', d)[n] = Ancestor(parent, d)[n]
      BY <1>2, <2>4, WalkKept
    <3> QED
      BY <3>1, <3>2 DEF Safe
  <2>5. ASSUME NEW d \in Commands, d # c PROVE full'[d] = full[d]
    BY <1>2, <2>5 DEF Registers, Attaches, Refuses, TypeOK
  <2>6. ASSUME Attaches(c, p) PROVE full'[c] = FullName(parent', c)
    BY <2>6 DEF Attaches, TypeOK
  <2>7. ASSUME ~FollowedSentinel', NEW d \in Commands, Hangs(d)' PROVE Safe(parent, d)'
    <3>1. CASE d = c
      <4>1. AppRoot \notin Elements(FullName(parent', c)) /\ full'[c] = FullName(parent', c)
        BY <2>2, <2>3, <2>6, <2>7, <3>1 DEF FollowedSentinel, Elements
      <4>2. Safe(parent', c)
        BY <2>1, <4>1, NameMeetsSentinel
      <4> QED
        BY <3>1, <4>2 DEF Safe
    <3>2. CASE d # c
      BY <2>2, <2>4, <2>7, <3>2
    <3> QED
      BY <3>1, <3>2
  <2>8. ASSUME NEW d \in Commands, AppRoot \in Elements(full'[d])
        PROVE  d \in Created /\ Declared[d] \in Commands /\ full'[Declared[d]] = <<>>
    <3>1. d = c
      BY <2>3, <2>5, <2>8 DEF FollowedSentinel
    <3>2. CASE Attaches(c, p)
      <4>1. ~Safe(parent', c) /\ parent' = [parent EXCEPT ![c] = p]
        BY <2>1, <2>6, <2>8, <3>1, <3>2, NameMeetsSentinel DEF Attaches
      <4>2. c \in Created /\ parent[c] = None /\ p \in Commands /\ ~Hangs(p) /\ p = Declared[c]
        BY <1>2, <4>1, SetsFacts DEF Registers, Placeable
      <4>3. p # c
        <5> SUFFICES ASSUME p = c PROVE FALSE
          OBVIOUS
        <5>1. p \in Created => Exists(p)
          BY <1>2 DEF Registers, Placeable
        <5>2. c \notin reported
          BY <1>2, <4>2, SetsFacts DEF Registers, Placeable
        <5> QED
          BY <4>2, <5>1, <5>2 DEF Exists
      <4>4. full'[p] = <<>>
        BY <2>5, <4>2, <4>3 DEF TreeInv
      <4> QED
        BY <3>1, <4>2, <4>4
    <3>3. CASE Refuses(c, p)
      BY <2>3, <2>8, <3>3 DEF Refuses, FollowedSentinel
    <3> QED
      BY <1>2, <3>2, <3>3 DEF Registers
  <2>9. NeverThroughSentinel'
    BY <2>8 DEF NeverThroughSentinel, Elements
  <2> QED
    BY <2>7, <2>9 DEF SafeInv
<1> QED
  BY <1>1, <1>2, NextRegisters

-----------------------------------------------------------------------------
(* Type correctness. *)

TreeTypes ==
  /\ parent \in Parents
  /\ child \in [Nodes -> Seq(Commands)] /\ \A p \in Nodes : Len(child[p]) <= MaxSub
  /\ full \in [Commands -> Seq(Commands \cup {AppRoot})]

RecordTypes == linked \subseteq Commands /\ records \subseteq linked \cup Options

OptionTypes == option \in [Nodes -> Seq(Options)] /\ \A p \in Nodes : Len(option[p]) <= MaxOptions

PhaseTypes ==
  /\ phase \in {"load", "drain", "done"} /\ progress \in BOOLEAN
  /\ candidate \in AutoRoots \cup {None} /\ appRoot \in Commands \cup {None}

QueueTypes ==
  /\ pending \in Seq(Commands) /\ Len(pending) <= MaxPending
  /\ at \in 1..(MaxPending + 1)

ReportTypes == reported \subseteq linked \cup Options

LEMMA TypesSplit ==
  TypeOK <=> /\ TreeTypes /\ RecordTypes /\ OptionTypes
             /\ PhaseTypes /\ QueueTypes /\ ReportTypes
  BY DEF TypeOK, TreeTypes, RecordTypes, OptionTypes, PhaseTypes, QueueTypes, ReportTypes,
     Parents, Above

LEMMA TreeTypesStep ==
  ASSUME Inv, [Next]_vars PROVE TreeTypes'
<1>0. TreeTypes
  BY TypesSplit DEF Inv
<1>1. CASE TreeStands
  BY <1>0, <1>1 DEF TreeStands, tree, TreeTypes
<1>2. ASSUME NEW c \in Commands, NEW p \in Nodes, Registers(c, p) PROVE TreeTypes'
  <2>1. parent' \in Parents
    BY <1>2, ParentsStep
  <2>2. CASE Attaches(c, p)
    <3>1. TypeOK
      BY DEF Inv
    <3>2. /\ child' \in [Nodes -> Seq(Commands)]
          /\ Len(child'[p]) = Len(child[p]) + 1
          /\ Len(child[p]) \in Nat /\ Len(child[p]) < MaxSub
          /\ \A q \in Nodes : q # p => child'[q] = child[q]
      BY <2>2, <3>1, AttachChildren
    <3>3. \A q \in Nodes : Len(child'[q]) <= MaxSub
      <4> TAKE q \in Nodes
      <4>1. CASE q = p
        BY <3>2, <4>1
      <4>2. CASE q # p
        BY <1>0, <3>2, <4>2 DEF TreeTypes
      <4> QED
        BY <4>1, <4>2
    <3>4. full' = [full EXCEPT ![c] = FullName(parent', c)]
      BY <2>2 DEF Attaches
    <3>5. FullName(parent', c) \in Seq(Commands \cup {AppRoot})
      BY <2>1, FullNameType
    <3>6. full' \in [Commands -> Seq(Commands \cup {AppRoot})]
      BY <1>0, <3>4, <3>5 DEF TreeTypes
    <3> QED
      BY <2>1, <3>2, <3>3, <3>6 DEF TreeTypes
  <2>3. CASE Refuses(c, p)
    BY <1>0, <2>1, <2>3 DEF Refuses, TreeTypes
  <2> QED
    BY <1>2, <2>2, <2>3 DEF Registers
<1> QED
  BY <1>1, <1>2, NextRegisters

\* Taking one command out of the pending list, the last one in its place.
Without(s, k) == SubSeq([s EXCEPT ![k] = s[Len(s)]], 1, Len(s) - 1)

LEMMA SwapRemove ==
  ASSUME NEW S, NEW s \in Seq(S), NEW k \in 1..Len(s), NEW t, t = Without(s, k)
  PROVE  /\ t \in Seq(S) /\ Len(t) = Len(s) - 1
         /\ \A j \in 1..Len(t) : t[j] = IF j = k THEN s[Len(s)] ELSE s[j]
<1> DEFINE n == Len(s)  r == [s EXCEPT ![k] = s[n]]
<1>1. n \in Nat /\ n >= 1 /\ k \in 1..n /\ s[n] \in S /\ \A j \in 1..n : s[j] \in S
  OBVIOUS
<1>2. r \in Seq(S) /\ Len(r) = n
  <2>1. s[n] \in S
    BY <1>1
  <2> QED
    BY <2>1
<1>3. \A j \in 1..n : r[j] = IF j = k THEN s[n] ELSE s[j]
  <2>1. DOMAIN s = 1..n
    OBVIOUS
  <2> QED
    BY <2>1
<1>4. t = SubSeq(r, 1, n - 1)
  BY DEF r, n, Without
<1> HIDE DEF n, r
<1>5. t \in Seq(S) /\ Len(t) = n - 1 /\ \A j \in 1..(n - 1) : t[j] = r[j]
  BY <1>1, <1>2, <1>4
<1>6. \A j \in 1..Len(t) : t[j] = IF j = k THEN s[n] ELSE s[j]
  BY <1>1, <1>3, <1>5
<1> QED
  BY <1>5, <1>6 DEF n

LEMMA RemoveOnce ==
  ASSUME NEW S, NEW s \in Seq(S), NEW k \in 1..Len(s), NEW t, t = Without(s, k),
         \A i, j \in 1..Len(s) : s[i] = s[j] => i = j
  PROVE  /\ \A i, j \in 1..Len(t) : t[i] = t[j] => i = j
         /\ \A x : x \in Elements(t) <=> x \in Elements(s) /\ x # s[k]
<1>1. /\ t \in Seq(S) /\ Len(t) = Len(s) - 1
      /\ \A j \in 1..Len(t) : t[j] = IF j = k THEN s[Len(s)] ELSE s[j]
  BY SwapRemove
<1> DEFINE n == Len(s)
<1>0. n \in Nat
  OBVIOUS
<1>2. /\ n \in Nat /\ k \in 1..n /\ Len(t) = n - 1
      /\ \A j \in 1..(n - 1) : t[j] = IF j = k THEN s[n] ELSE s[j]
      /\ \A i, j \in 1..n : s[i] = s[j] => i = j
  BY <1>0, <1>1
<1> HIDE DEF n
<1>3. \A i, j \in 1..(n - 1) : t[i] = t[j] => i = j
  <2> TAKE i, j \in 1..(n - 1)
  <2>1. i \in 1..n /\ j \in 1..n /\ n \in 1..n /\ i # n /\ j # n
    BY <1>2
  <2> QED
    BY <1>2, <2>1
<1>4. ASSUME NEW x PROVE x \in Elements(t) <=> x \in Elements(s) /\ x # s[k]
  <2>1. x \in Elements(t) <=> \E i \in 1..(n - 1) : t[i] = x
    <3>1. t \in Seq(S)
      BY <1>1
    <3>2. x \in Elements(t) <=> \E i \in 1..Len(t) : t[i] = x
      BY <3>1, HasElement
    <3> QED
      BY <1>2, <3>2
  <2>2. x \in Elements(s) <=> \E i \in 1..n : s[i] = x
    BY HasElement DEF n
  <2>3. ASSUME NEW i \in 1..(n - 1), t[i] = x PROVE (\E j \in 1..n : s[j] = x) /\ x # s[k]
    <3>1. i \in 1..n /\ n \in 1..n /\ i # n
      BY <1>2
    <3>2. CASE i = k
      <4>1. x = s[n] /\ k # n
        BY <1>2, <2>3, <3>1, <3>2
      <4> QED
        BY <1>2, <3>1, <4>1
    <3>3. CASE i # k
      <4>1. x = s[i]
        BY <1>2, <2>3, <3>3
      <4> QED
        BY <1>2, <3>1, <3>3, <4>1
    <3> QED
      BY <3>2, <3>3
  <2>4. ASSUME NEW i \in 1..n, s[i] = x, x # s[k] PROVE \E j \in 1..(n - 1) : t[j] = x
    <3>1. i # k
      BY <2>4
    <3>2. CASE i = n
      <4>1. k \in 1..(n - 1) /\ t[k] = x
        BY <1>2, <2>4, <3>1, <3>2
      <4> QED
        BY <4>1
    <3>3. CASE i # n
      <4>1. i \in 1..(n - 1) /\ t[i] = x
        BY <1>2, <2>4, <3>1, <3>3
      <4> QED
        BY <4>1
    <3> QED
      BY <3>2, <3>3
  <2> QED
    BY <2>1, <2>2, <2>3, <2>4
<1> QED
  BY <1>2, <1>3, <1>4

LEMMA FoundChild ==
  ASSUME Inv, NEW name, Find(Root, name) # None
  PROVE  /\ Find(Root, name) \in Commands /\ Hangs(Find(Root, name))
         /\ Find(Root, name) \in linked /\ parent[Find(Root, name)] = Root
<1>1. PICK i \in 1..Len(child[Root]) : Find(Root, name) = child[Root][i]
  BY FindSomething, SetsFacts DEF Inv
<1>2. child[Root] \in Seq(Commands)
  <2>1. child \in [Nodes -> Seq(Commands)]
    BY DEF Inv, TypeOK
  <2> QED
    BY <2>1, SetsFacts
<1>3. child[Root][i] \in Commands /\ child[Root][i] \in Elements(child[Root])
  BY <1>2, HasElement
<1>4. child[Root][i] \in linked /\ parent[child[Root][i]] = Root
  BY SetsFacts DEF Inv, TreeInv
<1> QED
  BY <1>1, <1>3, <1>4, SetsFacts DEF Hangs

LEMMA QueueTypesStep ==
  ASSUME Inv, [Next]_vars PROVE QueueTypes'
<1>0. QueueTypes /\ at <= Len(pending) + 1 /\ Len(pending) \in Nat
  BY TypesSplit DEF Inv, QueueInv, QueueTypes
<1>1. ASSUME NEW c \in Commands, Autoload(c) PROVE QueueTypes'
  BY <1>0, <1>1 DEF Autoload, QueueTypes
<1>2. ASSUME DrainPending PROVE QueueTypes'
  <2> DEFINE c == pending[at]
  <2>0. at \in 1..Len(pending) /\ Len(pending) <= MaxPending
    BY <1>0, <1>2 DEF DrainPending, QueueTypes
  <2>1. CASE Resolved(c)
    <3>1. pending' = Without(pending, at) /\ at' = at
      BY <1>2, <2>1 DEF DrainPending, Without
    <3>2. pending' \in Seq(Commands) /\ Len(pending') = Len(pending) - 1
      <4>1. pending \in Seq(Commands)
        BY <1>0 DEF QueueTypes
      <4>2. PICK s : s = pending'
        OBVIOUS
      <4>3. s \in Seq(Commands) /\ Len(s) = Len(pending) - 1
        BY <2>0, <3>1, <4>1, <4>2, SwapRemove
      <4> QED
        BY <4>2, <4>3
    <3> QED
      BY <1>0, <2>0, <3>1, <3>2 DEF QueueTypes
  <2>2. CASE ~Resolved(c)
    BY <1>0, <1>2, <2>0, <2>2 DEF DrainPending, QueueTypes
  <2> QED
    BY <2>1, <2>2
<1>3. ASSUME Drained PROVE QueueTypes'
  <2>1. at' = 1 /\ (pending' = pending \/ pending' = <<>>)
    BY <1>3 DEF Drained
  <2>2. 1 \in 1..(MaxPending + 1) /\ <<>> \in Seq(Commands) /\ Len(<<>>) <= MaxPending
    OBVIOUS
  <2> QED
    BY <1>0, <2>1, <2>2 DEF QueueTypes
<1>4. ASSUME Resolve PROVE QueueTypes'
  BY <1>0, <1>4 DEF Resolve, QueueTypes
<1>5. ASSUME (\E o \in Options : AutoloadOption(o)) \/ (\E c \in AutoRoots : AutoloadAppRoot(c))
             \/ (\E c \in Created : Create(c)) \/ UNCHANGED vars
      PROVE  UNCHANGED <<pending, at>>
  BY <1>5 DEF AutoloadOption, AutoloadAppRoot, Create, vars, drain
<1> QED
  BY <1>0, <1>1, <1>2, <1>3, <1>4, <1>5 DEF Next, Step, Load, QueueTypes

LEMMA TypesStep ==
  ASSUME Inv, [Next]_vars PROVE TypeOK'
<1>0. TreeTypes /\ RecordTypes /\ OptionTypes /\ PhaseTypes /\ QueueTypes /\ ReportTypes
  BY TypesSplit DEF Inv
<1>1. linked' = linked
  BY NextRegisters
<1>2. RecordTypes'
  <2>1. records' \subseteq records
    BY DEF Next, Step, Load, Autoload, AutoloadOption, AutoloadAppRoot, Create, Resolve, DrainPending,
       Drained, vars
  <2> QED
    BY <1>0, <1>1, <2>1 DEF RecordTypes
<1>3. OptionTypes'
  <2>1. ASSUME NEW o \in Options, AutoloadOption(o) PROVE OptionTypes'
    <3>1. o \in records /\ Owner[o] \in Nodes
      BY <2>1, SetsFacts DEF AutoloadOption, Nodes
    <3>2. CASE Len(option[Owner[o]]) >= MaxOptions
      BY <1>0, <2>1, <3>2 DEF AutoloadOption, OptionTypes
    <3>3. CASE ~(Len(option[Owner[o]]) >= MaxOptions)
      <4> DEFINE n == Owner[o]
      <4>1. option[n] \in Seq(Options) /\ Len(option[n]) \in Nat /\ Len(option[n]) < MaxOptions
        BY <1>0, <3>1, <3>3 DEF OptionTypes
      <4>2. option' = [option EXCEPT ![n] = Append(@, o)]
        BY <2>1, <3>3 DEF AutoloadOption
      <4> HIDE DEF n
      <4>3. Append(option[n], o) \in Seq(Options) /\ Len(Append(option[n], o)) <= MaxOptions
        BY <4>1
      <4> QED
        BY <1>0, <4>2, <4>3 DEF OptionTypes
    <3> QED
      BY <3>2, <3>3
  <2>2. ASSUME \A o \in Options : ~AutoloadOption(o) PROVE option' = option
    BY <2>2 DEF Next, Step, Load, Autoload, AutoloadAppRoot, Create, Resolve, DrainPending, Drained, vars
  <2> QED
    BY <1>0, <2>1, <2>2 DEF OptionTypes
<1>4. PhaseTypes'
  <2>1. ASSUME Resolve PROVE PhaseTypes'
    <3>1. candidate # None => Find(Root, Name[candidate]) \in Commands \cup {None}
      BY FoundChild
    <3>2. candidate \in Commands \cup {None}
      BY <1>0 DEF PhaseTypes
    <3> QED
      BY <1>0, <2>1, <3>1, <3>2 DEF Resolve, PhaseTypes
  <2>2. ASSUME ~Resolve PROVE PhaseTypes'
    BY <1>0, <2>2 DEF Next, Step, Load, Autoload, AutoloadOption, AutoloadAppRoot, Create, DrainPending,
       Drained, vars, drain, PhaseTypes
  <2> QED
    BY <2>1, <2>2
<1>5. ReportTypes'
  <2>1. ASSUME NEW c \in Commands, NEW p \in Nodes, Registers(c, p) PROVE ReportTypes'
    BY <1>0, <1>1, <2>1 DEF Registers, Placeable, Attaches, Refuses, ReportTypes
  <2>2. ASSUME reported' = reported PROVE ReportTypes'
    BY <1>0, <1>1, <2>2 DEF ReportTypes
  <2>3. ASSUME NEW c \in Commands, ~FollowedSentinel, Autoload(c) PROVE ReportTypes'
    <3>1. CASE Resolved(c)
      <4>1. Registers(c, parent[c])
        BY <2>3, <3>1, AutoloadPlaceable
      <4> QED
        BY <1>0, <1>1, <4>1 DEF Registers, Placeable, Attaches, Refuses, ReportTypes
    <3>2. CASE ~Resolved(c)
      <4>1. c \in linked
        BY <1>0, <2>3 DEF Autoload, RecordTypes
      <4> QED
        BY <1>0, <1>1, <2>3, <3>2, <4>1 DEF Autoload, ReportTypes
    <3> QED
      BY <3>1, <3>2
  <2>4. ASSUME NEW c \in AutoRoots, AutoloadAppRoot(c) PROVE ReportTypes'
    BY <1>0, <1>1, <2>4 DEF AutoloadAppRoot, ReportTypes, RecordTypes
  <2>5. ASSUME NEW o \in Options, AutoloadOption(o) PROVE ReportTypes'
    BY <1>0, <1>1, <2>5 DEF AutoloadOption, ReportTypes
  <2>6. ASSUME Drained PROVE ReportTypes'
    <3>1. Elements(pending) \subseteq linked
      BY <1>0, HasElement DEF QueueTypes, Inv, QueueInv
    <3> QED
      BY <1>0, <1>1, <2>6, <3>1 DEF Drained, ReportTypes
  <2>7. ASSUME NEW c \in Created, ~FollowedSentinel, Create(c) PROVE ReportTypes'
    BY <1>0, <1>1, <2>7, CreatePlaceable DEF Registers, Placeable, Attaches, Refuses, ReportTypes
  <2>8. ASSUME ~FollowedSentinel, DrainPending PROVE ReportTypes'
    <3>1. CASE Resolved(pending[at])
      <4>1. pending[at] \in linked /\ Registers(pending[at], Placed(pending[at])[pending[at]])
        BY <2>8, <3>1, DrainPlaceable
      <4> QED
        BY <1>0, <1>1, <4>1 DEF Registers, Attaches, Refuses, ReportTypes
    <3>2. CASE ~Resolved(pending[at])
      BY <2>2, <2>8, <3>2 DEF DrainPending
    <3> QED
      BY <3>1, <3>2
  <2>9. ASSUME ~FollowedSentinel, Resolve PROVE ReportTypes'
    <3>1. CASE candidate # None /\ Find(Root, Name[candidate]) = None
      BY <1>0, <1>1, <2>9, <3>1, ResolvePlaceable
         DEF Registers, Placeable, Attaches, Refuses, ReportTypes
    <3>2. CASE ~(candidate # None /\ Find(Root, Name[candidate]) = None)
      BY <2>2, <2>9, <3>2 DEF Resolve
    <3> QED
      BY <3>1, <3>2
  <2> QED
    BY <2>2, <2>3, <2>4, <2>5, <2>6, <2>7, <2>8, <2>9 DEF Next, Step, Load, vars
<1>6. (/\ TreeTypes /\ RecordTypes /\ OptionTypes
       /\ PhaseTypes /\ QueueTypes /\ ReportTypes)'
  BY <1>2, <1>3, <1>4, <1>5, TreeTypesStep, QueueTypesStep
<1> QED
  BY <1>6 DEF TypeOK, TreeTypes, RecordTypes, OptionTypes, PhaseTypes, QueueTypes, ReportTypes,
     Parents, Above

-----------------------------------------------------------------------------
(* The rest of the invariant, step by step. *)

\* Children are only ever added, at the end, and not to a full table.
LEMMA ChildrenGrow ==
  ASSUME Inv, [Next]_vars, NEW p \in Nodes
  PROVE  /\ Len(child[p]) \in Nat /\ Len(child'[p]) \in Nat
         /\ Len(child[p]) <= Len(child'[p])
         /\ \A i \in 1..Len(child[p]) : child'[p][i] = child[p][i]
         /\ Len(child[p]) >= MaxSub => child'[p] = child[p]
<1>0. TypeOK
  BY DEF Inv
<1>1. child \in [Nodes -> Seq(Commands)]
  BY <1>0 DEF TypeOK
<1>2. child[p] \in Seq(Commands) /\ Len(child[p]) \in Nat
  BY <1>1
<1>3. CASE child' = child
  BY <1>2, <1>3
<1>4. ASSUME NEW c \in Commands, NEW q \in Nodes, Attaches(c, q)
      PROVE  /\ Len(child'[p]) \in Nat /\ Len(child[p]) <= Len(child'[p])
             /\ \A i \in 1..Len(child[p]) : child'[p][i] = child[p][i]
             /\ Len(child[p]) >= MaxSub => child'[p] = child[p]
  <2>1. /\ Len(child'[q]) = Len(child[q]) + 1 /\ Len(child[q]) \in Nat /\ Len(child[q]) < MaxSub
        /\ \A i \in 1..Len(child[q]) : child'[q][i] = child[q][i]
        /\ \A r \in Nodes : r # q => child'[r] = child[r]
    BY <1>0, <1>4, AttachChildren
  <2> QED
    BY <1>2, <2>1
<1> QED
  BY <1>2, <1>3, <1>4, NextRegisters DEF Registers, Refuses, TreeStands, tree

\* What hangs stays, and the application's root stays a child of root_command.
LEMMA RootKept ==
  ASSUME Inv, [Next]_vars
  PROVE  /\ \A x : Hangs(x) => Hangs(x)'
         /\ appRoot # None => parent'[appRoot] = Root
<1>0. appRoot # None => appRoot \in Commands /\ parent[appRoot] = Root
  BY DEF Inv, TypeOK, RootInv
<1>1. CASE TreeStands
  BY <1>0, <1>1 DEF TreeStands, tree, Hangs
<1>2. ASSUME NEW c \in Commands, NEW p \in Nodes, Registers(c, p)
      PROVE  /\ \A x : Hangs(x) => Hangs(x)'
             /\ appRoot # None => parent'[appRoot] = Root
  <2>1. \A x : Hangs(x) => Hangs(x)'
    BY <1>2, RegisterHangs
  <2>2. /\ \A x \in Commands : x # c => parent'[x] = parent[x]
        /\ parent'[c] # parent[c] => parent[c] = AppRoot \/ parent[c] = None
    BY <1>2, ParentsStep
  <2> QED
    BY <1>0, <2>1, <2>2, SetsFacts
<1> QED
  BY <1>1, <1>2, NextRegisters

\* The command a step hangs: a record that was just loaded, one made now, the one the drain is
\* at, or the application's root.
LEMMA WhoHangs ==
  ASSUME Inv, [Next]_vars, NEW x, Hangs(x)', ~Hangs(x)
  PROVE  \/ x \in records /\ x \notin records' /\ x \notin AutoRoots
         \/ x \in Created
         \/ DrainPending /\ at \in 1..Len(pending) /\ x = pending[at] /\ Resolved(x)
         \/ x = candidate /\ x = appRoot' /\ candidate' = candidate
<1>0. child' # child
  BY RefusedHangs
<1>1. ASSUME NEW c \in Commands, NEW p \in Nodes, Registers(c, p) PROVE x = c
  BY <1>1, RegisterHangs
<1>2. ASSUME NEW c \in Commands, ~FollowedSentinel, Autoload(c)
      PROVE  x \in records /\ x \notin records' /\ x \notin AutoRoots
  <2>1. Resolved(c)
    BY <1>0, <1>2 DEF Autoload, tree
  <2>2. Registers(c, parent[c])
    BY <1>2, <2>1, AutoloadPlaceable
  <2>3. x = c
    <3>1. parent[c] \in Nodes
      BY <2>2, SetsFacts DEF Registers, Placeable, Nodes, Inv, TypeOK
    <3> QED
      BY <1>1, <2>2, <3>1
  <2> QED
    BY <1>2, <2>3 DEF Autoload
<1>3. ASSUME NEW c \in Created, ~FollowedSentinel, Create(c) PROVE x \in Created
  <2>1. Registers(c, Declared[c])
    BY <1>3, CreatePlaceable
  <2>2. Declared[c] \in Nodes
    BY <2>1 DEF Registers, Placeable, Nodes, Inv, TypeOK
  <2> QED
    BY <1>1, <2>1, <2>2
<1>4. ASSUME ~FollowedSentinel, DrainPending
      PROVE  DrainPending /\ at \in 1..Len(pending) /\ x = pending[at] /\ Resolved(x)
  <2>1. Resolved(pending[at])
    BY <1>0, <1>4 DEF DrainPending, tree
  <2>2. PICK c : c = pending[at]
    OBVIOUS
  <2>3. Resolved(c)
    BY <2>1, <2>2
  <2>4. c \in linked \ Created /\ at \in 1..Len(pending) /\ Registers(c, Placed(c)[c])
    BY <1>4, <2>2, <2>3, DrainPlaceable
  <2>5. c \in Commands /\ Placed(c)[c] \in Nodes
    BY <2>4 DEF Registers, Placeable, Nodes, Inv, TypeOK
  <2>6. x = c
    BY <1>1, <2>4, <2>5
  <2> QED
    BY <1>4, <2>2, <2>3, <2>4, <2>6
<1>5. ASSUME ~FollowedSentinel, Resolve PROVE x = candidate /\ x = appRoot' /\ candidate' = candidate
  <2>1. candidate # None /\ Find(Root, Name[candidate]) = None
    BY <1>0, <1>5 DEF Resolve, tree
  <2>2. Registers(candidate, Root) /\ candidate \in Commands
    BY <1>5, <2>1, ResolvePlaceable DEF Inv, TypeOK
  <2>3. x = candidate
    BY <1>1, <2>2, SetsFacts
  <2> QED
    BY <1>5, <2>1, <2>3 DEF Resolve
<1>6. ASSUME (\E o \in Options : AutoloadOption(o)) \/ (\E c \in AutoRoots : AutoloadAppRoot(c))
             \/ Drained \/ UNCHANGED vars
      PROVE  child' = child
  BY <1>6 DEF AutoloadOption, AutoloadAppRoot, Drained, vars, tree
<1> QED
  BY <1>0, <1>2, <1>3, <1>4, <1>5, <1>6 DEF Next, Step, Load

LEMMA RootInvStep ==
  ASSUME Inv, [Next]_vars PROVE RootInv'
<1> USE DEF Inv
<1>0. /\ linked' = linked /\ \A x : Hangs(x) => Hangs(x)'
      /\ appRoot # None => parent'[appRoot] = Root
      /\ appRoot # None => appRoot' = appRoot
  BY NextRegisters, RootKept, AppRootKept
<1>1. ASSUME NEW x \in AutoRoots, Hangs(x)' PROVE x = appRoot'
  <2>1. CASE Hangs(x)
    BY <1>0, <2>1, SetsFacts DEF RootInv
  <2>2. CASE ~Hangs(x)
    BY <1>1, <2>2, WhoHangs DEF QueueInv
  <2> QED
    BY <2>1, <2>2
<1>2. ASSUME \/ \E c \in Commands : Autoload(c)
             \/ \E o \in Options : AutoloadOption(o)
             \/ \E c \in Created : Create(c)
             \/ DrainPending \/ Drained \/ UNCHANGED vars
      PROVE  /\ appRoot' = appRoot /\ candidate' = candidate
             /\ records' \subseteq records /\ (phase' = "load" <=> phase = "load")
  BY <1>2 DEF Autoload, AutoloadOption, Create, DrainPending, Drained, vars
<1>3. ASSUME appRoot' = appRoot, candidate' = candidate,
             records' \subseteq records, phase' = "load" <=> phase = "load"
      PROVE  RootInv'
  <2>1. Hangs(appRoot) => Hangs(appRoot)'
    <3>1. PICK y : y = appRoot
      OBVIOUS
    <3>2. Hangs(y) => Hangs(y)'
      BY <1>0
    <3> QED
      BY <1>3, <3>1, <3>2 DEF Hangs
  <2> QED
    BY <1>0, <1>1, <1>3, <2>1 DEF RootInv, Hangs
<1>4. ASSUME NEW c \in AutoRoots, AutoloadAppRoot(c) PROVE RootInv'
  <2>1. c \in linked /\ c \notin records' /\ records' \subseteq records /\ appRoot' = appRoot
        /\ phase = "load" /\ phase' = "load" /\ appRoot = None
        /\ candidate' \in {c, candidate}
    BY <1>4 DEF AutoloadAppRoot, TypeOK, RootInv
  <2> QED
    BY <1>0, <1>1, <2>1 DEF RootInv
<1>5. ASSUME ~FollowedSentinel, Resolve PROVE RootInv'
  <2>1. /\ phase' = "drain" /\ records' = records /\ candidate' = candidate
        /\ records = {}
    BY <1>5 DEF Resolve, RootInv
  <2>2. CASE candidate = None
    BY <1>0, <1>1, <1>5, <2>1, <2>2 DEF Resolve, RootInv
  <2>3. CASE candidate # None /\ Find(Root, Name[candidate]) # None
    <3>1. PICK e : e = Find(Root, Name[candidate])
      OBVIOUS
    <3>2. e \in Commands /\ Hangs(e) /\ e \in linked /\ parent[e] = Root
      BY <2>3, <3>1, FoundChild
    <3>3. appRoot' = e /\ parent' = parent /\ child' = child
      BY <1>5, <2>3, <3>1 DEF Resolve, tree
    <3>4. Hangs(appRoot)'
      BY <3>2, <3>3 DEF Hangs
    <3> QED
      BY <1>0, <1>1, <2>1, <2>3, <3>2, <3>3, <3>4, SetsFacts DEF RootInv, Hangs
  <2>4. CASE candidate # None /\ Find(Root, Name[candidate]) = None
    <3>1. appRoot' = candidate /\ Registers(candidate, Root)
      BY <1>5, <2>4, ResolvePlaceable DEF Resolve
    <3>2. candidate \in Commands /\ candidate \in linked
      BY <2>4 DEF TypeOK, RootInv
    <3>3. parent'[candidate] = Root
      <4>1. Declared[candidate] = Root /\ candidate \notin Created
        BY <2>4 DEF TypeOK
      <4>2. parent[candidate] = Root
        BY <3>2, <4>1, SetsFacts DEF ParentInv
      <4>3. /\ parent'[candidate] = Root \/ parent'[candidate] = parent[candidate]
        BY <3>1, <3>2, ParentsStep, SetsFacts
      <4> QED
        BY <4>2, <4>3
    <3> QED
      BY <1>0, <1>1, <2>1, <2>4, <3>1, <3>2, <3>3 DEF RootInv
  <2> QED
    BY <2>2, <2>3, <2>4
<1> QED
  BY <1>2, <1>3, <1>4, <1>5 DEF Next, Step, Load

LEMMA QueueInvStep ==
  ASSUME Inv, [Next]_vars PROVE QueueInv'
<1> USE DEF Inv
<1> DEFINE Waits(x) == /\ x \in linked \ (Created \cup AutoRoots)
                       /\ x \notin records' /\ ~Hangs(x)'
<1>0. linked' = linked /\ records' \subseteq records
  BY NextRegisters DEF Next, Step, Load, Autoload, AutoloadOption, AutoloadAppRoot, Create, Resolve,
     DrainPending, Drained, vars
<1>1. /\ pending \in Seq(Commands) /\ Len(pending) \in Nat /\ at \in Nat /\ at >= 1
      /\ \A i, j \in 1..Len(pending) : pending[i] = pending[j] => i = j
      /\ at <= Len(pending) + 1
  <2>1. pending \in Seq(Commands) /\ at \in 1..(MaxPending + 1)
    BY DEF TypeOK
  <2>2. Len(pending) \in Nat /\ at \in Nat /\ at >= 1
    BY <2>1
  <2> QED
    BY <2>1, <2>2 DEF QueueInv
<1>2. ASSUME NEW x, NEW i \in 1..Len(pending), x = pending[i],
             ~(DrainPending /\ i = at /\ Resolved(pending[at]))
      PROVE  Waits(x)
  <2>1. /\ pending[i] \in linked \ (Created \cup AutoRoots) /\ pending[i] \notin records
        /\ ~Hangs(pending[i])
    BY DEF QueueInv
  <2>2. x = pending[i]
    BY <1>2
  <2>3. ASSUME Hangs(x)' PROVE FALSE
    <3>1. \/ x \in records \/ x \in Created
          \/ DrainPending /\ at \in 1..Len(pending) /\ x = pending[at] /\ Resolved(x)
          \/ x = candidate /\ candidate \in AutoRoots \cup {None}
      BY <2>1, <2>2, <2>3, WhoHangs DEF TypeOK
    <3>2. x \in Commands
      BY <2>1, <2>2 DEF TypeOK
    <3>3. DrainPending /\ at \in 1..Len(pending) /\ x = pending[at] /\ Resolved(x)
      BY <2>1, <2>2, <3>1, <3>2, SetsFacts
    <3>4. i = at
      BY <1>1, <2>2, <3>3
    <3> QED
      BY <1>2, <2>2, <3>3, <3>4
  <2>4. ~Hangs(x)'
    BY <2>3
  <2> QED
    BY <1>0, <2>1, <2>2, <2>4
<1>3. ASSUME NEW c \in records' \cap Commands PROVE c \notin Created /\ ~Hangs(c)'
  <2>1. c \notin Created /\ ~Hangs(c) /\ c \in records
    BY <1>0, <1>3 DEF QueueInv
  <2>2. ASSUME Hangs(c)' PROVE FALSE
    <3>1. \/ DrainPending /\ at \in 1..Len(pending) /\ c = pending[at]
          \/ c = candidate /\ candidate # None
      BY <1>3, <2>1, <2>2, SetsFacts, WhoHangs
    <3> QED
      BY <2>1, <3>1 DEF QueueInv, RootInv
  <2> QED
    BY <2>1, <2>2
<1> DEFINE Once == \A i, j \in 1..Len(pending') : pending'[i] = pending'[j] => i = j
           Idle == \A x : (\E i \in 1..Len(pending') : x = pending'[i]) => Waits(x)
           Ends == /\ phase' = "done" => pending' = <<>>
                   /\ at' <= Len(pending') + 1
<1>4. ASSUME NEW c \in Commands, Autoload(c) PROVE Once /\ Idle /\ Ends
  <2>0. phase = "load" /\ phase' = phase /\ at' = at /\ ~DrainPending
    BY <1>4 DEF Autoload, DrainPending
  <2>1. CASE pending' = pending
    <3> HIDE DEF Waits
    <3> QED
      BY <1>1, <1>2, <2>0, <2>1
  <2>2. CASE pending' # pending
    <3>1. pending' = Append(pending, c) /\ UNCHANGED child
      BY <1>4, <2>2 DEF Autoload, tree
    <3>2. /\ c \in linked \ (Created \cup AutoRoots) /\ c \in records /\ c \notin records'
          /\ ~Hangs(c)
      BY <1>4 DEF Autoload, TypeOK, QueueInv
    <3>3. ~Hangs(c)'
      BY <3>1, <3>2, RefusedHangs
    <3>4. Waits(c)
      BY <3>2, <3>3
    <3>5. /\ Len(pending') = Len(pending) + 1 /\ pending'[Len(pending) + 1] = c
          /\ \A i \in 1..Len(pending) : pending'[i] = pending[i]
      BY <1>1, <3>1
    <3> HIDE DEF Waits
    <3>6. /\ \A x : (\E i \in 1..Len(pending) : x = pending[i]) => Waits(x)
          /\ \A i \in 1..Len(pending) : pending[i] # c
      <4>1. \A x : (\E i \in 1..Len(pending) : x = pending[i]) => Waits(x)
        BY <1>2, <2>0
      <4>2. \A i \in 1..Len(pending) : pending[i] # c
        BY <3>2 DEF QueueInv
      <4> QED
        BY <4>1, <4>2
    <3>7. \A i \in 1..Len(pending') : i \in 1..Len(pending) \/ i = Len(pending) + 1
      BY <1>1, <3>5
    <3>8. Idle
      BY <3>4, <3>5, <3>6, <3>7
    <3>9. Once
      BY <1>1, <3>5, <3>6, <3>7
    <3> QED
      BY <1>1, <2>0, <3>5, <3>8, <3>9
  <2> QED
    BY <2>1, <2>2
<1>5. ASSUME DrainPending PROVE Once /\ Idle /\ Ends
  <2>0. at \in 1..Len(pending) /\ phase' = "drain"
    BY <1>1, <1>5 DEF DrainPending
  <2>1. CASE Resolved(pending[at])
    <3>1. PICK s : s = pending'
      OBVIOUS
    <3>2. s = Without(pending, at) /\ at' = at
      BY <1>5, <2>1, <3>1 DEF DrainPending, Without
    <3>3. /\ \A i, j \in 1..Len(s) : s[i] = s[j] => i = j
          /\ \A x : x \in Elements(s) <=> x \in Elements(pending) /\ x # pending[at]
      BY <1>1, <2>0, <3>2, RemoveOnce
    <3>4. s \in Seq(Commands) /\ Len(s) = Len(pending) - 1
      BY <1>1, <2>0, <3>2, SwapRemove
    <3>5. ASSUME NEW x, NEW i \in 1..Len(s), x = s[i] PROVE Waits(x)
      <4>1. x \in Elements(s)
        BY <3>4, <3>5, HasElement
      <4>2. x \in Elements(pending) /\ x # pending[at]
        BY <3>3, <4>1
      <4>3. PICK j \in 1..Len(pending) : pending[j] = x
        BY <1>1, <4>2, HasElement
      <4>4. j # at
        BY <4>2, <4>3
      <4> QED
        BY <1>2, <4>3, <4>4
    <3> HIDE DEF Waits
    <3> QED
      BY <1>1, <2>0, <3>1, <3>2, <3>3, <3>4, <3>5
  <2>2. CASE ~Resolved(pending[at])
    <3>1. pending' = pending /\ at' = at + 1
      BY <1>5, <2>2 DEF DrainPending
    <3> HIDE DEF Waits
    <3>2. \A x : (\E i \in 1..Len(pending) : x = pending[i]) => Waits(x)
      BY <1>2, <2>2
    <3> QED
      BY <1>1, <2>0, <3>1, <3>2
  <2> QED
    BY <2>1, <2>2
<1>6. ASSUME ~DrainPending, \A c \in Commands : ~Autoload(c) PROVE Once /\ Idle /\ Ends
  <2>1. /\ pending' = pending \/ pending' = <<>>
        /\ at' = at \/ at' = 1
        /\ phase' = "done" => pending' = <<>>
        /\ pending' # pending => at' = 1
    BY <1>6 DEF Next, Step, Load, AutoloadOption, AutoloadAppRoot, Create, Resolve, Drained, vars, drain,
       QueueInv, TypeOK
  <2> HIDE DEF Waits
  <2>2. \A x : (\E i \in 1..Len(pending) : x = pending[i]) => Waits(x)
    BY <1>2, <1>6
  <2> QED
    BY <1>1, <2>1, <2>2
<1>7. Once /\ Idle /\ Ends
  BY <1>4, <1>5, <1>6
<1> HIDE DEF Waits
<1>8. ASSUME NEW i \in 1..Len(pending')
      PROVE  /\ pending'[i] \in linked \ (Created \cup AutoRoots)
             /\ pending'[i] \notin records' /\ ~Hangs(pending[i])'
  <2>1. PICK x : x = pending'[i]
    OBVIOUS
  <2>2. Waits(x)
    BY <1>7, <1>8, <2>1
  <2> QED
    BY <2>1, <2>2 DEF Waits, Hangs
<1> QED
  BY <1>0, <1>3, <1>7, <1>8 DEF QueueInv

LEMMA StatusInvStep ==
  ASSUME Inv, [Next]_vars PROVE StatusInv'
<1> USE DEF Inv
<1> SUFFICES ASSUME NEW c \in linked' \ Created
             PROVE  \/ c \in records' \/ c \in Elements(pending') \/ Hangs(c)' \/ c \in reported'
                    \/ c = candidate' /\ (phase' = "load" \/ appRoot' # candidate')
  BY DEF StatusInv, Elements
<1>0. /\ c \in linked \ Created /\ c \in Commands /\ c # None
      /\ pending \in Seq(Commands) /\ \A x : Hangs(x) => Hangs(x)'
  <2>1. linked' = linked /\ \A x : Hangs(x) => Hangs(x)'
    BY NextRegisters, RootKept
  <2> QED
    BY <2>1, SetsFacts DEF TypeOK
<1>1. \/ c \in records \/ c \in Elements(pending) \/ Hangs(c) \/ c \in reported
      \/ c = candidate /\ (phase = "load" \/ appRoot # candidate)
  BY <1>0 DEF StatusInv
<1>2. ASSUME NEW d \in Commands, NEW p \in Nodes, Registers(d, p)
      PROVE  Hangs(d)' \/ d \in reported'
  BY <1>2, RegisterHangs DEF Refuses
<1>3. reported \subseteq reported'
  <2>1. ASSUME NEW d \in Commands, NEW p \in Nodes, Registers(d, p)
        PROVE  reported \subseteq reported'
    BY <2>1 DEF Registers, Attaches, Refuses
  <2>2. CASE TreeStands
    BY <2>2 DEF TreeStands, tree, Next, Step, Load, Autoload, AutoloadOption, AutoloadAppRoot, Create,
       Resolve, DrainPending, Drained, vars, Register
  <2> QED
    BY <2>1, <2>2, NextRegisters
<1>4. ASSUME NEW d \in Commands, ~FollowedSentinel, Autoload(d)
      PROVE  \/ c \in records' \/ c \in Elements(pending') \/ Hangs(c)' \/ c \in reported'
             \/ c = candidate' /\ phase' = "load"
  <2>0. phase' = "load" /\ candidate' = candidate /\ records' = records \ {d} /\ phase = "load"
    BY <1>4 DEF Autoload
  <2>1. CASE Resolved(d)
    <3>1. Registers(d, parent[d])
      BY <1>4, <2>1, AutoloadPlaceable
    <3>2. parent[d] \in Nodes
      BY <3>1, SetsFacts DEF Registers, Placeable, Nodes, TypeOK
    <3>3. Hangs(d)' \/ d \in reported'
      BY <1>2, <3>1, <3>2
    <3>4. pending' = pending
      BY <1>4, <2>1 DEF Autoload
    <3> QED
      BY <1>0, <1>1, <1>3, <2>0, <3>3, <3>4
  <2>2. CASE ~Resolved(d) /\ Len(pending) >= MaxPending
    BY <1>0, <1>1, <1>3, <1>4, <2>0, <2>2 DEF Autoload
  <2>3. CASE ~Resolved(d) /\ ~(Len(pending) >= MaxPending)
    <3>1. pending' = Append(pending, d)
      BY <1>4, <2>3 DEF Autoload
    <3>2. \A y : y \in Elements(Append(pending, d)) <=> y \in Elements(pending) \/ y = d
      BY <1>0, AppendElements
    <3> QED
      BY <1>0, <1>1, <1>3, <2>0, <3>1, <3>2
  <2> QED
    BY <2>1, <2>2, <2>3
<1>5. ASSUME NEW d \in AutoRoots, AutoloadAppRoot(d)
      PROVE  \/ c \in records' \/ c \in Elements(pending') \/ Hangs(c)' \/ c \in reported'
             \/ c = candidate' /\ phase' = "load"
  BY <1>0, <1>1, <1>3, <1>5 DEF AutoloadAppRoot, drain
<1>6. ASSUME ~FollowedSentinel, DrainPending
      PROVE  \/ c \in records' \/ c \in Elements(pending') \/ Hangs(c)' \/ c \in reported'
             \/ c = candidate' /\ appRoot' # candidate'
  <2>0. /\ records' = records /\ candidate' = candidate /\ appRoot' = appRoot /\ phase = "drain"
        /\ at \in 1..Len(pending)
    BY <1>6 DEF DrainPending, TypeOK
  <2>1. CASE ~Resolved(pending[at])
    BY <1>0, <1>1, <1>3, <1>6, <2>0, <2>1 DEF DrainPending
  <2>2. CASE Resolved(pending[at])
    <3>1. PICK d : d = pending[at]
      OBVIOUS
    <3>2. Resolved(d)
      BY <2>2, <3>1
    <3>3. d \in linked \ Created /\ Registers(d, Placed(d)[d])
      BY <1>6, <3>1, <3>2, DrainPlaceable
    <3>4. d \in Commands /\ Placed(d)[d] \in Nodes
      BY <3>3 DEF Registers, Placeable, Nodes, TypeOK
    <3>5. Hangs(d)' \/ d \in reported'
      BY <1>2, <3>3, <3>4
    <3>6. PICK s : s = pending'
      OBVIOUS
    <3>7. s = Without(pending, at)
      BY <1>6, <2>2, <3>6 DEF DrainPending, Without
    <3>8. \A i, j \in 1..Len(pending) : pending[i] = pending[j] => i = j
      BY DEF QueueInv
    <3>9. \A x : x \in Elements(s) <=> x \in Elements(pending) /\ x # pending[at]
      BY <1>0, <2>0, <3>7, <3>8, RemoveOnce
    <3> QED
      BY <1>0, <1>1, <1>3, <2>0, <3>1, <3>5, <3>6, <3>9
  <2> QED
    BY <2>1, <2>2
<1>7. ASSUME Drained
      PROVE  \/ c \in records' \/ c \in Elements(pending') \/ Hangs(c)' \/ c \in reported'
             \/ c = candidate' /\ appRoot' # candidate'
  BY <1>0, <1>1, <1>3, <1>7 DEF Drained
<1>8. ASSUME ~FollowedSentinel, Resolve
      PROVE  \/ c \in records' \/ c \in Elements(pending') \/ Hangs(c)' \/ c \in reported'
             \/ c = candidate' /\ appRoot' # candidate'
  <2>0. records' = records /\ candidate' = candidate /\ pending' = pending
    BY <1>8 DEF Resolve
  <2>1. CASE c # candidate
    BY <1>0, <1>1, <1>3, <2>0, <2>1
  <2>2. CASE c = candidate /\ Find(Root, Name[candidate]) # None
    <3>1. appRoot' = Find(Root, Name[candidate]) /\ child' = child
      BY <1>0, <1>8, <2>2 DEF Resolve, tree
    <3>2. PICK e : e = Find(Root, Name[candidate])
      OBVIOUS
    <3>3. Hangs(e)
      BY <2>2, <3>2, FoundChild
    <3> QED
      BY <1>0, <2>0, <2>2, <3>1, <3>2, <3>3
  <2>3. CASE c = candidate /\ Find(Root, Name[candidate]) = None
    <3>1. Registers(c, Root)
      BY <1>0, <1>8, <2>3, ResolvePlaceable
    <3> QED
      BY <1>0, <1>2, <3>1, SetsFacts
  <2> QED
    BY <2>1, <2>2, <2>3
<1>9. ASSUME (\E o \in Options : AutoloadOption(o)) \/ (\E d \in Created : Create(d))
             \/ UNCHANGED vars
      PROVE  /\ records \subseteq records' \cup Options /\ pending' = pending
             /\ candidate' = candidate /\ appRoot' = appRoot /\ phase' = phase
  BY <1>9 DEF AutoloadOption, Create, vars, drain
<1> QED
  <2>1. c \notin Options
    BY <1>0
  <2> QED
    BY <1>0, <1>1, <1>3, <1>4, <1>5, <1>6, <1>7, <1>8, <1>9, <2>1 DEF Next, Step, Load

LEMMA FindInvStep ==
  ASSUME Inv, [Next]_vars PROVE FindInv'
<1> USE DEF Inv
<1>0. TypeOK /\ TypeOK' /\ (appRoot # None => appRoot' = appRoot)
  BY TypesStep, AppRootKept
<1>1. /\ Len(child[Root]) \in Nat /\ Len(child'[Root]) \in Nat
      /\ Len(child[Root]) <= Len(child'[Root])
      /\ \A i \in 1..Len(child[Root]) : child'[Root][i] = child[Root][i]
      /\ Len(child[Root]) >= MaxSub => child'[Root] = child[Root]
  BY SetsFacts, ChildrenGrow
<1> SUFFICES ASSUME phase' # "load", candidate' # None PROVE
      \/ Find(Root, Name[candidate])' = appRoot'
      \/ /\ candidate' \in reported' /\ appRoot' = candidate'
         /\ Find(Root, Name[candidate])' = None /\ Len(child'[Root]) >= MaxSub
  BY DEF FindInv
<1>2. ASSUME NEW name, Find(Root, name) # None PROVE Find(Root, name)' = Find(Root, name)
  BY <1>0, <1>1, <1>2, SetsFacts, FindStable
<1>3. ASSUME NEW name, child'[Root] = child[Root] PROVE Find(Root, name)' = Find(Root, name)
  BY <1>3 DEF Find
<1>4. ASSUME candidate' = candidate, NEW name, name = Name[candidate]
      PROVE  Find(Root, Name[candidate])' = Find(Root, name)'
  BY <1>4 DEF Find
<1>5. CASE phase # "load"
  <2>1. candidate' = candidate
    BY <1>5 DEF Next, Step, Load, Autoload, AutoloadOption, AutoloadAppRoot, Create, Resolve,
       DrainPending, Drained, vars
  <2>2. appRoot # None /\ appRoot' = appRoot
    BY <1>0, <1>5, <2>1 DEF RootInv
  <2>3. PICK name : name = Name[candidate]
    OBVIOUS
  <2>4. CASE Find(Root, name) = appRoot
    BY <1>2, <1>4, <2>1, <2>2, <2>3, <2>4
  <2>5. CASE Find(Root, name) # appRoot
    <3>1. /\ candidate \in reported /\ appRoot = candidate
          /\ Find(Root, name) = None /\ Len(child[Root]) >= MaxSub
      BY <1>5, <2>1, <2>3, <2>5 DEF FindInv
    <3>2. child'[Root] = child[Root]
      BY <1>1, <3>1
    <3>3. Find(Root, Name[candidate])' = None
      BY <1>3, <1>4, <2>1, <2>3, <3>1, <3>2
    <3>4. candidate \in reported'
      <4>1. ASSUME NEW d \in Commands, NEW p \in Nodes, Registers(d, p)
            PROVE  reported \subseteq reported'
        BY <4>1 DEF Registers, Attaches, Refuses
      <4>2. CASE TreeStands
        BY <3>1, <4>2 DEF TreeStands, tree, Next, Step, Load, Autoload, AutoloadOption, AutoloadAppRoot,
           Create, Resolve, DrainPending, Drained, vars, Register
      <4> QED
        BY <3>1, <4>1, <4>2, NextRegisters
    <3> QED
      BY <2>1, <2>2, <3>1, <3>2, <3>3, <3>4
  <2> QED
    BY <2>4, <2>5
<1>6. CASE phase = "load"
  <2>1. ~FollowedSentinel /\ Resolve
    BY <1>6 DEF Next, Step, Load, Autoload, AutoloadOption, AutoloadAppRoot, Create, DrainPending,
       Drained, vars
  <2>2. candidate' = candidate /\ candidate # None /\ candidate \in Commands
    BY <2>1 DEF Resolve, TypeOK
  <2>3. PICK name : name = Name[candidate]
    OBVIOUS
  <2>4. CASE Find(Root, name) # None
    <3>1. appRoot' = Find(Root, name)
      BY <2>1, <2>2, <2>3, <2>4 DEF Resolve
    <3> QED
      BY <1>2, <1>4, <2>2, <2>3, <2>4, <3>1
  <2>5. CASE Find(Root, name) = None
    <3>1. appRoot' = candidate /\ Registers(candidate, Root)
      BY <2>1, <2>2, <2>3, <2>5, ResolvePlaceable DEF Resolve
    <3>2. CASE Attaches(candidate, Root)
      <4>1. /\ Len(child'[Root]) = Len(child[Root]) + 1 /\ child'[Root][Len(child[Root]) + 1] = candidate
            /\ Len(child[Root]) \in Nat
            /\ \A i \in 1..Len(child[Root]) : child'[Root][i] = child[Root][i]
        <5>1. TypeOK /\ Root \in Nodes
          BY <1>0, SetsFacts
        <5> QED
          BY <2>2, <3>2, <5>1, AttachChildren
      <4>2. \A i \in 1..Len(child[Root]) : Name[child[Root][i]] # name
        BY <1>0, <2>5, SetsFacts, FindNothing
      <4>3. PICK n : n = Len(child[Root]) + 1
        OBVIOUS
      <4>4. FirstNamed(Root, name, n)'
        <5>1. n \in 1..Len(child'[Root]) /\ n - 1 = Len(child[Root])
          BY <4>1, <4>3
        <5>2. Name[child'[Root][n]] = name
          BY <2>3, <4>1, <4>3
        <5>3. \A j \in 1..(n - 1) : Name[child'[Root][j]] # name
          BY <4>1, <4>2, <5>1
        <5> QED
          BY <5>1, <5>2, <5>3 DEF FirstNamed
      <4>5. Find(Root, name)' = candidate
        <5>1. Find(Root, name)' = child'[Root][n]
          BY <1>0, <4>4, SetsFacts, FindsFirstNext DEF FindsFirst
        <5> QED
          BY <4>1, <4>3, <5>1
      <4> QED
        BY <1>4, <2>2, <2>3, <3>1, <4>5
    <3>3. CASE Refuses(candidate, Root)
      <4>1. child' = child /\ candidate \in reported' /\ Len(child[Root]) >= MaxSub
        BY <3>3 DEF Refuses
      <4> QED
        BY <1>3, <1>4, <2>2, <2>3, <2>5, <3>1, <4>1
    <3> QED
      BY <3>1, <3>2, <3>3 DEF Registers
  <2> QED
    BY <2>4, <2>5
<1> QED
  BY <1>5, <1>6

LEMMA InitInv ==
  ASSUME Init PROVE Inv
<1>1. /\ linked \subseteq Commands /\ \A c \in linked : Declared[c] \in linked \cup {Root, AppRoot}
      /\ records = StaticRecords
      /\ phase = "load"
      /\ parent = [c \in Commands |-> IF c \in Created THEN None ELSE Declared[c]]
      /\ child = [c \in Nodes |-> <<>>] /\ option = [c \in Nodes |-> <<>>]
      /\ full = [c \in Commands |-> <<>>]
      /\ candidate = None /\ appRoot = None
      /\ pending = <<>> /\ at = 1 /\ progress = FALSE /\ reported = {}
  BY DEF Init
<1>2. \A p \in Nodes : child[p] = <<>> /\ Len(child[p]) = 0
  BY <1>1
<1>3. \A x : ~Hangs(x)
  BY <1>2 DEF Hangs, Elements
<1>4. TypeOK
  <2>1. <<>> \in Seq(Commands) /\ <<>> \in Seq(Options) /\ <<>> \in Seq(Commands \cup {AppRoot})
        /\ Len(<<>>) = 0
    OBVIOUS
  <2>2. child \in [Nodes -> Seq(Commands)] /\ option \in [Nodes -> Seq(Options)]
        /\ full \in [Commands -> Seq(Commands \cup {AppRoot})]
    BY <1>1, <2>1
  <2>3. \A p \in Nodes : Len(option[p]) = 0
    BY <1>1, <2>1
  <2>4. pending \in Seq(Commands) /\ Len(pending) <= MaxPending /\ at \in 1..(MaxPending + 1)
    BY <1>1, <2>1
  <2>5. parent \in [Commands -> Commands \cup {Root, AppRoot, None}]
    BY <1>1
  <2>6. (\A p \in Nodes : Len(child[p]) <= MaxSub) /\ \A p \in Nodes : Len(option[p]) <= MaxOptions
    BY <1>2, <2>3
  <2> QED
    BY <1>1, <2>2, <2>4, <2>5, <2>6 DEF TypeOK, StaticRecords
<1>5. TreeInv
  BY <1>1, <1>2, <1>3 DEF TreeInv
<1>6. ParentInv
  BY <1>1, SetsFacts DEF ParentInv, Exists
<1>7. RootInv
  BY <1>1, <1>3 DEF RootInv
<1>8. QueueInv
  BY <1>1, <1>3 DEF QueueInv, StaticRecords
<1>9. StatusInv /\ FindInv /\ SafeInv
  BY <1>1, <1>3 DEF StatusInv, FindInv, SafeInv, NeverThroughSentinel, Elements, StaticRecords
<1> QED
  BY <1>4, <1>5, <1>6, <1>7, <1>8, <1>9 DEF Inv

LEMMA Invariance == Spec => []Inv
<1>1. Init => Inv
  BY InitInv
<1>2. Inv /\ [Next]_vars => Inv'
  <2> SUFFICES ASSUME Inv, [Next]_vars PROVE Inv'
    OBVIOUS
  <2> QED
    BY TypesStep, TreeInvStep, ParentInvStep, RootInvStep, QueueInvStep, StatusInvStep,
       FindInvStep, SafeInvStep DEF Inv
<1> QED
  BY <1>1, <1>2, PTL DEF Spec

-----------------------------------------------------------------------------
(* Theorems. *)

\* The tables keep their types and their limits whatever order the linker gives the records in:
\* no parent has more children or options than its arrays, nor the list more than it can hold.
THEOREM CommandTyping == Spec => []TypeOK
<1>1. Inv => TypeOK
  BY DEF Inv
<1> QED
  BY <1>1, Invariance, PTL

LEMMA HangsOnce ==
  ASSUME Inv, NEW c \in Commands, NEW p \in Nodes
  PROVE  Cardinality({i \in DOMAIN child[p] : child[p][i] = c}) =
           IF Hangs(c) /\ p = parent[c] THEN 1 ELSE 0
<1> DEFINE I == {i \in DOMAIN child[p] : child[p][i] = c}
<1>1. child[p] \in Seq(Commands) /\ DOMAIN child[p] = 1..Len(child[p])
  <2>1. child \in [Nodes -> Seq(Commands)]
    BY DEF Inv, TypeOK
  <2> QED
    BY <2>1
<1>2. ASSUME NEW i \in I PROVE Hangs(c) /\ p = parent[c]
  <2>1. i \in 1..Len(child[p]) /\ child[p][i] = c
    BY <1>1
  <2>2. c \in Elements(child[p])
    BY <1>1, <2>1, HasElement
  <2> QED
    BY <2>1, <2>2 DEF Hangs, Inv, TreeInv
<1>3. CASE Hangs(c) /\ p = parent[c]
  <2>1. c \in Elements(child[p])
    BY <1>3, HangsBelow
  <2>2. PICK i \in 1..Len(child[p]) : child[p][i] = c
    BY <1>1, <2>1, HasElement
  <2>3. I = {i}
    BY <1>1, <2>2 DEF Inv, TreeInv
  <2> QED
    BY <1>3, <2>3, FS_Singleton
<1>4. CASE ~(Hangs(c) /\ p = parent[c])
  <2>1. I = {}
    BY <1>2, <1>4
  <2> QED
    BY <1>4, <2>1, FS_EmptySet
<1> QED
  BY <1>3, <1>4

\* Whatever the link order, a command no line of the log gave up hangs once and in its place
\* when the root has been resolved: light_core__autoload_command() and
\* _drain_pending_app_root() attach nothing twice and forget nothing.
THEOREM AttachesOnce == Spec => []AttachedOnce
<1>1. ASSUME Inv PROVE AttachedOnce
  <2> USE <1>1
  <2> SUFFICES ASSUME phase = "done", NEW c \in Made \ reported, NEW p \in Nodes
               PROVE  Cardinality({i \in DOMAIN child[p] : child[p][i] = c}) =
                        IF p = Place(c) /\ ~Yields(c) THEN 1 ELSE 0
    BY DEF AttachedOnce
  <2>1. c \in linked /\ c \in Commands /\ (c \in Created => parent[c] # None)
    BY DEF Made, Inv, TypeOK
  <2>2. CASE Hangs(c)
    <3>1. parent[c] \in Nodes
      BY <2>2, HangsBelow
    <3>2. parent[c] = Place(c)
      BY <2>1, <3>1, SetsFacts DEF Inv, ParentInv, Place
    <3>3. ~Yields(c)
      BY <2>1, <2>2, SetsFacts DEF Yields, Inv, RootInv, TypeOK
    <3> QED
      BY <2>1, <2>2, <3>2, <3>3, HangsOnce
  <2>3. CASE ~Hangs(c)
    <3>1. c \notin Created
      BY <2>1, <2>3 DEF Inv, ParentInv
    <3>2. records = {} /\ Elements(pending) = {}
      BY DEF Inv, RootInv, QueueInv, Elements
    <3>3. Yields(c)
      BY <2>1, <2>3, <3>1, <3>2 DEF Inv, StatusInv, Yields
    <3> QED
      BY <2>1, <2>3, <3>3, HangsOnce
  <2> QED
    BY <2>2, <2>3
<1> QED
  BY <1>1, Invariance, PTL

\* The full name of no static record is ever built through LIGHT_COMMAND_APP_ROOT, in any link
\* order and however small the list of the waiting is: _ancestry_resolved() is enough for them.
\* light_command_create(), which does not ask, builds one only below a command that hangs nowhere.
THEOREM NamesAvoidSentinel == Spec => []NeverThroughSentinel
<1>1. Inv => NeverThroughSentinel
  BY DEF Inv, SafeInv
<1> QED
  BY <1>1, Invariance, PTL

\* The name of the application's root leads the parser to the root the library commands were
\* hung on, unless there was no room for it, which the log says.
THEOREM RootIsFound == Spec => []AppRootFound
<1>1. Inv => AppRootFound
  BY DEF Inv, FindInv, AppRootFound
<1> QED
  BY <1>1, Invariance, PTL

-----------------------------------------------------------------------------
(* A program inside the limits. *)

\* Two sets of parent pointers that agree on S lead a walk inside S the same way.
LEMMA WalksAgree ==
  ASSUME NEW up \in Parents, NEW up2 \in Parents, NEW S, S \subseteq Commands, NEW c \in S,
         \A x \in S : up2[x] = up[x] /\ (up[x] \in Commands => up[x] \in S)
  PROVE  \A n \in 0..MaxDepth : /\ Ancestor(up2, c)[n] = Ancestor(up, c)[n]
                                /\ Ancestor(up, c)[n] \in Commands => Ancestor(up, c)[n] \in S
<1> DEFINE w == Ancestor(up, c)  v == Ancestor(up2, c)
           T == {n \in Nat : n \in 0..MaxDepth
                               /\ ~(v[n] = w[n] /\ (w[n] \in Commands => w[n] \in S))}
<1>1. /\ MaxDepth \in Nat /\ w[0] = c /\ v[0] = c
      /\ \A n \in 1..MaxDepth : w[n] = Up(up, w[n - 1])
      /\ \A n \in 1..MaxDepth : v[n] = Up(up2, v[n - 1])
  BY AncestorSteps
<1> HIDE DEF w, v
<1> SUFFICES ASSUME T # {} PROVE FALSE
  BY <1>1 DEF w, v
<1>2. PICK n \in T : \A j \in T : n <= j
  BY LeastElement
<1>3. n \in 1..MaxDepth /\ n - 1 \in 0..MaxDepth /\ n - 1 \in Nat
  BY <1>1, <1>2
<1>4. n - 1 \notin T
  BY <1>2, <1>3
<1>5. v[n - 1] = w[n - 1] /\ (w[n - 1] \in Commands => w[n - 1] \in S)
  BY <1>3, <1>4
<1>6. v[n] = w[n] /\ (w[n] \in Commands => w[n] \in S)
  BY <1>1, <1>3, <1>5, SetsFacts DEF Up
<1> QED
  BY <1>2, <1>6

\* A sequence without repetitions that leaves out an element of T is shorter than T is large.
LEMMA NoRoom ==
  ASSUME NEW T, IsFiniteSet(T), NEW S, NEW s \in Seq(S), NEW c \in T,
         \A i, j \in 1..Len(s) : s[i] = s[j] => i = j,
         \A i \in 1..Len(s) : s[i] \in T /\ s[i] # c
  PROVE  Len(s) < Cardinality(T)
<1> DEFINE n == Len(s)
           f == [i \in 1..(n + 1) |-> IF i = n + 1 THEN c ELSE s[i]]
<1>1. n \in Nat
  OBVIOUS
<1>2. /\ \A i, j \in 1..n : s[i] = s[j] => i = j
      /\ \A i \in 1..n : s[i] \in T /\ s[i] # c
  OBVIOUS
<1> HIDE DEF n
<1>3. f \in [1..(n + 1) -> T]
  BY <1>1, <1>2
<1>4. ASSUME NEW i \in 1..(n + 1), NEW j \in 1..(n + 1), f[i] = f[j] PROVE i = j
  <2>1. i \in 1..n \/ i = n + 1
    BY <1>1
  <2>2. j \in 1..n \/ j = n + 1
    BY <1>1
  <2> QED
    BY <1>2, <1>4, <2>1, <2>2
<1> HIDE DEF f
<1>5. f \in Injection(1..(n + 1), T)
  BY <1>3, <1>4 DEF Injection, IsInjective
<1>6. Cardinality(1..(n + 1)) <= Cardinality(T)
  BY <1>5, FS_Injection
<1>7. Cardinality(1..(n + 1)) = n + 1
  <2>1. 1 \in Int /\ n + 1 \in Int /\ ~(1 > n + 1)
    BY <1>1
  <2>2. Cardinality(1..(n + 1)) = IF 1 > n + 1 THEN 0 ELSE (n + 1) - 1 + 1
    BY <2>1, FS_Interval
  <2> QED
    BY <1>1, <2>1, <2>2
<1>8. Cardinality(T) \in Nat
  BY FS_CardinalityType
<1> QED
  BY <1>1, <1>6, <1>7, <1>8 DEF n

\* While the records are loaded a record that is not resolved is declared below the sentinel.
LEMMA DeferredIsBelow ==
  ASSUME Inv, NEW c \in Commands, Autoload(c), ~Resolved(c)
  PROVE  BelowSentinel(c)
<1> DEFINE S == Commands \ Created
<1>1. parent \in Parents /\ Declared \in Parents
  BY ParentType DEF Inv, Parents, Above
<1>2. appRoot = None
  BY DEF Inv, RootInv, Autoload
<1>3. c \in S
  BY DEF Inv, QueueInv, Autoload
<1>4. \A x \in S : Declared[x] = parent[x] /\ (parent[x] \in Commands => parent[x] \in S)
  BY <1>2 DEF Inv, ParentInv
<1>5. PICK n \in 0..(MaxDepth - 1) :
        Ancestor(parent, c)[n] \in Commands /\ parent[Ancestor(parent, c)[n]] = AppRoot
  BY DEF Resolved
<1> DEFINE x == Ancestor(parent, c)[n]
<1> HIDE DEF S
<1>6. S \subseteq Commands
  BY DEF S
<1>7. n \in 0..MaxDepth
  OBVIOUS
<1>8. Ancestor(Declared, c)[n] = x /\ x \in S
  BY <1>1, <1>3, <1>4, <1>5, <1>6, <1>7, WalksAgree
<1>9. Declared[x] = AppRoot /\ x \in Commands
  BY <1>4, <1>5, <1>8
<1> QED
  BY <1>8, <1>9 DEF BelowSentinel

\* A step that leaves the parents and the root alone resolves nothing.
LEMMA ResolvedStands ==
  ASSUME UNCHANGED <<parent, appRoot>>, NEW x PROVE Resolved(x)' <=> Resolved(x)
  BY DEF Resolved

LEMMA PassInvStep ==
  ASSUME Inv, PassInv, [Next]_vars PROVE PassInv'
<1>0. /\ pending \in Seq(Commands) /\ Len(pending) \in Nat /\ at \in Nat /\ at >= 1
      /\ \A i \in 1..Len(pending) : BelowSentinel(pending[i])
      /\ phase = "drain" /\ ~progress => \A i \in 1..(at - 1) : ~Resolved(pending[i])
      /\ at <= Len(pending) + 1
  BY DEF Inv, TypeOK, PassInv, QueueInv
<1>1. ASSUME NEW i \in 1..Len(pending') PROVE BelowSentinel(pending'[i])
  <2>1. ASSUME NEW c \in Commands, Autoload(c), pending' # pending
        PROVE  BelowSentinel(pending'[i])
    <3>1. pending' = Append(pending, c) /\ ~Resolved(c)
      BY <2>1 DEF Autoload
    <3>2. BelowSentinel(c)
      BY <2>1, <3>1, DeferredIsBelow
    <3>3. pending'[i] = c \/ (i \in 1..Len(pending) /\ pending'[i] = pending[i])
      BY <1>0, <1>1, <3>1
    <3> QED
      BY <1>0, <3>2, <3>3
  <2>2. ASSUME DrainPending, Resolved(pending[at]) PROVE BelowSentinel(pending'[i])
    <3>1. PICK s : s = pending'
      OBVIOUS
    <3>2. at \in 1..Len(pending) /\ s = Without(pending, at)
      BY <1>0, <2>2, <3>1 DEF DrainPending, Without
    <3>3. \A i_1, j_1 \in 1..Len(pending) : pending[i_1] = pending[j_1] => i_1 = j_1
      BY DEF Inv, QueueInv
    <3>4. s \in Seq(Commands)
      BY <1>0, <3>2, SwapRemove
    <3>5. \A x : x \in Elements(s) <=> x \in Elements(pending) /\ x # pending[at]
      BY <1>0, <3>2, <3>3, RemoveOnce
    <3>6. s[i] \in Elements(s)
      BY <1>1, <3>1, <3>4, HasElement
    <3>7. PICK j \in 1..Len(pending) : pending[j] = s[i]
      BY <1>0, <3>5, <3>6, HasElement
    <3> QED
      BY <1>0, <3>1, <3>7
  <2>3. CASE pending' = pending
    BY <1>0, <1>1, <2>3
  <2>4. CASE pending' = <<>>
    BY <1>1, <2>4
  <2>5. \/ \E c \in Commands : Autoload(c)
        \/ DrainPending /\ Resolved(pending[at])
        \/ pending' = pending \/ pending' = <<>>
    BY DEF Next, Step, Load, AutoloadOption, AutoloadAppRoot, Create, Resolve, DrainPending, Drained,
       vars, drain
  <2> QED
    BY <2>1, <2>2, <2>3, <2>4, <2>5
<1>2. ASSUME phase' = "drain", ~progress', NEW i \in 1..(at' - 1) PROVE ~Resolved(pending[i])'
  <2>1. ASSUME DrainPending PROVE ~Resolved(pending[i])'
    <3>1. ~Resolved(pending[at])
      BY <1>2, <2>1 DEF DrainPending
    <3>2. /\ UNCHANGED <<parent, appRoot, pending>> /\ at' = at + 1
          /\ ~progress /\ phase = "drain"
      BY <1>2, <2>1, <3>1 DEF DrainPending, tree
    <3>3. i \in 1..(at - 1) \/ i = at
      BY <1>0, <1>2, <3>2
    <3>4. ~Resolved(pending[i])
      BY <1>0, <3>1, <3>2, <3>3
    <3> QED
      BY <3>2, <3>4 DEF Resolved
  <2>2. CASE UNCHANGED vars
    BY <1>0, <1>2, <2>2 DEF vars, tree, drain, Resolved
  <2>3. CASE at' = 1
    BY <1>2, <2>3
  <2>4. DrainPending \/ UNCHANGED vars \/ at' = 1
    BY <1>2 DEF Next, Step, Load, Autoload, AutoloadOption, AutoloadAppRoot, Create, Resolve, Drained
  <2> QED
    BY <2>1, <2>2, <2>3, <2>4
<1> QED
  BY <1>1, <1>2 DEF PassInv, BelowSentinel

\* Every command of the program finds a place of its declared kind: who hangs below p could.
LEMMA ChildrenCouldHang ==
  ASSUME Inv, NEW p \in Nodes, NEW x \in linked, parent[x] = p
  PROVE  /\ p = Root => Declared[x] = Root
         /\ p \in Commands => CouldHang(x, p)
<1>1. x \in Commands
  BY DEF Inv, TypeOK
<1>2. \/ parent[x] = Declared[x]
      \/ Declared[x] = AppRoot /\ appRoot # None /\ p = appRoot
  BY <1>1, SetsFacts DEF Inv, ParentInv
<1>3. appRoot # None => appRoot \in Commands /\ Declared[appRoot] = Root
  <2>1. appRoot # None => appRoot \in Commands /\ parent[appRoot] = Root
    BY DEF Inv, TypeOK, RootInv
  <2> QED
    BY <2>1, SetsFacts DEF Inv, ParentInv
<1> QED
  BY <1>2, <1>3, SetsFacts DEF CouldHang

\* Inside the limits no command is refused a place.
LEMMA FitsRegister ==
  ASSUME Inv, Fits, NEW c \in Commands, NEW p \in Nodes, Registers(c, p)
  PROVE  Attaches(c, p)
<1>1. c \in linked /\ ~Hangs(c) /\ p \in linked \cup {Root}
  BY DEF Registers, Placeable
<1>2. (p = Root => Declared[c] = Root) /\ (p \in Commands => CouldHang(c, p))
  <2>1. CASE parent[c] = p
    BY <1>1, <2>1, ChildrenCouldHang
  <2>2. CASE parent[c] = AppRoot /\ appRoot # None /\ p = appRoot
    <3>1. appRoot \in Commands /\ parent[appRoot] = Root
      BY <2>2 DEF Inv, TypeOK, RootInv
    <3>2. Declared[appRoot] = Root
      BY <3>1, SetsFacts DEF Inv, ParentInv
    <3>3. Declared[c] = AppRoot
      BY <1>1, <2>2, SetsFacts, HangsBelow DEF Inv, ParentInv
    <3> QED
      BY <2>2, <3>1, <3>2, <3>3, SetsFacts DEF CouldHang
  <2>3. CASE parent[c] = None /\ c \in Created /\ p = Declared[c]
    BY <2>3 DEF CouldHang
  <2> QED
    BY <2>1, <2>2, <2>3 DEF Registers, Placeable
<1>3. child[p] \in Seq(Commands)
  <2>1. child \in [Nodes -> Seq(Commands)]
    BY DEF Inv, TypeOK
  <2> QED
    BY <2>1
<1>4. /\ \A i, j \in 1..Len(child[p]) : child[p][i] = child[p][j] => i = j
      /\ \A i \in 1..Len(child[p]) : /\ child[p][i] \in linked /\ parent[child[p][i]] = p
                                     /\ child[p][i] # c
  <2>1. \A i \in 1..Len(child[p]) : child[p][i] \in Elements(child[p])
    BY <1>3, HasElement
  <2> QED
    BY <1>1, <2>1 DEF Inv, TreeInv, Hangs
<1>5. ASSUME NEW T, T \subseteq linked, c \in T, \A i \in 1..Len(child[p]) : child[p][i] \in T,
             Cardinality(T) <= MaxSub
      PROVE  Attaches(c, p)
  <2>1. IsFiniteSet(T)
    BY <1>5, FS_Subset DEF Inv, TypeOK
  <2>2. Len(child[p]) < Cardinality(T)
    BY <1>3, <1>4, <1>5, <2>1, NoRoom
  <2>3. Cardinality(T) \in Nat /\ Len(child[p]) \in Nat
    BY <1>3, <2>1, FS_CardinalityType
  <2>4. ~Refuses(c, p)
    BY <1>5, <2>2, <2>3 DEF Refuses
  <2> QED
    BY <2>4 DEF Registers
<1>6. CASE p = Root
  <2> DEFINE T == {x \in linked : Declared[x] = Root}
  <2>1. c \in T /\ \A i \in 1..Len(child[p]) : child[p][i] \in T
    BY <1>1, <1>2, <1>4, <1>6, ChildrenCouldHang
  <2>2. Cardinality(T) <= MaxSub /\ T \subseteq linked
    BY DEF Fits
  <2> HIDE DEF T
  <2> QED
    BY <1>5, <2>1, <2>2
<1>7. CASE p \in Commands
  <2> DEFINE T == {x \in linked : CouldHang(x, p)}
  <2>1. c \in T /\ \A i \in 1..Len(child[p]) : child[p][i] \in T
    BY <1>1, <1>2, <1>4, <1>7, ChildrenCouldHang
  <2>2. Cardinality(T) <= MaxSub /\ T \subseteq linked
    BY <1>1, <1>7, SetsFacts DEF Fits
  <2> HIDE DEF T
  <2> QED
    BY <1>5, <2>1, <2>2
<1> QED
  BY <1>6, <1>7 DEF Nodes

\* Inside the limits the list has room for a record that is deferred.
LEMMA FitsDefer ==
  ASSUME Inv, PassInv, Fits, NEW c \in Commands, Autoload(c), ~Resolved(c)
  PROVE  Len(pending) < MaxPending
<1> DEFINE T == {x \in linked : BelowSentinel(x)}
<1>1. pending \in Seq(Commands) /\ Len(pending) \in Nat
  BY DEF Inv, TypeOK
<1>2. c \in linked /\ c \in records
  BY DEF Inv, TypeOK, Autoload
<1>3. c \in T
  BY <1>2, DeferredIsBelow
<1>4. \A i \in 1..Len(pending) : pending[i] \in T /\ pending[i] # c
  BY <1>2 DEF Inv, QueueInv, PassInv
<1>5. \A i, j \in 1..Len(pending) : pending[i] = pending[j] => i = j
  BY DEF Inv, QueueInv
<1>6. IsFiniteSet(T)
  BY FS_Subset DEF Inv, TypeOK
<1>7. Cardinality(T) <= MaxPending
  BY DEF Fits
<1> HIDE DEF T
<1>8. Len(pending) < Cardinality(T)
  BY <1>1, <1>3, <1>4, <1>5, <1>6, NoRoom
<1> QED
  BY <1>1, <1>6, <1>7, <1>8, FS_CardinalityType

\* The program has a root of its own, and once the records are loaded it is known.
LEMMA FitsRoot ==
  ASSUME Inv, Fits, reported \cap Commands = {}, phase # "load"
  PROVE  appRoot # None
<1>1. linked \cap AutoRoots # {}
  <2>1. Cardinality({}) = 0
    BY FS_EmptySet
  <2> QED
    BY <2>1 DEF Fits
<1>2. PICK r \in linked : r \in AutoRoots
  BY <1>1
<1>3. r \in Commands /\ r \notin Created /\ r # None
  BY <1>2
<1>4. r \notin records /\ r \notin reported
  BY <1>3 DEF Inv, RootInv
<1>5. r \notin Elements(pending)
  <2>1. pending \in Seq(Commands)
    BY DEF Inv, TypeOK
  <2>2. \A i \in 1..Len(pending) : pending[i] \notin AutoRoots
    BY DEF Inv, QueueInv
  <2> QED
    BY <1>2, <2>1, <2>2, HasElement
<1>6. Hangs(r) \/ r = candidate
  BY <1>3, <1>4, <1>5 DEF Inv, StatusInv
<1> QED
  BY <1>2, <1>3, <1>6 DEF Inv, RootInv

\* A command that holds the sentinel is resolved as soon as the root is known.
LEMMA HolderResolves ==
  ASSUME Inv, NEW c \in Commands, parent[c] = AppRoot, appRoot # None
  PROVE  Resolved(c)
<1>1. parent \in Parents /\ MaxDepth \in Nat /\ MaxDepth >= 1
  BY ParentType DEF Inv
<1>2. 1 \in 1..MaxDepth /\ 1 \in 0..MaxDepth /\ Ancestor(parent, c)[0] = c
  BY <1>1, AncestorSteps
<1>3. Ancestor(parent, c)[1] = AppRoot
  <2>1. Ancestor(parent, c)[1] = Up(parent, Ancestor(parent, c)[1 - 1])
    BY <1>1, <1>2, AncestorSteps
  <2> QED
    BY <1>2, <2>1 DEF Up
<1>4. \A n \in (1 + 1)..MaxDepth : Ancestor(parent, c)[n] = None
  BY <1>1, <1>2, <1>3, SetsFacts, WalkEnds
<1>5. ASSUME NEW n \in 0..(MaxDepth - 1), Ancestor(parent, c)[n] \in Commands PROVE n = 0
  <2>1. n # 1
    BY <1>3, <1>5, SetsFacts
  <2>2. n \notin (1 + 1)..MaxDepth
    BY <1>4, <1>5, SetsFacts
  <2> QED
    BY <1>1, <2>1, <2>2
<1> QED
  BY <1>5 DEF Resolved

\* Inside the limits a pass that attaches nothing finds nothing left.
LEMMA FitsDrained ==
  ASSUME Inv, PassInv, Fits, reported \cap Commands = {}, Drained, ~progress
  PROVE  Elements(pending) = {}
<1> SUFFICES ASSUME NEW c \in Elements(pending) PROVE FALSE
  OBVIOUS
<1>1. /\ pending \in Seq(Commands) /\ Len(pending) \in Nat /\ phase = "drain"
      /\ at > Len(pending) /\ at \in Nat /\ at <= Len(pending) + 1
  BY DEF Inv, TypeOK, Drained, QueueInv
<1>2. \A x \in Elements(pending) : ~Resolved(x)
  <2>1. ASSUME NEW x \in Elements(pending) PROVE ~Resolved(x)
    <3>1. PICK i \in 1..Len(pending) : pending[i] = x
      BY <1>1, HasElement
    <3>2. i \in 1..(at - 1)
      BY <1>1
    <3>3. ~Resolved(pending[i])
      BY <1>1, <3>2 DEF PassInv
    <3> QED
      BY <3>1, <3>3
  <2> QED
    BY <2>1
<1>3. c \in linked /\ c \in Commands
  <2>1. PICK i \in 1..Len(pending) : pending[i] = c
    BY <1>1, HasElement
  <2> QED
    BY <2>1 DEF Inv, QueueInv, TypeOK
<1>4. parent \in Parents /\ linked \subseteq Commands
  BY ParentType DEF Inv, TypeOK
<1>5. \A x \in linked : parent[x] = parent[x] /\ (parent[x] \in Commands => parent[x] \in linked)
  <2>1. ASSUME NEW x \in linked, parent[x] \in Commands PROVE parent[x] \in linked
    <3>1. Declared[x] \in linked \cup {Root, AppRoot} /\ (appRoot # None => appRoot \in linked)
      BY DEF Inv, TreeInv, RootInv
    <3> QED
      BY <1>4, <2>1, <3>1, SetsFacts DEF Inv, ParentInv
  <2> QED
    BY <2>1
<1>6. PICK n \in 0..(MaxDepth - 1) :
        Ancestor(parent, c)[n] \in Commands /\ parent[Ancestor(parent, c)[n]] = AppRoot
  BY <1>2 DEF Resolved
<1> DEFINE x == Ancestor(parent, c)[n]
<1>7. n \in 0..MaxDepth
  OBVIOUS
<1>8. x \in linked /\ x \in Commands /\ parent[x] = AppRoot
  BY <1>3, <1>4, <1>5, <1>6, <1>7, WalksAgree
<1> HIDE DEF x
<1>9. ~Hangs(x) /\ x \notin Created
  BY <1>8, SetsFacts, HangsBelow DEF Inv, ParentInv
<1>10. x # candidate
  <2>1. ASSUME x = candidate PROVE FALSE
    <3>1. x \in AutoRoots
      BY <1>8, <2>1, SetsFacts DEF Inv, TypeOK
    <3>2. Declared[x] = Root
      BY <3>1
    <3> QED
      BY <1>8, <1>9, <3>2, SetsFacts DEF Inv, ParentInv
  <2> QED
    BY <2>1
<1>11. x \in Elements(pending)
  BY <1>1, <1>8, <1>9, <1>10 DEF Inv, StatusInv, RootInv
<1>12. Resolved(x)
  BY <1>1, <1>8, FitsRoot, HolderResolves
<1> QED
  BY <1>2, <1>11, <1>12

LEMMA RoomInvStep ==
  ASSUME Inv, PassInv, RoomInv, [Next]_vars PROVE RoomInv'
<1>0. linked' = linked
  BY NextRegisters
<1> SUFFICES ASSUME Fits PROVE reported' \cap Commands = {}
  BY <1>0 DEF RoomInv, Fits
<1>1. reported \cap Commands = {}
  BY DEF RoomInv
<1>2. ASSUME NEW c \in Commands, NEW p \in Nodes, Registers(c, p) PROVE reported' = reported
  BY <1>2, FitsRegister DEF Attaches
<1>3. ASSUME NEW c \in Commands, ~FollowedSentinel, Autoload(c) PROVE reported' = reported
  <2>1. CASE Resolved(c)
    <3>1. Registers(c, parent[c])
      BY <1>3, <2>1, AutoloadPlaceable
    <3>2. parent[c] \in Nodes
      BY <3>1, SetsFacts DEF Registers, Placeable, Nodes, Inv, TypeOK
    <3> QED
      BY <1>2, <3>1, <3>2
  <2>2. CASE ~Resolved(c)
    <3>1. Len(pending) < MaxPending
      BY <1>3, <2>2, FitsDefer
    <3>2. Len(pending) \in Nat
      BY DEF Inv, TypeOK
    <3> QED
      BY <1>3, <2>2, <3>1, <3>2 DEF Autoload
  <2> QED
    BY <2>1, <2>2
<1>4. ASSUME NEW c \in AutoRoots, AutoloadAppRoot(c) PROVE reported' = reported
  <2>1. CASE candidate = None
    BY <1>4, <2>1 DEF AutoloadAppRoot
  <2>2. CASE candidate # None
    <3>1. candidate \in linked \cap AutoRoots /\ candidate # c
      BY <1>4, <2>2 DEF AutoloadAppRoot, Inv, TypeOK, RootInv
    <3>2. c \in linked \cap AutoRoots
      BY <1>4 DEF AutoloadAppRoot, Inv, TypeOK
    <3>3. IsFiniteSet(linked \cap AutoRoots)
      BY FS_Subset DEF Inv, TypeOK
    <3>4. \E y : linked \cap AutoRoots = {y}
      BY <3>3, FS_Singleton DEF Fits
    <3> QED
      BY <3>1, <3>2, <3>4
  <2> QED
    BY <2>1, <2>2
<1>5. ASSUME NEW o \in Options, AutoloadOption(o) PROVE reported' \cap Commands = {}
  BY <1>1, <1>5 DEF AutoloadOption
<1>6. ASSUME NEW c \in Created, ~FollowedSentinel, Create(c) PROVE reported' = reported
  <2>1. Registers(c, Declared[c])
    BY <1>6, CreatePlaceable
  <2>2. Declared[c] \in Nodes
    BY <2>1 DEF Registers, Placeable, Nodes, Inv, TypeOK
  <2> QED
    BY <1>2, <2>1, <2>2
<1>7. ASSUME ~FollowedSentinel, DrainPending PROVE reported' = reported
  <2>1. CASE Resolved(pending[at])
    <3>1. PICK c : c = pending[at]
      OBVIOUS
    <3>2. Resolved(c)
      BY <2>1, <3>1
    <3>3. c \in linked \ Created /\ Registers(c, Placed(c)[c])
      BY <1>7, <3>1, <3>2, DrainPlaceable
    <3>4. c \in Commands /\ Placed(c)[c] \in Nodes
      BY <3>3 DEF Registers, Placeable, Nodes, Inv, TypeOK
    <3> QED
      BY <1>2, <3>3, <3>4
  <2>2. CASE ~Resolved(pending[at])
    BY <1>7, <2>2 DEF DrainPending
  <2> QED
    BY <2>1, <2>2
<1>8. ASSUME Drained PROVE reported' = reported
  <2>1. CASE progress
    BY <1>8, <2>1 DEF Drained
  <2>2. CASE ~progress
    <3>1. Elements(pending) = {}
      BY <1>1, <1>8, <2>2, FitsDrained
    <3> QED
      BY <1>8, <2>2, <3>1 DEF Drained
  <2> QED
    BY <2>1, <2>2
<1>9. ASSUME ~FollowedSentinel, Resolve PROVE reported' = reported
  <2>1. CASE candidate # None /\ Find(Root, Name[candidate]) = None
    <3>1. Registers(candidate, Root) /\ candidate \in Commands
      BY <1>9, <2>1, ResolvePlaceable DEF Inv, TypeOK
    <3> QED
      BY <1>2, <3>1, SetsFacts
  <2>2. CASE ~(candidate # None /\ Find(Root, Name[candidate]) = None)
    BY <1>9, <2>2 DEF Resolve
  <2> QED
    BY <2>1, <2>2
<1>10. CASE UNCHANGED vars
  BY <1>1, <1>10 DEF vars
<1> QED
  BY <1>1, <1>3, <1>4, <1>5, <1>6, <1>7, <1>8, <1>9, <1>10 DEF Next, Step, Load

\* Any program that declares one root and stays inside the limits of children and of waiting
\* commands loses no command, whatever order the linker gives the records in.
THEOREM RoomKeepsAll == Spec => []NothingLostWithRoom
<1>1. Init => Inv /\ PassInv /\ RoomInv
  <2> SUFFICES ASSUME Init PROVE Inv /\ PassInv /\ RoomInv
    OBVIOUS
  <2>1. pending = <<>> /\ phase = "load" /\ reported = {}
    BY DEF Init
  <2>2. Len(<<>>) = 0
    OBVIOUS
  <2> QED
    BY <2>1, <2>2, InitInv DEF PassInv, RoomInv
<1>2. Inv /\ PassInv /\ RoomInv /\ [Next]_vars => (Inv /\ PassInv /\ RoomInv)'
  <2> SUFFICES ASSUME Inv, PassInv, RoomInv, [Next]_vars PROVE (Inv /\ PassInv /\ RoomInv)'
    OBVIOUS
  <2>1. Inv'
    BY TypesStep, TreeInvStep, ParentInvStep, RootInvStep, QueueInvStep, StatusInvStep,
       FindInvStep, SafeInvStep DEF Inv
  <2> QED
    BY <2>1, PassInvStep, RoomInvStep
<1>3. RoomInv => NothingLostWithRoom
  BY DEF RoomInv, NothingLostWithRoom
<1> QED
  BY <1>1, <1>2, <1>3, PTL DEF Spec

-----------------------------------------------------------------------------
(* Names and paths. *)

\* The name a command got when it was hung is the one it would get now.
NamesKept == \A c \in Commands : Hangs(c) => full[c] = FullName(parent, c)

LEMMA SameAncestors ==
  ASSUME NEW up \in Parents, NEW up2 \in Parents, NEW c \in Commands,
         \A n \in 0..(MaxDepth - 1) : Ancestor(up2, c)[n] = Ancestor(up, c)[n]
  PROVE  FullName(up2, c) = FullName(up, c)
<1> DEFINE w == Ancestor(up, c)  v == Ancestor(up2, c)
<1>1. PICK d \in 1..MaxDepth :
        /\ FullName(up, c) = [i \in 1..d |-> w[d - i]]
        /\ \A k \in 0..(d - 1) : w[k] \notin {Root, None}
        /\ d = MaxDepth \/ w[d] \in {Root, None}
  BY FullNameParts
<1>2. PICK e \in 1..MaxDepth :
        /\ FullName(up2, c) = [i \in 1..e |-> v[e - i]]
        /\ \A k \in 0..(e - 1) : v[k] \notin {Root, None}
        /\ e = MaxDepth \/ v[e] \in {Root, None}
  BY FullNameParts
<1>3. \A n \in 0..(MaxDepth - 1) : v[n] = w[n]
  OBVIOUS
<1> HIDE DEF w, v
<1>4. MaxDepth \in Nat /\ d \in 1..MaxDepth /\ e \in 1..MaxDepth
  OBVIOUS
<1>5. ~(d < e)
  <2> SUFFICES ASSUME d < e PROVE FALSE
    OBVIOUS
  <2>1. d \in 0..(e - 1) /\ d \in 0..(MaxDepth - 1) /\ d # MaxDepth
    BY <1>4
  <2> QED
    BY <1>1, <1>2, <1>3, <2>1
<1>6. ~(e < d)
  <2> SUFFICES ASSUME e < d PROVE FALSE
    OBVIOUS
  <2>1. e \in 0..(d - 1) /\ e \in 0..(MaxDepth - 1) /\ e # MaxDepth
    BY <1>4
  <2> QED
    BY <1>1, <1>2, <1>3, <2>1
<1>7. d = e /\ \A i \in 1..d : d - i \in 0..(MaxDepth - 1)
  BY <1>4, <1>5, <1>6
<1>8. \A i \in 1..d : v[d - i] = w[d - i]
  BY <1>3, <1>7
<1> QED
  BY <1>1, <1>2, <1>7, <1>8

LEMMA NamesKeptStep ==
  ASSUME Inv, NamesKept, [Next]_vars PROVE NamesKept'
<1>1. CASE TreeStands
  BY <1>1 DEF TreeStands, tree, NamesKept, Hangs
<1>2. ASSUME NEW c \in Commands, NEW p \in Nodes, Registers(c, p) PROVE NamesKept'
  <2>1. \A x : Hangs(x)' <=> Hangs(x) \/ (x = c /\ Attaches(c, p))
    BY <1>2, RegisterHangs
  <2>2. parent \in Parents /\ parent' \in Parents /\ ~Hangs(c) /\ full \in [Commands -> Seq(Commands \cup {AppRoot})]
    BY <1>2, ParentType, ParentsStep DEF Inv, TypeOK, Registers, Placeable
  <2>3. ASSUME NEW d \in Commands, Hangs(d)' PROVE full'[d] = FullName(parent', d)
    <3>1. CASE d = c
      BY <2>1, <2>2, <2>3, <3>1 DEF Attaches
    <3>2. CASE d # c
      <4>1. Hangs(d)
        BY <2>1, <2>3, <3>2
      <4>2. \A n \in 0..(MaxDepth - 1) : Ancestor(parent', d)[n] = Ancestor(parent, d)[n]
        BY <1>2, <3>2, <4>1, WalkKept
      <4>3. FullName(parent', d) = FullName(parent, d)
        BY <2>2, <4>2, SameAncestors
      <4>4. full'[d] = full[d]
        BY <1>2, <2>2, <3>2 DEF Registers, Attaches, Refuses
      <4> QED
        BY <4>1, <4>3, <4>4 DEF NamesKept
    <3> QED
      BY <3>1, <3>2
  <2> QED
    BY <2>3 DEF NamesKept
<1> QED
  BY <1>1, <1>2, NextRegisters

\* No command is declared below itself.
Acyclic ==
  \E rank \in [Commands -> Nat] :
    \A c \in Commands : Declared[c] \in Commands => rank[Declared[c]] < rank[c]

\* Nor does it come to stand below itself when the sentinel gives way to the root.
LEMMA TreeAcyclic ==
  ASSUME Acyclic, Inv
  PROVE  \E rank \in [Commands -> Nat] :
           \A c \in Commands : parent[c] \in Commands => rank[parent[c]] < rank[c]
<1>1. PICK r \in [Commands -> Nat] :
        \A c \in Commands : Declared[c] \in Commands => r[Declared[c]] < r[c]
  BY DEF Acyclic
<1> DEFINE q == [c \in Commands |-> IF c = appRoot THEN 0 ELSE r[c] + 1]
<1>2. q \in [Commands -> Nat]
  BY <1>1
<1>3. ASSUME NEW c \in Commands, parent[c] \in Commands PROVE q[parent[c]] < q[c]
  <2>1. c # appRoot
    BY <1>3, SetsFacts DEF Inv, RootInv
  <2>2. q[c] = r[c] + 1 /\ r[c] \in Nat
    BY <1>1, <2>1
  <2>3. CASE parent[c] = Declared[c]
    BY <1>1, <1>3, <2>2, <2>3
  <2>4. CASE parent[c] = appRoot
    BY <1>3, <2>2, <2>4
  <2>5. parent[c] = Declared[c] \/ parent[c] = appRoot
    BY <1>3, SetsFacts DEF Inv, ParentInv
  <2> QED
    BY <2>3, <2>4, <2>5
<1> QED
  BY <1>2, <1>3

\* So a walk that stays among the commands never meets one twice, and is no longer than
\* there are commands.
LEMMA WalkIsShort ==
  ASSUME NEW up \in Parents, NEW rank \in [Commands -> Nat],
         \A x \in Commands : up[x] \in Commands => rank[up[x]] < rank[x],
         NEW m \in Nat, NEW w,
         \A n \in 0..m : w[n] \in Commands,
         \A n \in 1..m : w[n] = Up(up, w[n - 1])
  PROVE  m < Cardinality(Commands)
<1>1. ASSUME NEW i \in 0..m, NEW j \in 0..m, i < j PROVE rank[w[j]] < rank[w[i]]
  <2> DEFINE T == {n \in Nat : n \in (i + 1)..m /\ ~(rank[w[n]] < rank[w[i]])}
  <2> SUFFICES ASSUME T # {} PROVE FALSE
    <3>1. j \in (i + 1)..m /\ j \in Nat
      BY <1>1
    <3> QED
      BY <3>1
  <2>1. PICK n \in T : \A k \in T : n <= k
    BY LeastElement
  <2>2. n \in 1..m /\ n - 1 \in 0..m /\ n - 1 \in Nat /\ n \in 0..m
    BY <1>1, <2>1
  <2>3. w[n] = up[w[n - 1]] /\ w[n - 1] \in Commands /\ w[n] \in Commands /\ w[i] \in Commands
    BY <2>2 DEF Up
  <2>4. /\ rank[w[n]] < rank[w[n - 1]] /\ rank[w[n]] \in Nat /\ rank[w[n - 1]] \in Nat
        /\ rank[w[i]] \in Nat
    BY <2>3
  <2>5. CASE n = i + 1
    BY <2>1, <2>4, <2>5
  <2>6. CASE n # i + 1
    <3>1. n - 1 \in (i + 1)..m
      BY <2>1, <2>2, <2>6
    <3>2. n - 1 \notin T
      BY <2>1, <2>2
    <3>3. rank[w[n - 1]] < rank[w[i]]
      BY <2>2, <3>1, <3>2
    <3>4. ~(rank[w[n]] < rank[w[i]])
      BY <2>1
    <3> QED
      BY <2>4, <3>3, <3>4
  <2> QED
    BY <2>5, <2>6
<1> DEFINE s == [i \in 1..m |-> w[i]]
<1>2. s \in Seq(Commands) /\ Len(s) = m /\ \A i \in 1..m : s[i] = w[i]
  OBVIOUS
<1> HIDE DEF s
<1>3. \A i, j \in 1..Len(s) : s[i] = s[j] => i = j
  <2> SUFFICES ASSUME NEW i \in 1..m, NEW j \in 1..m, s[i] = s[j], i < j PROVE FALSE
    BY <1>2
  <2>1. i \in 0..m /\ j \in 0..m
    OBVIOUS
  <2>2. rank[w[j]] < rank[w[i]] /\ w[i] \in Commands
    BY <1>1, <2>1
  <2>3. rank[w[i]] \in Nat
    BY <2>2
  <2> QED
    BY <1>2, <2>2, <2>3
<1>4. w[0] \in Commands /\ 0 \in 0..m
  OBVIOUS
<1>5. \A i \in 1..Len(s) : s[i] \in Commands /\ s[i] # w[0]
  <2> SUFFICES ASSUME NEW i \in 1..m PROVE s[i] \in Commands /\ s[i] # w[0]
    BY <1>2
  <2>1. i \in 0..m /\ 0 < i
    OBVIOUS
  <2>2. rank[w[i]] < rank[w[0]] /\ rank[w[0]] \in Nat /\ w[i] \in Commands
    BY <1>1, <1>4, <2>1
  <2> QED
    BY <1>2, <2>2
<1>6. IsFiniteSet(Commands)
  OBVIOUS
<1> QED
  BY <1>2, <1>3, <1>4, <1>5, <1>6, NoRoom

\* The first k structs of a walk, the last first.
Part(w, k) == [i \in 1..k |-> w[k - i]]

LEMMA PartGrows ==
  ASSUME NEW w, NEW k \in Nat \ {0}, \A n \in 0..(k - 1) : w[n] \in Commands
  PROVE  /\ Part(w, k) \in Seq(Commands) /\ Len(Part(w, k)) = k /\ Part(w, k)[1] = w[k - 1]
         /\ w[k] \in Commands => <<w[k]>> \o Part(w, k) = Part(w, k + 1)
<1> DEFINE s == Part(w, k)
<1>1. s \in Seq(Commands) /\ Len(s) = k /\ \A i \in 1..k : s[i] = w[k - i]
  <2>1. \A i \in 1..k : k - i \in 0..(k - 1)
    OBVIOUS
  <2> QED
    BY <2>1 DEF Part
<1>2. ASSUME w[k] \in Commands PROVE <<w[k]>> \o s = Part(w, k + 1)
  <2> DEFINE u == <<w[k]>> \o s  v == Part(w, k + 1)
  <2>1. <<w[k]>> \in Seq(Commands) /\ Len(<<w[k]>>) = 1 /\ <<w[k]>>[1] = w[k]
    BY <1>2
  <2> HIDE DEF s
  <2>2. u \in Seq(Commands) /\ Len(u) = k + 1 /\ u[1] = w[k] /\ \A i \in 2..(k + 1) : u[i] = s[i - 1]
    BY <1>1, <2>1
  <2>3. v = [i \in 1..(k + 1) |-> w[k + 1 - i]]
    BY DEF Part
  <2> HIDE DEF u, v
  <2>4. u = [i \in 1..(k + 1) |-> u[i]]
    BY <2>2
  <2>5. ASSUME NEW i \in 1..(k + 1) PROVE u[i] = w[k + 1 - i]
    <3>1. CASE i = 1
      BY <2>2, <3>1
    <3>2. CASE i # 1
      <4>1. i \in 2..(k + 1) /\ i - 1 \in 1..k /\ k - (i - 1) = k + 1 - i
        BY <3>2
      <4> QED
        BY <1>1, <2>2, <4>1
    <3> QED
      BY <3>1, <3>2
  <2>6. u = v
    BY <2>3, <2>4, <2>5
  <2> QED
    BY <2>6 DEF u, v
<1> QED
  BY <1>1, <1>2

Height == Cardinality(Commands)

\* One step of Path: the parent is put in front.
PathStep(s) == LET p == parent[s[1]] IN IF p \in Commands THEN <<p>> \o s ELSE s

IsPathWalk(c, v) ==
  v = [n \in 0..Cardinality(Commands) |->
         IF n = 0 THEN <<c>>
         ELSE LET p == parent[v[n - 1][1]] IN
              IF p \in Commands THEN <<p>> \o v[n - 1] ELSE v[n - 1]]

LEMMA PathIsWalk ==
  ASSUME NEW c, \E v : IsPathWalk(c, v)
  PROVE  \E v : IsPathWalk(c, v) /\ Path(c) = v[Height]
<1> DEFINE v == CHOOSE v : v = [n \in 0..Cardinality(Commands) |->
         IF n = 0 THEN <<c>>
         ELSE LET p == parent[v[n - 1][1]] IN
              IF p \in Commands THEN <<p>> \o v[n - 1] ELSE v[n - 1]]
<1>1. IsPathWalk(c, v)
  BY Zenon DEF IsPathWalk
<1>2. Path(c) = v[Height]
  BY Zenon DEF Path, Height
<1> QED
  BY <1>1, <1>2, Zenon

\* w is the walk from c, and leaves the commands at k.
Leaves(up, c, w, k) ==
  /\ w[0] = c /\ \A n \in 1..Height : w[n] = Up(up, w[n - 1])
  /\ \A n \in 0..(k - 1) : w[n] \in Commands
  /\ w[k] \notin Commands

LEMMA WalkLeaves ==
  ASSUME NEW up \in Parents, NEW rank \in [Commands -> Nat],
         \A x \in Commands : up[x] \in Commands => rank[up[x]] < rank[x],
         NEW c \in Commands
  PROVE  \E w : \E k \in 1..Height : Leaves(up, c, w, k)
<1>1. Height \in Nat
  BY FS_CardinalityType DEF Height
<1>2. PICK w : IsWalk(up, c, w, Height)
  BY <1>1, WalkExists
<1>3. w[0] = c /\ \A n \in 1..Height : w[n] = Up(up, w[n - 1])
  BY <1>1, <1>2 DEF IsWalk, Up
<1> DEFINE T == {n \in Nat : n \in 0..Height /\ w[n] \notin Commands}
<1>4. T # {}
  <2>1. ASSUME T = {} PROVE FALSE
    <3>1. \A n \in 0..Height : w[n] \in Commands
      BY <1>1, <2>1
    <3>2. Height < Cardinality(Commands)
      BY <1>1, <1>3, <3>1, WalkIsShort
    <3> QED
      BY <1>1, <3>2 DEF Height
  <2> QED
    BY <2>1
<1>5. PICK k \in T : \A n \in T : k <= n
  BY <1>4, LeastElement
<1>6. k # 0 /\ k \in 1..Height
  BY <1>1, <1>3, <1>5
<1>7. \A n \in 0..(k - 1) : w[n] \in Commands
  <2> SUFFICES ASSUME NEW n \in 0..(k - 1) PROVE w[n] \in Commands
    OBVIOUS
  <2>1. n \in 0..Height /\ n \in Nat /\ n < k
    BY <1>1, <1>6
  <2> QED
    BY <1>5, <2>1
<1> QED
  BY <1>3, <1>5, <1>6, <1>7 DEF Leaves

\* The path of c is that walk.
LEMMA PathShape ==
  ASSUME Inv, NEW c \in Commands, NEW w, NEW k \in 1..Height,
         w[0] = c, \A n \in 1..Height : w[n] = Up(parent, w[n - 1]),
         \A n \in 0..(k - 1) : w[n] \in Commands, w[k] \notin Commands
  PROVE  Path(c) = Part(w, k)
<1> DEFINE K(n) == IF n + 1 <= k THEN n + 1 ELSE k
           Q == [n \in 0..Height |-> Part(w, K(n))]
<1>1. Height \in Nat /\ k \in Nat /\ k >= 1 /\ k <= Height
  BY FS_CardinalityType DEF Height
<1>2. K(0) = 1 /\ K(Height) = k /\ \A n \in 0..Height : K(n) \in 1..k
  BY <1>1
<1>3. Part(w, 1) = <<c>>
  <2>1. Part(w, 1) = [i \in 1..1 |-> w[1 - i]]
    BY DEF Part
  <2>2. Part(w, 1) = [i \in 1..1 |-> c]
    BY <2>1
  <2> QED
    BY <2>2
<1>4. ASSUME NEW n \in 1..Height PROVE Part(w, K(n)) = PathStep(Part(w, K(n - 1)))
  <2> DEFINE j == K(n - 1)
  <2>1. j \in 1..k /\ j \in Nat \ {0} /\ j \in 1..Height /\ j - 1 \in 0..(k - 1)
    BY <1>1
  <2>2. (j < k /\ K(n) = j + 1) \/ (j = k /\ K(n) = j)
    BY <1>1
  <2> HIDE DEF j
  <2>3. \A i \in 0..(j - 1) : w[i] \in Commands
    BY <1>1, <2>1
  <2>4. /\ Part(w, j)[1] = w[j - 1]
        /\ w[j] \in Commands => <<w[j]>> \o Part(w, j) = Part(w, j + 1)
    BY <2>1, <2>3, PartGrows
  <2>5. parent[w[j - 1]] = w[j]
    BY <1>1, <2>1 DEF Up
  <2>6. CASE j < k /\ K(n) = j + 1
    <3>1. w[j] \in Commands
      BY <1>1, <2>1, <2>6
    <3> HIDE DEF K
    <3>2. PathStep(Part(w, j)) = Part(w, j + 1)
      BY <2>4, <2>5, <3>1 DEF PathStep
    <3> QED
      BY <2>6, <3>2 DEF j
  <2>7. CASE j = k /\ K(n) = j
    <3> HIDE DEF K
    <3>1. PathStep(Part(w, j)) = Part(w, j)
      BY <2>4, <2>5, <2>7 DEF PathStep
    <3> QED
      BY <2>7, <3>1 DEF j
  <2> QED
    BY <2>2, <2>6, <2>7
<1> HIDE DEF K
<1>5. Q[0] = <<c>> /\ Q[Height] = Part(w, k) /\ \A n \in 1..Height : Q[n] = PathStep(Q[n - 1])
  <2>1. 0 \in 0..Height /\ Height \in 0..Height
    BY <1>1
  <2>2. \A n \in 1..Height : n \in 0..Height /\ n - 1 \in 0..Height
    BY <1>1
  <2> QED
    BY <1>2, <1>3, <1>4, <2>1, <2>2
<1>6. Q = [n \in 0..Height |-> Q[n]]
  OBVIOUS
<1> HIDE DEF Q
<1>7. IsPathWalk(c, Q)
  <2>1. \A n \in 0..Height : Q[n] = IF n = 0 THEN <<c>> ELSE PathStep(Q[n - 1])
    BY <1>1, <1>5
  <2>2. Q = [n \in 0..Height |-> IF n = 0 THEN <<c>> ELSE PathStep(Q[n - 1])]
    BY <1>6, <2>1
  <2> QED
    BY <2>2, Zenon DEF IsPathWalk, PathStep, Height
<1>8. PICK v : IsPathWalk(c, v) /\ Path(c) = v[Height]
  BY <1>7, PathIsWalk
<1>9. v = [n \in 0..Height |-> IF n = 0 THEN <<c>> ELSE PathStep(v[n - 1])]
  BY <1>8, Zenon DEF IsPathWalk, PathStep, Height
<1>10. v[0] = <<c>> /\ \A n \in 1..Height : v[n] = PathStep(v[n - 1])
  <2>1. 0 \in 0..Height /\ \A n \in 1..Height : n \in 0..Height /\ n # 0
    BY <1>1
  <2> HIDE DEF PathStep
  <2> QED
    BY <1>9, <2>1
<1>11. v[Height] = Q[Height]
  <2> DEFINE T == {n \in Nat : n \in 0..Height /\ v[n] # Q[n]}
  <2>1. ASSUME T # {} PROVE FALSE
    <3>1. PICK n \in T : \A j \in T : n <= j
      BY <2>1, LeastElement
    <3>2. n # 0
      BY <1>5, <1>10, <3>1
    <3>3. n \in 1..Height /\ n - 1 \in 0..Height /\ n - 1 \in Nat /\ n - 1 \notin T
      BY <1>1, <3>1, <3>2
    <3>4. v[n - 1] = Q[n - 1]
      BY <3>3
    <3> HIDE DEF PathStep
    <3> QED
      BY <1>5, <1>10, <3>1, <3>3, <3>4
  <2> QED
    BY <1>1, <2>1
<1> QED
  BY <1>5, <1>8, <1>11

\* A full name is the path, or its last MaxDepth parts.
LEMMA NameIsPath ==
  ASSUME Inv, Acyclic, NEW c \in Commands, Safe(parent, c)
  PROVE  LET path == Path(c)
             len  == IF Len(path) < MaxDepth THEN Len(path) ELSE MaxDepth
         IN  FullName(parent, c) = SubSeq(path, Len(path) - len + 1, Len(path))
<1>1. parent \in Parents /\ MaxDepth \in Nat /\ MaxDepth >= 1
  BY ParentType DEF Inv
<1>2. PICK rank \in [Commands -> Nat] :
        \A x \in Commands : parent[x] \in Commands => rank[parent[x]] < rank[x]
  BY TreeAcyclic
<1>3. Height \in Nat
  BY FS_CardinalityType DEF Height
<1>4. \E w : \E k \in 1..Height : Leaves(parent, c, w, k)
  BY <1>1, <1>2, WalkLeaves
<1>5. PICK w, k : /\ k \in 1..Height
                  /\ w[0] = c /\ \A n \in 1..Height : w[n] = Up(parent, w[n - 1])
                  /\ \A n \in 0..(k - 1) : w[n] \in Commands
                  /\ w[k] \notin Commands
  BY <1>4 DEF Leaves
<1>6. Path(c) = Part(w, k)
  BY <1>5, PathShape
<1> DEFINE a == Ancestor(parent, c)
<1>7. a[0] = c /\ \A n \in 1..MaxDepth : a[n] = Up(parent, a[n - 1])
  BY <1>1, AncestorSteps
<1>8. PICK d \in 1..MaxDepth :
           /\ FullName(parent, c) = [i \in 1..d |-> a[d - i]]
           /\ \A j \in 0..(d - 1) : a[j] \notin {Root, None}
           /\ d = MaxDepth \/ a[d] \in {Root, None}
  BY <1>1, FullNameParts
<1>9. \A j \in 0..(d - 1) : a[j] \in Commands
  <2>1. /\ \A j \in 0..MaxDepth : a[j] \in Above
        /\ \A j \in 0..(MaxDepth - 1) : a[j] # AppRoot
    BY <1>1, AncestorSteps DEF Safe
  <2>2. \A j \in 0..(d - 1) : j \in 0..(MaxDepth - 1) /\ j \in 0..MaxDepth
    BY <1>1
  <2> HIDE DEF a
  <2> QED
    BY <1>8, <2>1, <2>2 DEF Above
<1> HIDE DEF a
<1>10. \A n \in 0..Height : n <= MaxDepth => w[n] = a[n]
  <2> DEFINE T == {n \in Nat : n \in 0..Height /\ n <= MaxDepth /\ w[n] # a[n]}
  <2>1. ASSUME T # {} PROVE FALSE
    <3>1. PICK n \in T : \A j \in T : n <= j
      BY <2>1, LeastElement
    <3>2. n # 0
      BY <1>5, <1>7, <3>1
    <3>3. /\ n \in 1..Height /\ n \in 1..MaxDepth /\ n - 1 \in 0..Height /\ n - 1 \in Nat
          /\ n - 1 \notin T /\ n - 1 <= MaxDepth
      BY <1>1, <1>3, <3>1, <3>2
    <3>4. w[n - 1] = a[n - 1]
      BY <3>3
    <3> QED
      BY <1>5, <1>7, <3>1, <3>3, <3>4
  <2> QED
    BY <1>3, <2>1
<1>11. d = IF k < MaxDepth THEN k ELSE MaxDepth
  <2>1. k \in 1..Height /\ k \in 0..Height /\ d \in 1..MaxDepth
    BY <1>3, <1>5
  <2>2. ~(k < d)
    <3>1. ASSUME k < d PROVE FALSE
      <4>1. k \in 0..(d - 1) /\ k <= MaxDepth
        BY <1>1, <2>1, <3>1
      <4> QED
        BY <1>5, <1>9, <1>10, <2>1, <4>1
    <3> QED
      BY <3>1
  <2>3. ~(d < k /\ d # MaxDepth)
    <3>1. ASSUME d < k, d # MaxDepth PROVE FALSE
      <4>1. d \in 0..(k - 1) /\ d \in 0..Height /\ d <= MaxDepth
        BY <1>1, <1>3, <2>1, <3>1
      <4>2. a[d] \in Commands
        BY <1>5, <1>10, <4>1
      <4> QED
        BY <1>8, <3>1, <4>2, SetsFacts
    <3> QED
      BY <3>1
  <2> QED
    BY <1>1, <1>3, <2>1, <2>2, <2>3
<1> DEFINE path == Path(c)
<1>12. path \in Seq(Commands) /\ Len(path) = k /\ \A i \in 1..k : path[i] = w[k - i]
  <2>0. k \in Nat \ {0} /\ \A n \in 0..(k - 1) : w[n] \in Commands
    BY <1>3, <1>5
  <2>1. Part(w, k) \in Seq(Commands) /\ Len(Part(w, k)) = k
    BY <2>0, PartGrows
  <2>2. \A i \in 1..k : Part(w, k)[i] = w[k - i]
    BY DEF Part
  <2> QED
    BY <1>6, <2>1, <2>2
<1> HIDE DEF path
<1> DEFINE s == SubSeq(path, k - d + 1, k)
<1>13. s = [i \in 1..d |-> a[d - i]]
  <2>1. k \in Nat /\ d \in Nat /\ 1 <= d /\ d <= k /\ d <= MaxDepth /\ k <= Height
    BY <1>1, <1>3, <1>5, <1>11
  <2>2. s = [i \in 1..d |-> path[k - d + i]]
    <3> DEFINE l == k - d + 1
    <3>1. l \in Int /\ k \in Int /\ l <= k /\ k - l + 1 = d
      BY <2>1
    <3>2. \A i \in l..k : path[i] \in Commands
      <4>1. \A i \in l..k : i \in 1..k
        BY <2>1
      <4> HIDE DEF l
      <4> QED
        BY <1>12, <4>1
    <3>3. s = SubSeq(path, l, k)
      OBVIOUS
    <3> HIDE DEF l, s
    <3>4. s \in Seq(Commands) /\ Len(s) = d /\ \A i \in 1..d : s[i] = path[l + i - 1]
      BY <3>1, <3>2, <3>3, SubSeqProperties
    <3>5. \A i \in 1..d : l + i - 1 = k - d + i
      BY <2>1 DEF l
    <3> QED
      BY <3>4, <3>5
  <2>3. \A i \in 1..d : s[i] = a[d - i]
    <3> SUFFICES ASSUME NEW i \in 1..d PROVE s[i] = a[d - i]
      OBVIOUS
    <3>1. /\ k - d + i \in 1..k /\ k - (k - d + i) = d - i
          /\ d - i \in 0..Height /\ d - i <= MaxDepth
      BY <1>3, <2>1
    <3> HIDE DEF s
    <3>2. s[i] = path[k - d + i]
      BY <2>2
    <3>3. path[k - d + i] = w[d - i]
      BY <1>12, <3>1
    <3>4. w[d - i] = a[d - i]
      BY <1>10, <3>1
    <3> QED
      BY <3>2, <3>3, <3>4
  <2> HIDE DEF s
  <2> QED
    BY <2>1, <2>2, <2>3
<1>14. FullName(parent, c) = SubSeq(path, k - d + 1, k)
  BY <1>8, <1>13
<1>15. d = IF Len(path) < MaxDepth THEN Len(path) ELSE MaxDepth
  BY <1>11, <1>12
<1> QED
  BY <1>12, <1>14, <1>15 DEF path

\* Where no command is declared below itself, the name a command got while the tree was still
\* being built is its path in the finished one, or the last LIGHT_COMMAND_MAX_DEPTH parts of it:
\* nothing cli_command_get_full_name() walked over moves afterwards.
THEOREM NamesArePaths == ASSUME Acyclic PROVE Spec => []FullNameIsPath
<1>1. Init => Inv /\ NamesKept
  <2> SUFFICES ASSUME Init PROVE Inv /\ NamesKept
    OBVIOUS
  <2>1. \A p \in Nodes : child[p] = <<>>
    BY DEF Init
  <2>2. \A x : ~Hangs(x)
    BY <2>1 DEF Hangs, Elements
  <2> QED
    BY <2>2, InitInv DEF NamesKept
<1>2. Inv /\ NamesKept /\ [Next]_vars => (Inv /\ NamesKept)'
  <2> SUFFICES ASSUME Inv, NamesKept, [Next]_vars PROVE (Inv /\ NamesKept)'
    OBVIOUS
  <2>1. Inv'
    BY TypesStep, TreeInvStep, ParentInvStep, RootInvStep, QueueInvStep, StatusInvStep,
       FindInvStep, SafeInvStep DEF Inv
  <2> QED
    BY <2>1, NamesKeptStep
<1>3. Inv /\ NamesKept => FullNameIsPath
  <2> SUFFICES ASSUME Inv, NamesKept, ~FollowedSentinel, NEW c \in Commands, full[c] # <<>>
               PROVE  LET path == Path(c)
                          len  == IF Len(path) < MaxDepth THEN Len(path) ELSE MaxDepth
                      IN  full[c] = SubSeq(path, Len(path) - len + 1, Len(path))
    BY DEF FullNameIsPath
  <2>1. Hangs(c) /\ Safe(parent, c)
    BY DEF Inv, TreeInv, SafeInv
  <2>2. full[c] = FullName(parent, c)
    BY <2>1 DEF NamesKept
  <2> QED
    BY <2>1, <2>2, NameIsPath
<1> QED
  BY <1>1, <1>2, <1>3, PTL DEF Spec

=============================================================================
