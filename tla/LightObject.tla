---------------------------- MODULE LightObject ----------------------------
(***************************************************************************)
(* The object model: reference counts, an object tree (one parent link per *)
(* object), callbacks and the release hook called with no lock held.       *)
(*                                                                         *)
(* light_core_arch_host_os/src/light_object.c keeps the counts with        *)
(* compare-exchange loops that take no lock and the links under the        *)
(* registry's mutex.  The RP2 and STM32 ports keep both in sections of the *)
(* registry: a spinlock with interrupts off on RP2, interrupts off on the  *)
(* one core of an STM32.  Nothing but a section touches counts and links   *)
(* there, so a section is one step, but for the two stores of an attach.   *)
(*                                                                         *)
(* Callers follow the discipline every reference count needs: a thread     *)
(* names an object only while it holds a reference to it, or when the      *)
(* object's storage is static; it puts only references it holds; only the  *)
(* thread that made an object attaches it, and only while it is detached.  *)
(***************************************************************************)
EXTENDS Integers, FiniteSets

CONSTANTS Threads,
          Declared,    \* Light_Object_Static(): static storage, never initialised
          Singletons,  \* light_object_init_static()
          Allocated,   \* light_object_alloc() and light_object_init()
          Reinited,    \* Light_Object_Static() and then light_object_init() (streams)
          Maker,       \* Maker[o]: the thread that initialises and attaches o
          None,        \* the null pointer, and a mutex nobody holds
          MaxHeld,     \* bound: references to one object the threads hold between them
          Ports,       \* the ports explored, of "host", "rp2" and "stm32"
          Handlers     \* the threads that are interrupt handlers on an STM32

Objects == Declared \cup Singletons \cup Allocated \cup Reinited
StaticStorage == Declared \cup Singletons \cup Reinited

ASSUME MakerAssumption == Maker \in [Objects -> Threads]
ASSUME HeldAssumption  == MaxHeld \in Nat \ {0}
ASSUME PortsAssumption == Ports \subseteq {"host", "rp2", "stm32"} /\ Handlers \subseteq Threads
ASSUME NamesAssumption ==
  /\ IsFiniteSet(Threads) /\ IsFiniteSet(Objects)
  /\ None \notin Threads \cup Objects
  /\ Declared \cap (Singletons \cup Allocated \cup Reinited) = {}
  /\ Allocated \cap StaticStorage = {} /\ Singletons \cap Reinited = {}

VARIABLES
  port,      \* whose light_object.c is linked; never changes
  count,     \* count[o]: obj->ref_count
  static,    \* static[o]: obj->is_static
  parent,    \* parent[o]: obj->parent
  mutex,     \* the thread inside the registry's section, or None
  released,  \* released[o]: times o's release hook ran
  held,      \* held[t][o]: references thread t has and has not put
  pc,        \* where thread t stands in its call,
  obj,       \*   the object of the call,
  par,       \*   the parent it works on,
  old        \*   and the count its next exchange expects

treeVars == <<parent, mutex>>
callVars == <<obj, par, old>>
vars == <<port, count, static, treeVars, released, held, pc, callVars>>

\* light_object_init_reg() and what the static initialisers leave in the header.
Init ==
  /\ port \in Ports
  /\ count    = [o \in Objects |-> IF o \in Declared THEN 0 ELSE 1]
  /\ static   = [o \in Objects |-> o \in Declared \cup Singletons]
  /\ parent   = [o \in Objects |-> None]
  /\ mutex    = None
  /\ released = [o \in Objects |-> 0]
  /\ held     = [t \in Threads |-> [o \in Objects |->
                  IF o \notin Declared /\ Maker[o] = t THEN 1 ELSE 0]]
  /\ pc       = [t \in Threads |-> "idle"]
  /\ obj      = [t \in Threads |-> None]
  /\ par      = [t \in Threads |-> None]
  /\ old      = [t \in Threads |-> 0]

\* Storage that was not allocated stays readable with no reference.
CanName(t, o) == held[t][o] > 0 \/ o \in StaticStorage

\* The references threads have to o, one element for each.
HeldBy(o) == UNION {{t} \X (1..held[t][o]) : t \in Threads}

At(t, where) == pc' = [pc EXCEPT ![t] = where]

\* The call returns; its locals are gone.
Return(t) ==
  /\ At(t, "idle")
  /\ obj' = [obj EXCEPT ![t] = None]
  /\ par' = [par EXCEPT ![t] = None]
  /\ old' = [old EXCEPT ![t] = 0]

-----------------------------------------------------------------------------
(* light_object_get_reg() and light_object_put_reg(): on the host an atomic load and *)
(* then exchanges, elsewhere the load is part of the section.                        *)

Load(t, o) == old' = [old EXCEPT ![t] = IF port = "host" THEN count[o] ELSE 0]
SeesZero(t) == port = "host" /\ old[t] = 0

\* A failed exchange refreshes the expected value; it may fail for no reason, which
\* leaves things as they were.
Reload(t, o) ==
  /\ old[t] # 0 /\ count[o] # old[t]
  /\ Load(t, o)
  /\ UNCHANGED <<count, static, treeVars, released, held, pc, obj, par>>

\* atomic_compare_exchange_weak() that succeeds
Exchange(t, o, new) ==
  /\ old[t] # 0 /\ count[o] = old[t]
  /\ count' = [count EXCEPT ![o] = new]

Get(t, o) ==
  /\ pc[t] = "idle" /\ CanName(t, o)
  /\ Cardinality(HeldBy(o)) < MaxHeld
  /\ obj' = [obj EXCEPT ![t] = o]
  /\ Load(t, o)
  /\ At(t, "get")
  /\ UNCHANGED <<count, static, treeVars, released, held, par>>

GetRefused(t) ==
  /\ pc[t] = "get" /\ SeesZero(t)
  /\ Return(t)
  /\ UNCHANGED <<count, static, treeVars, released, held>>

GetDone(t) ==
  LET o == obj[t] IN
  /\ pc[t] = "get"
  /\ Exchange(t, o, old[t] + 1)
  /\ held' = [held EXCEPT ![t][o] = @ + 1]
  /\ Return(t)
  /\ UNCHANGED <<static, treeVars, released>>

\* The caller gives its reference up when it calls.
Put(t, o) ==
  /\ pc[t] = "idle" /\ held[t][o] > 0
  /\ held' = [held EXCEPT ![t][o] = @ - 1]
  /\ obj'  = [obj EXCEPT ![t] = o]
  /\ Load(t, o)
  /\ At(t, "put")
  /\ UNCHANGED <<count, static, treeVars, released, par>>

\* Mutant: a put of a dead object wraps its count below zero.
PutWraps(t) ==
  /\ pc[t] = "put" /\ SeesZero(t)
  /\ count' = [count EXCEPT ![obj[t]] = @ - 1]
  /\ Return(t)
  /\ UNCHANGED <<static, treeVars, released, held>>

PutRefused(t) ==
  /\ pc[t] = "put" /\ SeesZero(t)
  /\ Return(t)
  /\ UNCHANGED <<count, static, treeVars, released, held>>

\* Mutant: whoever finds the count at zero releases, not who wrote the zero.
PutSeesZero(t) ==
  LET o == obj[t] IN
  /\ pc[t] = "put"
  /\ Exchange(t, o, old[t] - 1)
  /\ IF old[t] = 0 /\ ~static[o]
     THEN At(t, "release") /\ UNCHANGED callVars ELSE Return(t)
  /\ UNCHANGED <<static, treeVars, released, held>>

\* Mutant: the loop stops on the first failure.
PutGivesUp(t) ==
  LET o == obj[t] IN
  /\ pc[t] = "put" /\ old[t] # 0
  /\ count' = [count EXCEPT ![o] = IF @ = old[t] THEN @ - 1 ELSE @]
  /\ IF old[t] = 1 /\ count[o] = 1 /\ ~static[o]
     THEN At(t, "release") /\ UNCHANGED callVars ELSE Return(t)
  /\ UNCHANGED <<static, treeVars, released, held>>

\* Mutant: the release test is one off.
PutReleasesEarly(t) ==
  LET o == obj[t] IN
  /\ pc[t] = "put"
  /\ Exchange(t, o, old[t] - 1)
  /\ IF old[t] <= 2 /\ ~static[o]
     THEN At(t, "release") /\ UNCHANGED callVars ELSE Return(t)
  /\ UNCHANGED <<static, treeVars, released, held>>

\* Only the caller whose exchange wrote the zero goes on to release.
PutDone(t) ==
  LET o == obj[t] IN
  /\ pc[t] = "put"
  /\ Exchange(t, o, old[t] - 1)
  /\ IF old[t] = 1 /\ ~static[o]
     THEN At(t, "release") /\ UNCHANGED callVars ELSE Return(t)
  /\ UNCHANGED <<static, treeVars, released, held>>

Release(t) ==
  /\ pc[t] = "release"
  /\ released' = [released EXCEPT ![obj[t]] = @ + 1]
  /\ Return(t)
  /\ UNCHANGED <<count, static, treeVars, held>>

Retry(t) ==
  \/ pc[t] \in {"get", "put"} /\ Reload(t, obj[t])
  \/ pc[t] = "attach" /\ Reload(t, par[t])

-----------------------------------------------------------------------------
(* The sections of the RP2 and STM32 ports. *)

Rp2Section == port = "rp2" /\ mutex = None
StmSection == port = "stm32" /\ mutex = None

\* _get_locked()
LockedGet(o) == count' = [count EXCEPT ![o] = IF @ = 0 THEN 0 ELSE @ + 1]

\* _put_locked(), true for the one call that took the count to zero
LockedPut(o) == count' = [count EXCEPT ![o] = IF @ = 0 THEN 0 ELSE @ - 1]
Died(o) == count[o] = 1

SectionGet(t) ==
  /\ pc[t] = "get"
  /\ LockedGet(obj[t])
  /\ held' = [held EXCEPT ![t][obj[t]] = IF count[obj[t]] = 0 THEN @ ELSE @ + 1]
  /\ Return(t)
  /\ UNCHANGED <<static, treeVars, released>>

Rp2Get(t) == Rp2Section /\ SectionGet(t)
StmGet(t) == StmSection /\ SectionGet(t)

SectionPut(t) ==
  /\ pc[t] = "put"
  /\ LockedPut(obj[t])
  /\ IF Died(obj[t]) /\ ~static[obj[t]]
     THEN At(t, "release") /\ UNCHANGED callVars ELSE Return(t)
  /\ UNCHANGED <<static, treeVars, released, held>>

Rp2Put(t) == Rp2Section /\ SectionPut(t)
StmPut(t) == StmSection /\ SectionPut(t)

-----------------------------------------------------------------------------
(* light_object_add_va_reg(): link and reference in one section. *)

Add(t, o, p) ==
  /\ pc[t] = "idle" /\ mutex = None
  /\ Maker[o] = t /\ CanName(t, o) /\ parent[o] = None
  /\ p # o /\ CanName(t, p)
  /\ mutex'  = t
  /\ parent' = [parent EXCEPT ![o] = p]
  /\ obj'    = [obj EXCEPT ![t] = o]
  /\ par'    = [par EXCEPT ![t] = p]
  /\ Load(t, p)
  /\ At(t, "attach")
  /\ UNCHANGED <<count, static, released, held>>

\* light_object_get() inside the section; a dead parent is linked and not referenced.
Attached(t) ==
  /\ pc[t] = "attach"
  /\ \/ Exchange(t, par[t], old[t] + 1) /\ UNCHANGED par
     \/ SeesZero(t) /\ par' = [par EXCEPT ![t] = None] /\ UNCHANGED count
  /\ mutex' = None
  /\ At(t, "added")
  /\ UNCHANGED <<static, parent, released, held, obj, old>>

\* The second half of the section of an attach.
SectionAttached(t) ==
  /\ pc[t] = "attach" /\ mutex = t
  /\ LockedGet(par[t])
  /\ par' = [par EXCEPT ![t] = IF count[@] = 0 THEN None ELSE @]
  /\ mutex' = None
  /\ At(t, "added")
  /\ UNCHANGED <<static, parent, released, held, obj, old>>

Rp2Attached(t) == port = "rp2" /\ SectionAttached(t)
StmAttached(t) == port = "stm32" /\ SectionAttached(t)

\* evt_child_add() and evt_add()
AddEvents(t) ==
  /\ pc[t] = "added"
  /\ Return(t)
  /\ UNCHANGED <<count, static, treeVars, released, held>>

-----------------------------------------------------------------------------
(* light_object_del_reg(): read and clear the link in one section. *)

\* Mutant: the link is read and not cleared.
DelKeepsLink(t, o) ==
  /\ pc[t] = "idle" /\ mutex = None /\ CanName(t, o)
  /\ parent[o] # None
  /\ UNCHANGED parent
  /\ obj' = [obj EXCEPT ![t] = o]
  /\ par' = [par EXCEPT ![t] = parent[o]]
  /\ At(t, "detached")
  /\ UNCHANGED <<count, static, mutex, released, held, old>>

Del(t, o) ==
  /\ pc[t] = "idle" /\ mutex = None /\ CanName(t, o)
  /\ parent[o] # None
  /\ parent' = [parent EXCEPT ![o] = None]
  /\ obj' = [obj EXCEPT ![t] = o]
  /\ par' = [par EXCEPT ![t] = parent[o]]
  /\ At(t, "detached")
  /\ UNCHANGED <<count, static, mutex, released, held, old>>

\* evt_child_remove(), and then the link's reference is put
DelEvent(t) ==
  /\ pc[t] = "detached"
  /\ obj' = [obj EXCEPT ![t] = par[t]]
  /\ Load(t, par[t])
  /\ At(t, "put")
  /\ UNCHANGED <<count, static, treeVars, released, held, par>>

\* A thread passes one of its references on to another.
Hand(t, u, o) ==
  /\ pc[t] = "idle" /\ u # t
  /\ held[t][o] > 0
  /\ held' = [held EXCEPT ![t][o] = @ - 1, ![u][o] = @ + 1]
  /\ UNCHANGED <<count, static, treeVars, released, pc, callVars>>

-----------------------------------------------------------------------------

Calls(t, o) ==
  \/ Get(t, o) \/ Put(t, o) \/ Del(t, o)
  \/ \E p \in Objects : Add(t, o, p)
  \/ \E u \in Threads : Hand(t, u, o)

Steps(t) ==
  \/ GetRefused(t) \/ GetDone(t) \/ PutRefused(t) \/ PutDone(t) \/ Release(t) \/ Retry(t)
  \/ Attached(t) \/ AddEvents(t) \/ DelEvent(t)
  \/ Rp2Get(t) \/ Rp2Put(t) \/ Rp2Attached(t)
  \/ StmGet(t) \/ StmPut(t) \/ StmAttached(t)

\* On an STM32 a handler interrupts the main program anywhere but in a section, and
\* runs its calls to their end before that goes on.
Runs(t) ==
  port = "stm32" =>
    IF t \in Handlers THEN mutex \in {None, t} ELSE \A u \in Handlers : pc[u] = "idle"

Goes(t) == Runs(t) /\ Steps(t) /\ UNCHANGED port

Next ==
  \E t \in Threads :
    \/ Goes(t)
    \/ Runs(t) /\ UNCHANGED port /\ \E o \in Objects : Calls(t, o)

\* A call that has begun goes on; nobody is made to begin one.  Strong fairness, as the
\* spinlock of an RP2 and the handlers of an STM32 let a thread through again and again
\* but promise no turn: neither is taken to keep it out for ever.
Spec     == Init /\ [][Next]_vars
FairSpec == Spec /\ \A t \in Threads : SF_vars(Goes(t))

-----------------------------------------------------------------------------
(* Properties. *)

TypeOK ==
  /\ port     \in Ports
  /\ count    \in [Objects -> Nat]
  /\ static   \in [Objects -> BOOLEAN]
  /\ parent   \in [Objects -> Objects \cup {None}]
  /\ mutex    \in Threads \cup {None}
  /\ released \in [Objects -> Nat]
  /\ held     \in [Threads -> [Objects -> Nat]]
  /\ pc       \in [Threads -> {"idle", "get", "put", "release", "attach", "added", "detached"}]
  /\ obj      \in [Threads -> Objects \cup {None}]
  /\ par      \in [Threads -> Objects \cup {None}]
  /\ old      \in [Threads -> Nat]

\* Who has a reference to o: threads, one token for each; links; and calls that have
\* taken one over and not yet dropped it.
Attaching   == {c \in Objects : \E t \in Threads : pc[t] = "attach" /\ obj[t] = c}
LinkedTo(o) == {c \in Objects : parent[c] = o} \ Attaching
PutBy(o)    == {t \in Threads : \/ pc[t] = "put" /\ obj[t] = o
                                \/ pc[t] = "detached" /\ par[t] = o}
References(o) == Cardinality(HeldBy(o)) + Cardinality(LinkedTo(o)) + Cardinality(PutBy(o))

\* The exact count the concurrent tests assert at rest, at every step: a live object's
\* ref_count is the number of references to it, and a dead object is held by no thread.
CountIsReferences ==
  \A o \in Objects : IF count[o] # 0 THEN count[o] = References(o) ELSE HeldBy(o) = {}

\* No thread touches an object whose release hook has begun: neither a retry loop, nor
\* the callbacks of add and del, nor the put that follows evt_child_remove().
Touched(t) ==
  CASE pc[t] \in {"get", "put"}                  -> {obj[t]}
    [] pc[t] \in {"attach", "added", "detached"} -> {obj[t], par[t]} \ {None}
    [] OTHER                                     -> {}

NoUseAfterRelease == \A t \in Threads : \A o \in Touched(t) : released[o] = 0

\* The release hook runs at most once for an object, and never while its count is positive.
ReleasedOnce == \A o \in Objects : released[o] <= IF count[o] = 0 THEN 1 ELSE 0

\* What the program did not allocate is never given to free(): light_object.h's promise
\* for file-scope objects.
StaticStorageKept == \A o \in StaticStorage : released[o] = 0

\* An allocated object that dies is released: the last put does not leave it behind.
DeadObjectsReleased ==
  \A o \in Allocated : count[o] = 0 ~> released[o] = 1

=============================================================================
