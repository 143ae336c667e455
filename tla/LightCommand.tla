---------------------------- MODULE LightCommand ----------------------------
(***************************************************************************)
(* module/light_core/src/command.c: the command tree.  Command and option  *)
(* records are loaded in link order, which nothing controls; a command     *)
(* whose ancestry passes through LIGHT_COMMAND_APP_ROOT is parked until    *)
(* light_core__resolve_app_root() knows the application's root command.    *)
(* A full name is kept as the commands whose short names it joins; the     *)
(* byte limit of its buffer is left out.                                   *)
(***************************************************************************)
EXTENDS Integers, Sequences, FiniteSets

CONSTANTS Commands,     \* every struct light_command of the program
          AutoRoots,    \* those Light_Application_Root_Command() declares
          Created,      \* those light_command_create() makes at run time
          Options,      \* every struct light_command_option
          Declared,     \* Declared[c]: the parent c is declared or created with
          Owner,        \* Owner[o]: the command o is declared for
          Name,         \* Name[c]: short_name
          Root,         \* root_command, or NULL where a parent is given
          AppRoot,      \* LIGHT_COMMAND_APP_ROOT
          None,         \* no command
          MaxSub,       \* LIGHT_COMMAND_MAX_SUBCOMMANDS
          MaxOptions,   \* LIGHT_COMMAND_MAX_OPTIONS
          MaxDepth,     \* LIGHT_COMMAND_MAX_DEPTH
          MaxPending    \* LIGHT_COMMAND_MAX_PENDING

ASSUME CommandsAssumption ==
  /\ IsFiniteSet(Commands) /\ IsFiniteSet(Options)
  /\ AutoRoots \subseteq Commands /\ Created \subseteq Commands
  /\ AutoRoots \cap Created = {} /\ Commands \cap Options = {}
  /\ Root # AppRoot /\ Root # None /\ AppRoot # None
  /\ {Root, AppRoot, None} \cap Commands = {}
ASSUME DeclaredAssumption ==
  /\ Declared \in [Commands -> Commands \cup {Root, AppRoot}]
  /\ \A c \in AutoRoots : Declared[c] = Root
  /\ \A c \in Commands : Declared[c] \in Created => c \in Created   \* a static parent's address
  /\ Owner \in [Options -> Commands \cup {Root}] /\ DOMAIN Name = Commands
ASSUME LimitsAssumption ==
  /\ MaxSub \in Nat \ {0} /\ MaxOptions \in Nat \ {0}
  /\ MaxDepth \in Nat \ {0} /\ MaxPending \in Nat

VARIABLES
  linked,    \* the commands of this program: linked in, or created by it
  records,   \* static records not loaded yet
  phase,     \* "load", "drain" or "done"
  parent,    \* command->parent
  child,     \* command->child[]
  option,    \* command->option[]
  full,      \* command->full_name
  candidate, \* app_root_candidate
  appRoot,   \* light_core_app_root_command
  pending,   \* pending_app_root[]
  at,        \* the index of the loop over it
  progress,  \* whether this pass over it attached anything
  reported   \* commands and options a warning or an error named as left out

tree == <<parent, child, full>>
drain == <<pending, at, progress>>
vars == <<linked, records, phase, tree, option, candidate, appRoot, drain, reported>>

Elements(seq) == {seq[i] : i \in DOMAIN seq}
Nodes == Commands \cup {Root}

\* What _find_static_objects() finds: commands, declared roots and options.
StaticRecords == (linked \ Created) \cup {o \in Options : Owner[o] \in linked \cup {Root}}

Init ==
  /\ linked \in {cs \in SUBSET Commands : \A c \in cs : Declared[c] \in cs \cup {Root, AppRoot}}
  /\ records = StaticRecords
  /\ phase = "load"
  /\ parent = [c \in Commands |-> IF c \in Created THEN None ELSE Declared[c]]
  /\ child = [c \in Nodes |-> <<>>] /\ option = [c \in Nodes |-> <<>>]
  /\ full = [c \in Commands |-> <<>>]
  /\ candidate = None /\ appRoot = None
  /\ pending = <<>> /\ at = 1 /\ progress = FALSE
  /\ reported = {}

-----------------------------------------------------------------------------
(* The tree. *)

\* The n-th struct reached from c by following parent, the sentinel and NULL included.
Ancestor(up, c) ==
  LET walk[n \in 0..MaxDepth] ==
        IF n = 0 THEN c
        ELSE IF walk[n - 1] \in Commands THEN up[walk[n - 1]] ELSE None
  IN  walk

\* cli_command_get_full_name(): the walk stops at root_command or at its own depth limit.
FullName(up, c) ==
  LET walk  == Ancestor(up, c)
      depth == CHOOSE n \in 1..MaxDepth :
                 /\ \A k \in 0..(n - 1) : walk[k] \notin {Root, None}
                 /\ n = MaxDepth \/ walk[n] \in {Root, None}
  IN  [i \in 1..depth |-> walk[depth - i]]

\* A name was built through the sentinel: the walk has dereferenced address 1, and the program
\* has ended there.
FollowedSentinel == \E c \in Commands : AppRoot \in Elements(full[c])

\* Mutant: the name is computed before the parent is set.
RegisterNamesFirst(up, p, c) ==
  IF Len(child[p]) >= MaxSub
  THEN parent' = up /\ reported' = reported \cup {c} /\ UNCHANGED <<child, full>>
  ELSE /\ parent' = [up EXCEPT ![c] = p]
       /\ child' = [child EXCEPT ![p] = Append(@, c)]
       /\ full' = [full EXCEPT ![c] = FullName(up, c)]
       /\ UNCHANGED reported

\* Mutant: no limit on the number of children, as far as the count goes.
RegisterUnbounded(up, p, c) ==
  /\ parent' = [up EXCEPT ![c] = p]
  /\ child' = [child EXCEPT ![p] = Append(@, c)]
  /\ full' = [full EXCEPT ![c] = FullName(parent', c)]
  /\ UNCHANGED reported

\* light_command_register() of c under p, with the parents as its caller leaves them
Register(up, p, c) ==
  IF Len(child[p]) >= MaxSub
  THEN parent' = up /\ reported' = reported \cup {c} /\ UNCHANGED <<child, full>>
  ELSE /\ parent' = [up EXCEPT ![c] = p]
       /\ child' = [child EXCEPT ![p] = Append(@, c)]
       /\ full' = [full EXCEPT ![c] = FullName(parent', c)]
       /\ UNCHANGED reported

\* Mutant: any command under the sentinel is ready once the root is known.
ResolvedAnywhere(c) ==
  LET walk == Ancestor(parent, c) IN
  \A n \in 0..(MaxDepth - 1) :
    walk[n] \in Commands /\ parent[walk[n]] = AppRoot => appRoot # None

\* _ancestry_resolved(): only the command that holds the sentinel may resolve it.
Resolved(c) ==
  LET walk == Ancestor(parent, c) IN
  \A n \in 0..(MaxDepth - 1) :
    walk[n] \in Commands /\ parent[walk[n]] = AppRoot => n = 0 /\ appRoot # None

\* light_command_find()
Find(p, name) ==
  LET hits == {i \in DOMAIN child[p] : Name[child[p][i]] = name} IN
  IF hits = {} THEN None
  ELSE child[p][CHOOSE i \in hits : \A j \in hits : i <= j]

-----------------------------------------------------------------------------
(* Loading the static records, in any order. *)

\* light_core__autoload_command(), with _defer_command()
Autoload(c) ==
  /\ phase = "load" /\ c \in records \cap (Commands \ AutoRoots)
  /\ records' = records \ {c}
  /\ IF Resolved(c) THEN Register(parent, parent[c], c) /\ UNCHANGED pending
     ELSE /\ IF Len(pending) >= MaxPending
             THEN reported' = reported \cup {c} /\ UNCHANGED pending
             ELSE pending' = Append(pending, c) /\ UNCHANGED reported
          /\ UNCHANGED tree
  /\ UNCHANGED <<linked, phase, option, candidate, appRoot, at, progress>>

\* light_core__autoload_option(), light_command_register_option()
AutoloadOption(o) ==
  /\ phase = "load" /\ o \in records \cap Options
  /\ records' = records \ {o}
  /\ IF Len(option[Owner[o]]) >= MaxOptions
     THEN reported' = reported \cup {o} /\ UNCHANGED option
     ELSE option' = [option EXCEPT ![Owner[o]] = Append(@, o)] /\ UNCHANGED reported
  /\ UNCHANGED <<linked, phase, tree, candidate, appRoot, drain>>

\* light_core__autoload_app_root(): remembered, and the first one is kept.
AutoloadAppRoot(c) ==
  /\ phase = "load" /\ c \in records \cap AutoRoots
  /\ records' = records \ {c}
  /\ IF candidate = None THEN candidate' = c /\ UNCHANGED reported
     ELSE reported' = reported \cup {c} /\ UNCHANGED candidate
  /\ UNCHANGED <<linked, phase, tree, option, appRoot, drain>>

\* light_command_create() has returned c, hung or not.
Exists(c) == parent[c] # None \/ c \in reported

\* light_command_create(), by a handler of MODULE_LOAD or APP_LAUNCH or later still: it asks
\* nothing of the parent it is given, which may be waiting for the root or have been dropped.
Create(c) ==
  /\ phase # "drain" /\ records \in {StaticRecords, {}}
  /\ c \in linked \cap Created /\ ~Exists(c)
  /\ Declared[c] # AppRoot
  /\ Declared[c] \in Created => Exists(Declared[c])
  /\ Register(parent, Declared[c], c)
  /\ UNCHANGED <<linked, records, phase, option, candidate, appRoot, drain>>

-----------------------------------------------------------------------------
(* light_core__resolve_app_root() *)

\* Mutant: the application's own root is always registered.
ResolveBeside ==
  /\ phase = "done" \/ (phase = "load" /\ records = {})
  /\ phase' = "drain" /\ at' = 1 /\ progress' = FALSE
  /\ IF candidate = None THEN UNCHANGED <<tree, appRoot, reported>>
     ELSE appRoot' = candidate /\ Register(parent, Root, candidate)
  /\ UNCHANGED <<linked, records, option, candidate, pending>>

\* The declared root is registered, unless a root command of its name is there already.
Resolve ==
  /\ phase = "done" \/ (phase = "load" /\ records = {})
  /\ phase' = "drain" /\ at' = 1 /\ progress' = FALSE
  /\ IF candidate = None THEN UNCHANGED <<tree, appRoot, reported>>
     ELSE LET existing == Find(Root, Name[candidate]) IN
          IF existing # None THEN appRoot' = existing /\ UNCHANGED <<tree, reported>>
          ELSE appRoot' = candidate /\ Register(parent, Root, candidate)
  /\ UNCHANGED <<linked, records, option, candidate, pending>>

\* A command parented to the sentinel is given its real parent before it is registered.
Placed(c) == IF parent[c] = AppRoot THEN [parent EXCEPT ![c] = appRoot] ELSE parent

\* Mutant: the loop steps past the command swapped into the slot.
DrainPendingSteps ==
  /\ phase = "drain" /\ at <= Len(pending)
  /\ LET c == pending[at] IN
     IF ~Resolved(c) THEN at' = at + 1 /\ UNCHANGED <<tree, pending, progress, reported>>
     ELSE /\ Register(Placed(c), Placed(c)[c], c)
          /\ pending' = SubSeq([pending EXCEPT ![at] = pending[Len(pending)]], 1, Len(pending) - 1)
          /\ at' = at + 1 /\ UNCHANGED progress
  /\ UNCHANGED <<linked, records, phase, option, candidate, appRoot>>

\* _drain_pending_app_root(): the last command takes the place of the one attached.
DrainPending ==
  /\ phase = "drain" /\ at <= Len(pending)
  /\ LET c == pending[at] IN
     IF ~Resolved(c) THEN at' = at + 1 /\ UNCHANGED <<tree, pending, progress, reported>>
     ELSE /\ Register(Placed(c), Placed(c)[c], c)
          /\ pending' = SubSeq([pending EXCEPT ![at] = pending[Len(pending)]], 1, Len(pending) - 1)
          /\ progress' = TRUE /\ UNCHANGED at
  /\ UNCHANGED <<linked, records, phase, option, candidate, appRoot>>

\* Mutant: what is left is dropped without a word.
DrainedSilently ==
  /\ phase = "drain" /\ at > Len(pending)
  /\ IF progress THEN at' = 1 /\ progress' = FALSE /\ UNCHANGED <<phase, pending, reported>>
     ELSE /\ phase' = "done" /\ pending' = <<>> /\ at' = 1
          /\ UNCHANGED <<progress, reported>>
  /\ UNCHANGED <<linked, records, tree, option, candidate, appRoot>>

\* Mutant: passes go on while commands are waiting.
DrainedWaits ==
  /\ phase = "drain" /\ at > Len(pending)
  /\ IF pending # <<>> THEN at' = 1 /\ progress' = FALSE /\ UNCHANGED <<phase, pending, reported>>
     ELSE /\ phase' = "done" /\ at' = 1
          /\ UNCHANGED <<pending, progress, reported>>
  /\ UNCHANGED <<linked, records, tree, option, candidate, appRoot>>

\* The end of a pass.  The last is the one that attached nothing; what is left is reported.
Drained ==
  /\ phase = "drain" /\ at > Len(pending)
  /\ IF progress THEN at' = 1 /\ progress' = FALSE /\ UNCHANGED <<phase, pending, reported>>
     ELSE /\ phase' = "done" /\ pending' = <<>> /\ at' = 1
          /\ reported' = reported \cup Elements(pending)
          /\ UNCHANGED progress
  /\ UNCHANGED <<linked, records, tree, option, candidate, appRoot>>

-----------------------------------------------------------------------------
Load ==
  \/ \E c \in Commands : Autoload(c)
  \/ \E o \in Options : AutoloadOption(o)
  \/ \E c \in AutoRoots : AutoloadAppRoot(c)

Step ==
  \/ Load
  \/ \E c \in Created : Create(c)
  \/ Resolve \/ DrainPending \/ Drained

Next ==
  \/ ~FollowedSentinel /\ Step
  \/ FollowedSentinel /\ UNCHANGED vars

Spec == Init /\ [][Next]_vars

\* The one thread goes on; nobody has to ask for the resolution twice, or create anything.
Fairness ==
  WF_vars(~FollowedSentinel /\ (Load \/ (phase = "load" /\ Resolve) \/ DrainPending \/ Drained))

FairSpec == Spec /\ Fairness

-----------------------------------------------------------------------------
(* Properties. *)

TypeOK ==
  /\ linked \subseteq Commands /\ records \subseteq linked \cup Options
  /\ phase \in {"load", "drain", "done"}
  /\ parent \in [Commands -> Commands \cup {Root, AppRoot, None}]
  /\ child \in [Nodes -> Seq(Commands)] /\ \A p \in Nodes : Len(child[p]) <= MaxSub
  /\ option \in [Nodes -> Seq(Options)] /\ \A p \in Nodes : Len(option[p]) <= MaxOptions
  /\ full \in [Commands -> Seq(Commands \cup {AppRoot})]
  /\ candidate \in AutoRoots \cup {None} /\ appRoot \in Commands \cup {None}
  /\ pending \in Seq(Commands) /\ Len(pending) <= MaxPending
  /\ at \in 1..(MaxPending + 1) /\ progress \in BOOLEAN
  /\ reported \subseteq linked \cup Options

\* A command's place in the tree, whatever the link order.
Place(c) == IF Declared[c] = AppRoot THEN appRoot ELSE Declared[c]

\* The application's declared root that gave way to a hand-written one of its name.
Yields(c) == c = candidate /\ appRoot # candidate

Made == (linked \ Created) \cup {c \in linked : parent[c] # None}

\* Once the root is resolved every command that no line of the log gave up hangs once, in
\* its own place and nowhere else.
AttachedOnce ==
  phase = "done" =>
    \A c \in Made \ reported :
      /\ \A p \in Nodes :
           Cardinality({i \in DOMAIN child[p] : child[p][i] = c}) =
             IF p = Place(c) /\ ~Yields(c) THEN 1 ELSE 0

\* _ancestry_resolved(): no static record's name is ever built by following the sentinel, not
\* even below one that was dropped because too many were waiting.  Only light_command_create(),
\* which does not ask, follows it, and only under a parent that hangs nowhere.
NeverThroughSentinel ==
  \A c \in Commands : AppRoot \in Elements(full[c]) =>
    c \in Created /\ Declared[c] \in Commands /\ full[Declared[c]] = <<>>

\* The commands from the application's level down to c, in the tree as it ends up.
Path(c) ==
  LET walk[n \in 0..Cardinality(Commands)] ==
        IF n = 0 THEN <<c>>
        ELSE LET p == parent[walk[n - 1][1]] IN
             IF p \in Commands THEN <<p>> \o walk[n - 1] ELSE walk[n - 1]
  IN  walk[Cardinality(Commands)]

\* A name computed while the tree was still being built is the path in the finished one,
\* or its last LIGHT_COMMAND_MAX_DEPTH parts.
FullNameIsPath ==
  phase = "done" /\ ~FollowedSentinel =>
    \A c \in Commands : full[c] # <<>> =>
      LET path == Path(c)
          len  == IF Len(path) < MaxDepth THEN Len(path) ELSE MaxDepth
      IN  full[c] = SubSeq(path, Len(path) - len + 1, Len(path))

\* The parser looks the program's name up among the children of root_command: it finds the
\* root the library commands hang on, not another of the same name.
AppRootFound ==
  phase = "done" /\ candidate # None /\ candidate \notin reported
    => Find(Root, Name[candidate]) = appRoot

\* The commands fit the limits.
BelowSentinel(c) ==
  \E n \in 0..(MaxDepth - 1) :
    LET walk == Ancestor(Declared, c) IN walk[n] \in Commands /\ Declared[walk[n]] = AppRoot

CouldHang(c, p) == Declared[c] = p \/ (Declared[c] = AppRoot /\ Declared[p] = Root)

Fits ==
  /\ Cardinality(linked \cap AutoRoots) = 1
  /\ Cardinality({c \in linked : BelowSentinel(c)}) <= MaxPending
  /\ Cardinality({c \in linked : Declared[c] = Root}) <= MaxSub
  /\ \A p \in linked : Cardinality({c \in linked : CouldHang(c, p)}) <= MaxSub

\* A program inside the limits loses no command to the link order.
NothingLostWithRoom == Fits => reported \cap Commands = {}

\* The passes over the pending list come to an end.
Settles == <>(phase = "done" \/ FollowedSentinel) /\ (phase = "drain" ~> phase = "done")

=============================================================================
