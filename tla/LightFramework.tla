--------------------------- MODULE LightFramework ---------------------------
(***************************************************************************)
(* module/light_core/src/framework.c on a single-core target: the module   *)
(* tree loaded dependencies first, the task tables, the one-shot and       *)
(* periodic schedules, and the shutdown.  There is one thread.  The        *)
(* message queue is drained by the first periodic task and nowhere else    *)
(* before shutdown, so a log call that finds it full waits for ever.       *)
(*                                                                         *)
(* What a module's event handler, a task or the framework logs depends on  *)
(* the build's FILTER_LOG_LEVEL: Message is a log call of whatever code    *)
(* runs, at any point, within the bound of its stretch of the run.         *)
(***************************************************************************)
EXTENDS Integers, Sequences, FiniteSets

CONSTANTS Modules,     \* the modules linked in
          App,         \* the application's own module
          Core,        \* light_core
          Deps,        \* Deps[m]: module_deps, in order
          Rank,        \* witness that no module depends on itself
          ModulesMax,  \* LF_STATIC_MODULES_MAX
          TasksMax,    \* LF_TASKS_MAX
          MaxStreams,  \* LIGHT_STREAM_MAX_STREAMS
          Depth,       \* LIGHT_STREAM_MQUEUE_DEPTH of the one stream logged to
          BootLog,     \* bounds: messages logged up to the first periodic pass,
          PassLog,     \*   from one pass's drain to the next,
          StopLog      \*   and from the end of the last pass on

ASSUME ModulesAssumption ==
  /\ IsFiniteSet(Modules) /\ Cardinality(Modules) <= ModulesMax
  /\ App \in Modules /\ Core \in Modules
  /\ Deps \in [Modules -> Seq(Modules)]
ASSUME AcyclicAssumption ==
  /\ Rank \in [Modules -> Nat]
  /\ \A m \in Modules : \A i \in DOMAIN Deps[m] : Rank[Deps[m][i]] < Rank[m]
ASSUME BoundsAssumption ==
  /\ ModulesMax \in Nat /\ TasksMax \in Nat \ {0}
  /\ MaxStreams \in Nat \ {0} /\ Depth \in Nat \ {0}
  /\ BootLog \in Nat /\ PassLog \in Nat /\ StopLog \in Nat

VARIABLES
  phase,     \* what light_framework_init() or light_framework_run() is at
  stack,     \* light_framework_load_module()'s frames: the module and its next dep
  loading,   \* mods_loading
  active,    \* mods_active
  loaded,    \* modules that got MODULE_LOAD and not MODULE_UNLOAD
  periodic,  \* app_periodic_tasks
  oneshot,   \* app_one_shot_tasks
  at,        \* the index of the loop that runs
  exit,      \* exit_status
  queued,    \* messages in the stream's queue
  logged     \* messages logged on the present stretch

loadVars == <<stack, loading, active, loaded>>
taskVars == <<periodic, oneshot>>
logVars  == <<queued, logged>>
vars == <<phase, loadVars, taskVars, at, exit, logVars>>

Elements(seq) == {seq[i] : i \in DOMAIN seq}

\* A task: who owns it, and which function.  "load" is one the owner registers in its
\* MODULE_LOAD handler, "later" one it registers from APP_LAUNCH or from a task.
Task(m, run) == [owner |-> m, run |-> run]
Service  == Task(Core, "service")
MainTask == Task(App, "main")

Init ==
  /\ phase = "init"
  /\ stack = <<>> /\ loading = <<>> /\ active = <<>> /\ loaded = {}
  /\ periodic = <<>> /\ oneshot = <<>>
  /\ at = 1 /\ exit = "shutdown"
  /\ queued = 0 /\ logged = 0

-----------------------------------------------------------------------------
(* The task tables. *)

\* Mutant: the newest task is put first.
RegisterFront(tasks, t) == IF Len(tasks) < TasksMax THEN <<t>> \o tasks ELSE tasks

\* light_module_register_periodic_task(), light_module_register_one_shot_task()
Register(tasks, t) == IF Len(tasks) < TasksMax THEN Append(tasks, t) ELSE tasks

\* light_module_unregister_periodic_task(): the tasks behind the first match move up
Unregister(tasks, t) ==
  IF t \notin Elements(tasks) THEN tasks
  ELSE LET i == CHOOSE j \in DOMAIN tasks : tasks[j] = t /\ \A k \in 1..(j - 1) : tasks[k] # t
       IN  SubSeq(tasks, 1, i - 1) \o SubSeq(tasks, i + 1, Len(tasks))

\* What a module's code may do to the tables when it is called.
MayRegister(m, run, tasks) ==
  /\ periodic' \in {tasks, Register(tasks, Task(m, run))}
  /\ oneshot'  \in {oneshot, Register(oneshot, Task(m, run))}

-----------------------------------------------------------------------------
(* light_framework_init() *)

\* light_stream_setup() registers the drain; then light_framework_load_application().
Setup ==
  /\ phase = "init"
  /\ periodic' = Register(periodic, Service)
  /\ loading' = <<App>>
  /\ stack' = <<[mod |-> App, next |-> 1]>>
  /\ phase' = "load"
  /\ UNCHANGED <<active, loaded, oneshot, at, exit, logVars>>

Top == stack[Len(stack)]
Pop == SubSeq(stack, 1, Len(stack) - 1)
Advanced == [stack EXCEPT ![Len(stack)].next = @ + 1]

\* Mutant: nothing is looked up.
LoadDepAlways ==
  LET d == Deps[Top.mod][Top.next] IN
  /\ phase = "load" /\ Top.next <= Len(Deps[Top.mod])
  /\ stack'   = Append(Advanced, [mod |-> d, next |-> 1])
  /\ loading' = Append(loading, d)
  /\ UNCHANGED <<phase, active, loaded, taskVars, at, exit, logVars>>

\* Mutant: the loop does not move past a dependency it knows.
LoadDepStays ==
  LET d == Deps[Top.mod][Top.next] IN
  /\ phase = "load" /\ Top.next <= Len(Deps[Top.mod])
  /\ IF d \in Elements(loading)
     THEN UNCHANGED <<stack, loading>>
     ELSE /\ stack'   = Append(Advanced, [mod |-> d, next |-> 1])
          /\ loading' = Append(loading, d)
  /\ UNCHANGED <<phase, active, loaded, taskVars, at, exit, logVars>>

\* One turn of the loop over module_deps: a module not seen yet is loaded at once.
LoadDep ==
  LET d == Deps[Top.mod][Top.next] IN
  /\ phase = "load" /\ Top.next <= Len(Deps[Top.mod])
  /\ IF d \in Elements(loading)
     THEN stack' = Advanced /\ UNCHANGED loading
     ELSE /\ stack'   = Append(Advanced, [mod |-> d, next |-> 1])
          /\ loading' = Append(loading, d)
  /\ UNCHANGED <<phase, active, loaded, taskVars, at, exit, logVars>>

\* Mutant: the last dependency is not waited for.
LoadModuleEarly ==
  LET m == Top.mod IN
  /\ phase = "load" /\ Top.next >= Len(Deps[m])
  /\ loaded' = loaded \cup {m}
  /\ active' = Append(active, m)
  /\ stack'  = Pop
  /\ MayRegister(m, "load", IF m = App THEN Register(periodic, MainTask) ELSE periodic)
  /\ phase'  = IF Len(stack) = 1 THEN "launch" ELSE "load"
  /\ UNCHANGED <<loading, at, exit, logVars>>

\* MODULE_LOAD, and the module is active when its handler returns.  _lf_app_event()
\* registers the application's main task before it calls the application's handler.
LoadModule ==
  LET m == Top.mod IN
  /\ phase = "load" /\ Top.next > Len(Deps[m])
  /\ loaded' = loaded \cup {m}
  /\ active' = Append(active, m)
  /\ stack'  = Pop
  /\ MayRegister(m, "load", IF m = App THEN Register(periodic, MainTask) ELSE periodic)
  /\ phase'  = IF Len(stack) = 1 THEN "launch" ELSE "load"
  /\ UNCHANGED <<loading, at, exit, logVars>>

-----------------------------------------------------------------------------
(* light_framework_run() *)

\* Go on with the loop, or with the first turn of the next one.
Turn(last, next) ==
  IF at < last THEN at' = at + 1 /\ UNCHANGED phase ELSE at' = 1 /\ phase' = next

\* APP_LAUNCH, module by module.
Launch ==
  /\ phase = "launch"
  /\ MayRegister(active[at], "later", periodic)
  /\ Turn(Len(active), "oneshot")
  /\ UNCHANGED <<loadVars, exit, logVars>>

Statuses == {"run", "shutdown", "error"}

\* The count is read anew each turn: a one-shot task may add another.
RunOneShot ==
  /\ phase = "oneshot" /\ at <= Len(oneshot)
  /\ \E status \in Statuses : exit' = IF status = "error" THEN "error" ELSE exit
  /\ MayRegister(oneshot[at].owner, "later", periodic)
  /\ at' = at + 1
  /\ UNCHANGED <<phase, loadVars, logVars>>

OneShotsDone ==
  /\ phase = "oneshot" /\ at > Len(oneshot)
  /\ phase' = "pass" /\ at' = 1
  /\ UNCHANGED <<loadVars, taskVars, exit, logVars>>

Fewer(n) == IF n = 0 THEN 0 ELSE n - 1

\* Mutant: the sweep passes over the output streams.
RunServiceSkips ==
  /\ phase = "pass" /\ at <= Len(periodic) /\ periodic[at] = Service
  /\ logged' = 0
  /\ at' = at + 1
  /\ UNCHANGED <<phase, loadVars, taskVars, exit, queued>>

\* worker__service_message_queues_task(): one message of the queue
RunService ==
  /\ phase = "pass" /\ at <= Len(periodic) /\ periodic[at] = Service
  /\ queued' = Fewer(queued) /\ logged' = 0
  /\ at' = at + 1
  /\ UNCHANGED <<phase, loadVars, taskVars, exit>>

\* Mutant: the run's result is the last task's.
RunTaskForgets ==
  /\ phase = "pass" /\ at <= Len(periodic) /\ periodic[at] # Service
  /\ MayRegister(periodic[at].owner, "later", periodic)
  /\ \E status \in Statuses :
       IF status = "run" THEN at' = at + 1 /\ UNCHANGED <<phase, exit, logged>>
       ELSE at' = 1 /\ phase' = "stop" /\ exit' = status /\ logged' = 0
  /\ UNCHANGED <<loadVars, queued>>

\* Any other task.  The pass is abandoned when one does not return RUN.
RunTask ==
  /\ phase = "pass" /\ at <= Len(periodic) /\ periodic[at] # Service
  /\ MayRegister(periodic[at].owner, "later", periodic)
  /\ \E status \in Statuses :
       IF status = "run" THEN at' = at + 1 /\ UNCHANGED <<phase, exit, logged>>
       ELSE /\ at' = 1 /\ phase' = "stop" /\ logged' = 0
            /\ exit' = IF status = "error" THEN "error" ELSE exit
  /\ UNCHANGED <<loadVars, queued>>

\* The sleep between two passes.
PassDone ==
  /\ phase = "pass" /\ at > Len(periodic)
  /\ at' = 1
  /\ UNCHANGED <<phase, loadVars, taskVars, exit, logVars>>

-----------------------------------------------------------------------------
(* light_framework_shutdown() *)

\* APP_SHUTDOWN, module by module.
Stop ==
  /\ phase = "stop"
  /\ Turn(Len(active), "unload")
  /\ UNCHANGED <<loadVars, taskVars, exit, logVars>>

\* Mutant: the list is walked forwards.
UnloadForwards ==
  LET m == active[at] IN
  /\ phase = "unload"
  /\ loaded' = loaded \ {m}
  /\ periodic' = IF m = App THEN Unregister(periodic, MainTask) ELSE periodic
  /\ Turn(Len(active), "drain")
  /\ UNCHANGED <<stack, loading, active, oneshot, exit, logVars>>

\* Mutant: while(i >= 0) on an unsigned index.
UnloadWraps ==
  LET m == active[Len(active) + 1 - at] IN
  /\ phase = "unload"
  /\ loaded' = loaded \ {m}
  /\ periodic' = IF m = App THEN Unregister(periodic, MainTask) ELSE periodic
  /\ at' = IF at < Len(active) THEN at + 1 ELSE 1
  /\ UNCHANGED <<phase, stack, loading, active, oneshot, exit, logVars>>

\* MODULE_UNLOAD, from the last module loaded to the first.
Unload ==
  LET m == active[Len(active) + 1 - at] IN
  /\ phase = "unload"
  /\ loaded' = loaded \ {m}
  /\ periodic' = IF m = App THEN Unregister(periodic, MainTask) ELSE periodic
  /\ Turn(Len(active), "drain")
  /\ UNCHANGED <<stack, loading, active, oneshot, exit, logVars>>

\* Mutant: the queue is serviced once, as by the task.
DrainOnce ==
  /\ phase = "drain"
  /\ phase' = "ended" /\ queued' = Fewer(queued)
  /\ UNCHANGED <<loadVars, taskVars, at, exit, logged>>

\* light_stream_shutdown(): one message a turn, as many turns as the queues can hold
Drain ==
  /\ phase = "drain"
  /\ IF queued = 0 \/ at > MaxStreams * Depth
     THEN phase' = "ended" /\ UNCHANGED <<at, queued>>
     ELSE at' = at + 1 /\ queued' = queued - 1 /\ UNCHANGED phase
  /\ UNCHANGED <<loadVars, taskVars, exit, logged>>

-----------------------------------------------------------------------------
(* Logging, and the step. *)

Booting  == phase \in {"load", "launch", "oneshot"}
Stopping == phase \in {"stop", "unload"}
Logs == CASE Booting -> logged < BootLog
          [] phase = "pass" -> logged < PassLog
          [] Stopping -> logged < StopLog
          [] OTHER -> FALSE

\* mqueue_claim_slot() waits for room that only this thread could make.
Message ==
  /\ Logs
  /\ logged' = logged + 1
  /\ IF queued < Depth THEN queued' = queued + 1 /\ UNCHANGED phase
     ELSE phase' = "hung" /\ UNCHANGED queued
  /\ UNCHANGED <<loadVars, taskVars, at, exit>>

Framework ==
  \/ Setup \/ LoadDep \/ LoadModule
  \/ Launch \/ RunOneShot \/ OneShotsDone \/ RunService \/ RunTask \/ PassDone
  \/ Stop \/ Unload \/ Drain

Over == phase \in {"ended", "hung"} /\ UNCHANGED vars

Next == Framework \/ Message \/ Over

Spec == Init /\ [][Next]_vars

\* The one thread goes on.
FairSpec == Spec /\ WF_vars(Framework)

-----------------------------------------------------------------------------
(* Properties. *)

Phases == {"init", "load", "launch", "oneshot", "pass", "stop", "unload", "drain",
           "ended", "hung"}
Runs   == {"service", "main", "load", "later"}
Tasks  == [owner : Modules, run : Runs]
Frames == [mod : Modules, next : Nat \ {0}]

\* The module lists never outgrow their arrays, which light_arraylist_append() does
\* not check, nor the task tables theirs.
TypeOK ==
  /\ phase \in Phases
  /\ stack \in Seq(Frames)
  /\ loading \in Seq(Modules) /\ Len(loading) <= ModulesMax
  /\ active \in Seq(Modules) /\ Len(active) <= ModulesMax
  /\ loaded \subseteq Modules
  /\ periodic \in Seq(Tasks) /\ Len(periodic) <= TasksMax
  /\ oneshot \in Seq(Tasks) /\ Len(oneshot) <= TasksMax
  /\ at \in Nat \ {0}
  /\ exit \in {"shutdown", "error"}
  /\ queued \in 0..Depth /\ logged \in Nat

\* light_framework_load_module() activates a module once, and after each module it
\* depends on, in whatever order the tree reaches them.
DependenciesFirst ==
  \A i \in DOMAIN active :
    /\ \A j \in 1..(i - 1) : active[j] # active[i]
    /\ \A d \in Elements(Deps[active[i]]) : \E j \in 1..(i - 1) : active[j] = d

\* From its MODULE_LOAD to its MODULE_UNLOAD a module can use what it depends on: the
\* unload order really is the reverse of the load order.
DependenciesLoaded == \A m \in loaded : Elements(Deps[m]) \subseteq loaded

\* Where a module stands in the load order; one whose handler runs is about to be last.
Position(m) ==
  IF m \in Elements(active) THEN CHOOSE i \in DOMAIN active : active[i] = m ELSE Len(active) + 1

\* Tasks registered from MODULE_LOAD are scheduled in load order, so a module's task runs
\* before those of the modules that depend on it: what cli_task() relies on to dispatch
\* the last line before the task that read it ends the run.
TasksFollowLoadOrder ==
  \A i, j \in DOMAIN periodic :
    i < j /\ periodic[i].run \in {"main", "load"} /\ periodic[j].run \in {"main", "load"}
      => Position(periodic[i].owner) <= Position(periodic[j].owner)

\* The queue never fills, and so no log call hangs the only thread: it holds what was
\* logged before the first pass, and after it the one message of a pass at most.
NeverHangs == phase # "hung"

\* light_stream.h: "What has to fit is not the whole boot log but the longest run BETWEEN
\* drains."
LongestRunFits ==
  (BootLog <= Depth /\ PassLog + StopLog <= Depth) => phase # "hung"

\* The lines of the shutdown itself, logged when nothing services the queue any more, are
\* written before light_framework_run() returns.
LastLinesWritten == phase = "ended" => queued = 0

\* A one-shot task's ERROR is the run's result, however the periodic tasks end later.
ErrorsReachTheCaller == [][exit = "error" => exit' = "error"]_vars

\* The recursion over the module tree ends, and the schedule begins.
RunBegins == <>(phase = "pass")

\* Once a task has asked for it, the shutdown runs to its end.
RunReturns == phase = "stop" ~> phase = "ended"

=============================================================================
