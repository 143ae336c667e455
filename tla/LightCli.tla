------------------------------- MODULE LightCli -------------------------------
(***************************************************************************)
(* module/light_cli: the command line a process is launched with, the      *)
(* queue of lines typed at a console, the parser they share, and           *)
(* cli_task(), which dispatches one command line per pass of the           *)
(* framework's scheduler (light_core/src/framework.c:209-214).             *)
(*                                                                         *)
(* A token is a word with its dashes taken off: [kind, text, value], the   *)
(* kind "word", "option" (-x or --name) or "equals" (--name=value).  How   *)
(* characters make words (quotes, comments, blanks) is left out, but not   *)
(* that a line may turn out blank or end inside a quote.                   *)
(***************************************************************************)
EXTENDS Naturals, Sequences, SequencesExt, FiniteSets

CONSTANTS
  Commands,      \* the command tree below Root
  Root,          \* root_command, which has no name
  Child,         \* Child[c]: c's subcommands, in the order registered
  Name,          \* Name[c]: its short_name, a word
  Option,        \* Option[c]: c's options, in order: [name, code, type]
  Handler,       \* Handler[c]: what its handler does, or None
  AppRoot,       \* light_command_app_root(), or None
  LaunchLines,   \* the argv a process may be given, argv[0] included
  BootCommands,  \* what LIGHT_BOOT_COMMAND may be, or None
  Inputs,        \* what a console session may hold: sequences of lines
  Batch,         \* the lines the handlers that queue lines queue
  MaxTokens,     \* LIGHT_CLI_MAX_TOKENS
  MaxArgs,       \* LIGHT_CLI_MAX_ARGS
  MaxOptions,    \* LIGHT_COMMAND_MAX_OPTIONS
  MaxRefDepth,   \* LIGHT_CLI_MAX_REF_DEPTH
  QueueDepth,    \* LIGHT_STREAM_MQUEUE_DEPTH
  One,           \* the value "1" of a switch
  None

Nodes == Commands \cup {Root}

ASSUME CliAssumption ==
  /\ Root \notin Commands /\ None \notin Nodes
  /\ \A c \in Nodes : Range(Child[c]) \subseteq Commands
  /\ \A c \in Nodes : Child[c] \in Seq(Range(Child[c])) /\ Option[c] \in Seq(Range(Option[c]))
  /\ \A c \in Nodes : None \notin Range(Option[c])
  /\ AppRoot \in Commands \cup {None}
  /\ Commands \cap {"success", "console", "batch", "error"} = {}
  /\ None \notin {"success", "console", "batch"}
  /\ \A lines \in Inputs \cup {Batch} : lines \in Seq(Range(lines))
  /\ {MaxTokens, MaxArgs, MaxOptions, MaxRefDepth, QueueDepth} \subseteq Nat \ {0}

\* A line is a sequence of tokens, each of one of the three kinds.
IsLine(ts) ==
  ts \in Seq(Range(ts)) /\ \A i \in DOMAIN ts : ts[i].kind \in {"word", "option", "equals"}

Queueable == UNION {{line.words : line \in Range(lines)} : lines \in Inputs \cup {Batch}}

ASSUME LinesAreTokens ==
  /\ \A ts \in LaunchLines \cup BootCommands \cup Queueable : IsLine(ts)
  /\ <<>> \notin LaunchLines

\* The bound on what is typed: option_count is not compared with the room in option[]
\* (command.c:213), so a line with more options than that is outside this model.
FewOptions(ts) == Cardinality({i \in DOMAIN ts : ts[i].kind # "word"}) <= MaxOptions

ASSUME OptionsFit == \A ts \in LaunchLines \cup BootCommands \cup Queueable : FewOptions(ts)

VARIABLES
  phase,       \* "boot", "run" or "ended"
  static,      \* static_invoke
  dispatched,  \* static_invoke_dispatched
  queue,       \* the lines queued
  queueRoot,   \* queue_root
  tasks,       \* the periodic tasks, in registration order
  turn,        \* the index of the next task of this pass
  call,        \* the dispatch in progress, or None
  input,       \* what the console session has still to read
  failed,      \* ghost: the launch command line did not parse
  last,        \* ghost: the command line parsed last, its parse root and the invocation
  outcome,     \* ghost: the target dispatched last and the status it came to
  accepted,    \* ghost: the lines light_cli_queue_line() took
  ran,         \* ghost: those of them cli_task() has handed to light_cli_run_line()
  batched      \* ghost: a handler has queued lines of its own

cli == <<static, dispatched, queue, queueRoot>>
scheduler == <<phase, tasks, turn>>
ghosts == <<failed, last, outcome, accepted, ran, batched>>
vars == <<scheduler, cli, call, input, ghosts>>

NoInvocation == [target |-> None, option |-> <<>>, arg |-> <<>>]
NoLine == [tokens |-> <<>>, from |-> None, invocation |-> NoInvocation]

------------------------------------------------------------------------------
(* The tree and the parser. *)

First(seq, Test(_)) ==
  LET found == {i \in DOMAIN seq : Test(seq[i])}
  IN IF found = {} THEN None ELSE seq[Min(found)]

\* light_command_find()
Find(c, word) == First(Child[c], LAMBDA k : Name[k] = word)

\* light_command_find_option(): a full name anywhere in the list beats a one-letter code.
FindOption(c, word) ==
  LET byName == First(Option[c], LAMBDA o : o.name = word)
  IN IF byName # None THEN byName ELSE First(Option[c], LAMBDA o : o.code = word)

\* Mutant: a word is looked up among the subcommands whatever came before it.
ParseWordAnywhere(p, token) ==
  LET next == Find(p.context, token.text) IN
    IF next # None THEN [p EXCEPT !.context = next, !.inv.target = next]
    ELSE [p EXCEPT !.binding = TRUE, !.inv.target = p.context,
                   !.inv.arg = Append(@, token.text)]

\* A bare word: a subcommand, the value an option waits for, or an argument.
ParseWord(p, token) ==
  LET next == IF p.binding THEN None ELSE Find(p.context, token.text)
      bound == [p EXCEPT !.binding = TRUE, !.inv.target = IF p.binding THEN @ ELSE p.context]
  IN IF next # None
     THEN [p EXCEPT !.context = next, !.inv.target = next]
     ELSE IF bound.waiting # 0
     THEN [bound EXCEPT !.inv.option[bound.waiting].value = token.text, !.waiting = 0]
     ELSE IF Len(bound.inv.arg) >= MaxArgs
     THEN [bound EXCEPT !.failed = TRUE]
     ELSE [bound EXCEPT !.inv.arg = Append(@, token.text)]

\* An option.  The slot counts before the name is known to exist.  The name before an '=' is
\* copied without a terminator, so what follows it in the buffer (stray) may belong to it.
ParseOption(p, token, stray) ==
  LET opt == FindOption(p.context,
               IF token.kind = "equals" /\ stray # None THEN stray ELSE token.text)
      slot == Len(p.inv.option) + 1
      bound == [p EXCEPT !.binding = TRUE,
                         !.inv.target = IF p.binding THEN @ ELSE p.context]
      set(value) == [bound EXCEPT !.inv.option = Append(@, [option |-> opt, value |-> value])]
  IN IF opt = None THEN [set(None) EXCEPT !.failed = TRUE]
     ELSE IF token.kind = "equals" THEN set(token.value)
     ELSE IF opt.type = "switch" THEN set(One)
     ELSE [set(token.text) EXCEPT !.waiting = slot]

ParseToken(p, token, stray) ==
  IF p.failed THEN p
  ELSE IF token.kind = "word" THEN ParseWord(p, token) ELSE ParseOption(p, token, stray)

\* An argv longer than the token array is cut.
Read(tokens) == SubSeq(tokens, 1, Min({Len(tokens), MaxTokens}))

\* light_cli_process_command_line(), token by token, from an invocation that is filled in as
\* it goes.
Parsed(from, ts, invocation, stray) ==
  LET after[n \in 0 .. Len(ts)] ==
        IF n = 0 THEN [context |-> from, inv |-> invocation, binding |-> FALSE, waiting |-> 0,
                       failed |-> FALSE]
        ELSE ParseToken(after[n - 1], ts[n], stray)
  IN after

Parse(from, tokens, invocation, stray) ==
  Parsed(from, Read(tokens), invocation, stray)[Len(Read(tokens))]

\* What the buffer may hold behind a name that was copied without its terminator: the NUL
\* it needs, or characters no option of this program goes on with.
Strays == {None, "garbage"}

\* light_cli_invocation_get_option_value()
OptionValue(inv, name) ==
  LET opt == FindOption(inv.target, name)
      given == {i \in DOMAIN inv.option : inv.option[i].option = opt}
  IN IF opt = None \/ given = {} THEN None ELSE inv.option[Min(given)].value

Word(w) == [kind |-> "word", text |-> w, value |-> None]

------------------------------------------------------------------------------
\* cli_task() is registered at light_cli's MODULE_LOAD, ahead of what an application that
\* depends on light_cli registers at its own.  (FeederFirst is the mutant.)
FeederFirst == {<<"feeder", "cli">>}
Registered == {<<"cli">>, <<"cli", "feeder">>}

Init ==
  /\ phase = "boot" /\ turn = 1
  /\ tasks \in Registered
  /\ static = NoInvocation /\ dispatched = FALSE
  /\ queue = <<>> /\ queueRoot = None
  /\ call = None
  /\ input \in Inputs
  /\ failed = FALSE /\ last = NoLine /\ outcome = None
  /\ accepted = <<>> /\ ran = <<>> /\ batched = FALSE

\* The end of handle_command_line(): the parse fills static_invoke whether it fails or not.
ProcessLaunch(tokens) ==
  \E stray \in Strays :
    LET p == Parse(Root, tokens, static, stray) IN
      /\ static' = p.inv
      /\ failed' = p.failed
      /\ last' = IF p.failed \/ stray # None THEN last
                 ELSE [tokens |-> tokens, from |-> Root, invocation |-> p.inv]

Launched ==
  /\ phase = "boot"
  /\ phase' = "run"
  /\ UNCHANGED <<dispatched, queue, queueRoot, tasks, turn, call, input, outcome, accepted,
                 ran, batched>>

\* handle_command_line() with the argv of the process ...
Launch(tokens) == Launched /\ ProcessLaunch(tokens)

\* ... with the command baked into the firmware, whose root command may be left unwritten ...
LaunchBaked(words) ==
  /\ Launched
  /\ IF AppRoot = None THEN UNCHANGED <<static, failed, last>>
     ELSE ProcessLaunch(IF words # <<>> /\ words[1] = Word(Name[AppRoot]) THEN words
                        ELSE <<Word(Name[AppRoot])>> \o words)

\* ... and with nothing at all.
LaunchBare == Launched /\ UNCHANGED <<static, failed, last>>

------------------------------------------------------------------------------
(* The queue. *)

\* light_cli_queue_line(), once per line: refused when the queue is full.  (A NULL line is
\* refused before that, and changes nothing.)
QueueLine(root, lines) ==
  LET room == QueueDepth - Len(queue)
      taken == SubSeq(lines, 1, IF Len(lines) < room THEN Len(lines) ELSE room)
  IN /\ queue' = queue \o taken
     /\ queueRoot' = IF taken = <<>> THEN queueRoot ELSE root
     /\ accepted' = accepted \o taken

\* A console: one line a tick, queued for the next one; at the end of its input it ends the
\* run, and the scheduler abandons the pass.  It is one of the application's tasks.
FeederTask ==
  /\ phase = "run" /\ call = None /\ turn <= Len(tasks) /\ tasks[turn] = "feeder"
  /\ IF input = <<>>
     THEN /\ phase' = "ended"
          /\ UNCHANGED <<queue, queueRoot, accepted, input>>
     ELSE /\ QueueLine(AppRoot, <<Head(input)>>)
          /\ input' = IF Len(queue) < QueueDepth THEN Tail(input) ELSE input
          /\ UNCHANGED phase
  /\ turn' = turn + 1
  /\ UNCHANGED <<static, dispatched, tasks, call, failed, last, outcome, ran, batched>>

\* The periodic tasks have all run; the next pass begins (framework.c:209-214).
NextPass ==
  /\ phase = "run" /\ call = None /\ turn > Len(tasks)
  /\ turn' = 1
  /\ UNCHANGED <<phase, tasks, cli, call, input, ghosts>>

------------------------------------------------------------------------------
(* cli_task() and the dispatch. *)

Dispatching(inv, from) == [inv |-> inv, command |-> inv.target, depth |-> 0, source |-> from]

CliTurn == phase = "run" /\ call = None /\ turn <= Len(tasks) /\ tasks[turn] = "cli"

\* The first tick dispatches the launch command line, if there is one, and only that.
CliLaunch ==
  /\ CliTurn /\ ~dispatched /\ static.target # None
  /\ dispatched' = TRUE
  /\ call' = Dispatching(static, "launch")
  /\ UNCHANGED <<static, queue, queueRoot, scheduler, input, ghosts>>

\* light_cli_run_line() up to the parse: the words of a line, the root's name put in front.
LineTokens(root, line) ==
  IF line.words[1] = Word(Name[root]) THEN line.words
  ELSE <<Word(Name[root])>> \o line.words

Runs(root, line) ==
  /\ root # None
  /\ ~line.open /\ Len(line.words) <= MaxTokens - 1
  /\ line.words # <<>>

\* The level whose children the first token is matched against.
ParentOf(c) ==
  IF \E p \in Nodes : c \in Range(Child[p])
  THEN CHOOSE p \in Nodes : c \in Range(Child[p]) ELSE Root

CliLine ==
  /\ CliTurn /\ (dispatched \/ static.target = None) /\ queue # <<>>
  /\ dispatched' = TRUE
  /\ queue' = Tail(queue) /\ ran' = Append(ran, Head(queue))
  /\ \E stray \in Strays :
       IF ~Runs(queueRoot, Head(queue))
       THEN turn' = turn + 1 /\ UNCHANGED <<call, last>>
       ELSE LET tokens == LineTokens(queueRoot, Head(queue))
                p == Parse(ParentOf(queueRoot), tokens, NoInvocation, stray)
            IN IF p.failed
               THEN turn' = turn + 1 /\ UNCHANGED <<call, last>>
               ELSE /\ call' = Dispatching(p.inv, "line")
                    /\ last' = IF stray # None THEN last
                               ELSE [tokens |-> tokens, from |-> ParentOf(queueRoot),
                                     invocation |-> p.inv]
                    /\ UNCHANGED turn
  /\ UNCHANGED <<phase, tasks, static, queueRoot, input, failed, outcome, accepted, batched>>

CliNothing ==
  /\ CliTurn /\ (dispatched \/ static.target = None) /\ queue = <<>>
  /\ dispatched' = TRUE
  /\ turn' = turn + 1
  /\ UNCHANGED <<phase, tasks, static, queue, queueRoot, call, input, ghosts>>

\* The dispatch is over.  Only the launch command line's status reaches the scheduler.
Finish(status) ==
  /\ call' = None
  /\ outcome' = [target |-> call.inv.target, status |-> status]
  /\ phase' = (IF call.source = "launch" /\ status = "error" THEN "ended" ELSE phase)
  /\ turn' = turn + 1

\* The alias is one too many.  (The mutant lets one more through.)
DepthReachedLate == call.depth > MaxRefDepth
DepthReached == call.depth >= MaxRefDepth

\* One handler of light_cli_dispatch_command_line(): the target's, or an alias's.
CallHandler ==
  /\ call # None
  /\ LET does == Handler[call.command] IN
     \/ /\ does = None \/ does = "error"
        /\ Finish("error")
        /\ UNCHANGED <<tasks, queue, queueRoot, accepted, batched>>
     \/ /\ does \in {"success", "console", "batch"}
        /\ Finish("run")
        /\ tasks' = IF does = "console" /\ "feeder" \notin Range(tasks)
                    THEN Append(tasks, "feeder") ELSE tasks
        /\ IF does = "batch" THEN QueueLine(AppRoot, Batch) /\ batched' = TRUE
           ELSE UNCHANGED <<queue, queueRoot, accepted, batched>>
     \/ /\ does \in Commands
        /\ IF DepthReached THEN Finish("error")
           ELSE /\ call' = [call EXCEPT !.command = does, !.depth = @ + 1]
                /\ UNCHANGED <<outcome, phase, turn>>
        /\ UNCHANGED <<tasks, queue, queueRoot, accepted, batched>>
  /\ UNCHANGED <<static, dispatched, input, failed, last, ran>>

CliTask == CliLaunch \/ CliLine \/ CliNothing \/ CallHandler

Ended == phase = "ended" /\ UNCHANGED vars

Next ==
  \/ \E tokens \in LaunchLines : Launch(tokens)
  \/ \E words \in BootCommands : LaunchBaked(words)
  \/ LaunchBare
  \/ CliTask \/ FeederTask \/ NextPass
  \/ Ended

Spec == Init /\ [][Next]_vars

\* No invocation outgrows its arrays.
Fits(inv) == Len(inv.arg) <= MaxArgs /\ Len(inv.option) <= MaxOptions

\* Every variable keeps its type, and what is bound fits (light_command.h:77-99).
TypeOK ==
  /\ phase \in {"boot", "run", "ended"}
  /\ static.target \in Nodes \cup {None}
  /\ Fits(static)
  /\ Len(queue) <= QueueDepth
  /\ turn \in 1 .. Len(tasks) + 1 /\ Range(tasks) \subseteq {"cli", "feeder"}
  /\ call # None => call.command \in Nodes /\ call.depth \in 0 .. MaxRefDepth /\ Fits(call.inv)

------------------------------------------------------------------------------
(* A command line read without a parser: where its words lead, then what is left. *)

\* Where the words lead from a command, until one leads nowhere or is no word.
Walk(from, ts) ==
  LET walk[n \in 0 .. Len(ts)] ==
        IF n = 0 THEN from
        ELSE IF walk[n - 1] # None /\ ts[n].kind = "word" THEN Find(walk[n - 1], ts[n].text)
        ELSE None
  IN walk

\* The option takes its value from a word that follows.
Waits(target, token) ==
  token.kind = "option" /\ FindOption(target, token.text).type # "switch"

\* The word at j is the value of the option at i.
Gives(target, ts, i, j) ==
  /\ i < j /\ Waits(target, ts[i]) /\ ts[j].kind = "word"
  /\ \A k \in i + 1 .. j - 1 : ts[k].kind # "word" /\ ~Waits(target, ts[k])

\* The value of the option at i, as far as the first n tokens say.
Given(target, ts, i, n) ==
  IF ts[i].kind = "equals" THEN ts[i].value
  ELSE IF ~Waits(target, ts[i]) THEN One
  ELSE IF \E j \in 1 .. n : Gives(target, ts, i, j)
       THEN ts[CHOOSE j \in 1 .. n : Gives(target, ts, i, j)].text ELSE ts[i].text

\* The members of S up to each of 0 .. n, in order.
InOrder(S, n) ==
  LET upTo[k \in 0 .. n] ==
        IF k = 0 THEN <<>> ELSE IF k \in S THEN Append(upTo[k - 1], k) ELSE upTo[k - 1]
  IN upTo

AsTyped(from, typed) ==
  LET ts == Read(typed)
      count == Len(ts)
      named == Max({n \in 0 .. count : Walk(from, ts)[n] # None})
      target == Walk(from, ts)[named]
      rest == named + 1 .. count
      options == InOrder({i \in rest : ts[i].kind # "word"}, count)[count]
      args == InOrder({j \in rest : /\ ts[j].kind = "word"
                                    /\ \A i \in rest : ~Gives(target, ts, i, j)}, count)[count]
  IN [target |-> target,
      option |-> [n \in DOMAIN options |->
                    [option |-> FindOption(target, ts[options[n]].text),
                     value |-> Given(target, ts, options[n], count)]],
      arg |-> [n \in DOMAIN args |-> ts[args[n]].text]]

\* The invocation a handler is given is what the command line says (command.c:141-248): the
\* words up to the first option or unknown word name the command, a word after a valued
\* option is its value unless another such option comes first, the others are the
\* arguments in order; asked by name, an option has the value it was given first.
InvocationAsTyped ==
  last # NoLine =>
    LET typed == AsTyped(last.from, last.tokens) IN
      /\ last.invocation = typed
      /\ \A i \in DOMAIN typed.option :
           (\A j \in 1 .. i - 1 : typed.option[j].option # typed.option[i].option)
             => OptionValue(last.invocation, typed.option[i].option.name)
                  = typed.option[i].value

\* cli_task() runs the lines in the order they were queued, and has run them all when the
\* console that queued them ends the run, the last one too (command.c:262-278).
EveryLineRuns ==
  /\ IsPrefix(ran, accepted)
  /\ phase = "ended" /\ tasks[turn - 1] = "feeder" /\ ~batched => ran = accepted

\* What the handler of a target does, and of each alias it leads to.
Chain(target) ==
  LET does[n \in 0 .. MaxRefDepth] ==
        IF n = 0 THEN Handler[target]
        ELSE IF does[n - 1] \in Commands THEN Handler[does[n - 1]] ELSE None
  IN does

\* What a dispatch comes to (command.c:302-359): it succeeds exactly when the chain of
\* aliases from its target reaches a handler that does, within the depth allowed.
DispatchOutcome ==
  outcome # None =>
    (outcome.status = "run" <=>
       \E n \in 0 .. MaxRefDepth : Chain(outcome.target)[n] \in {"success", "console", "batch"})

\* A launch command line that does not parse costs the feature it configures: cli_task()
\* finds no target and calls no handler (module.c:125-129).
LaunchFailureDispatchesNothing ==
  failed => ~(call # None /\ call.source = "launch" /\ Handler[call.command] # None)
==============================================================================
