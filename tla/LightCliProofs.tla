---------------------------- MODULE LightCliProofs ----------------------------
(***************************************************************************)
(* Theorems about LightCli, for any command tree, any lines and any        *)
(* limits: every queued line runs; a dispatch comes to what its chain of   *)
(* aliases leads to; what the parser makes of a line, token by token, is   *)
(* what the line says as a whole; and no invocation outgrows its arrays.   *)
(***************************************************************************)
EXTENDS LightCli, SequenceTheorems, FiniteSetTheorems, WellFoundedInduction, TLAPS

\* The parts of the assumption that the proofs about the queue need.
LEMMA DepthIsNat == QueueDepth \in Nat \ {0}
  BY CliAssumption

-----------------------------------------------------------------------------
(* The queue.  cli_task() comes before the console task in every pass and  *)
(* takes one line; the console task adds one.  So when the console task    *)
(* has its turn the queue is empty, unless a handler has queued lines.     *)

Lines == Range(Batch) \union UNION {Range(lines) : lines \in Inputs}

\* What was accepted has run or is still queued.
LinesInv ==
    /\ input \in Seq(Lines) /\ queue \in Seq(Lines) /\ ran \in Seq(Lines)
    /\ accepted = ran \o queue
    /\ Len(queue) <= QueueDepth

\* The tasks in their order, and a dispatch within the turn of cli_task().
TurnInv ==
    /\ tasks \in Registered
    /\ turn \in 1..(Len(tasks) + 1)
    /\ call # None => turn = 1
    /\ phase = "boot" => turn = 1 /\ call = None
    /\ phase = "ended" => turn # 1 /\ call = None

\* At most one line waits, and none once cli_task() has had its turn.
OneLineInv ==
    ~batched =>
        /\ Len(queue) <= 1
        /\ turn = 2 \/ call # None => queue = << >>
        /\ ~dispatched => queue = << >> /\ turn = 1 /\ call = None
        /\ phase = "ended" /\ turn = 3 => queue = << >>

QueueInv == LinesInv /\ TurnInv /\ OneLineInv

LEMMA LineSequences ==
    ASSUME NEW lines \in Inputs \union {Batch}
    PROVE  lines \in Seq(Lines)
<1>1. lines \in Seq(Range(lines))
  BY CliAssumption
<1>2. Range(lines) \subseteq Lines
  BY DEF Lines
<1> HIDE DEF Lines
<1> QED
  BY <1>1, <1>2

LEMMA Concat ==
    ASSUME NEW S, NEW s \in Seq(S), NEW t \in Seq(S)
    PROVE  /\ s \o t \in Seq(S) /\ Len(s \o t) = Len(s) + Len(t)
  BY ConcatProperties

Regroups(x, y, z) == (x \o y) \o z = x \o (y \o z)

LEMMA Regrouped ==
    ASSUME NEW S, NEW x \in Seq(S), NEW y \in Seq(S), NEW z \in Seq(S)
    PROVE  Regroups(x, y, z)
  BY ConcatAssociative DEF Regroups

\* Running a line moves it from the head of one sequence to the end of another.
LEMMA Moved ==
    ASSUME NEW S, NEW s \in Seq(S), NEW f \in Seq(S), f # << >>
    PROVE  /\ Append(s, Head(f)) \o Tail(f) = s \o f
           /\ Append(s, Head(f)) \in Seq(S) /\ Tail(f) \in Seq(S) /\ Head(f) \in S
<1> DEFINE a == Append(s, Head(f))
           u == a \o Tail(f)
           w == s \o f
<1>1. /\ Head(f) \in S /\ Head(f) = f[1] /\ Tail(f) \in Seq(S)
      /\ Len(f) \in Nat /\ Len(f) >= 1 /\ Len(s) \in Nat /\ Len(Tail(f)) = Len(f) - 1
      /\ \A i \in 1 .. (Len(f) - 1) : Tail(f)[i] = f[i + 1]
  BY HeadTailProperties, LenProperties, EmptySeq
<1>2. /\ a \in Seq(S) /\ Len(a) = Len(s) + 1 /\ a[Len(s) + 1] = f[1]
      /\ \A i \in 1 .. Len(s) : a[i] = s[i]
  BY <1>1, AppendProperties
<1> HIDE DEF a
<1>3. /\ u \in Seq(S) /\ Len(u) = Len(s) + Len(f)
      /\ \A i \in 1 .. (Len(s) + Len(f)) :
           u[i] = IF i <= Len(s) + 1 THEN a[i] ELSE Tail(f)[i - (Len(s) + 1)]
  <2>1. /\ u \in Seq(S) /\ Len(u) = Len(a) + Len(Tail(f))
        /\ \A i \in 1 .. Len(a) + Len(Tail(f)) :
             u[i] = IF i <= Len(a) THEN a[i] ELSE Tail(f)[i - Len(a)]
    <3>1. PICK b : b = Tail(f)
      OBVIOUS
    <3>2. a \in Seq(S) /\ b \in Seq(S)
      BY <1>1, <1>2, <3>1
    <3>3. /\ a \o b \in Seq(S) /\ Len(a \o b) = Len(a) + Len(b)
          /\ \A i \in 1 .. Len(a) + Len(b) :
               (a \o b)[i] = IF i <= Len(a) THEN a[i] ELSE b[i - Len(a)]
      BY <3>2, ConcatProperties
    <3> QED
      BY <3>1, <3>3
  <2>2. Len(a) = Len(s) + 1 /\ Len(a) + Len(Tail(f)) = Len(s) + Len(f)
    BY <1>1, <1>2
  <2> QED
    BY <2>1, <2>2
<1>4. /\ w \in Seq(S) /\ Len(w) = Len(s) + Len(f)
      /\ \A i \in 1 .. (Len(s) + Len(f)) : w[i] = IF i <= Len(s) THEN s[i] ELSE f[i - Len(s)]
  BY <1>1, ConcatProperties
<1> HIDE DEF u, w
<1>5. ASSUME NEW i \in 1 .. (Len(s) + Len(f))
      PROVE  u[i] = w[i]
  <2>1. CASE i <= Len(s)
    BY <1>1, <1>2, <1>3, <1>4, <2>1
  <2>2. CASE i = Len(s) + 1
    <3>1. u[i] = a[Len(s) + 1]
      BY <1>1, <1>3, <2>2
    <3>2. w[i] = f[i - Len(s)] /\ i - Len(s) = 1
      BY <1>1, <1>4, <2>2
    <3> QED
      BY <1>2, <3>1, <3>2
  <2>3. CASE i > Len(s) + 1
    <3> DEFINE j == i - (Len(s) + 1)
    <3>1. j \in 1 .. (Len(f) - 1) /\ j + 1 = i - Len(s)
      BY <1>1, <2>3
    <3>2. u[i] = Tail(f)[j]
      BY <1>1, <1>3, <2>3
    <3>3. w[i] = f[i - Len(s)]
      BY <1>1, <1>4, <2>3
    <3> HIDE DEF j
    <3>4. Tail(f)[j] = f[j + 1]
      BY <1>1, <3>1
    <3> QED
      BY <3>1, <3>2, <3>3, <3>4
  <2> QED
    BY <1>1, <2>1, <2>2, <2>3
<1>6. u = w
  BY <1>3, <1>4, <1>5, SeqEqual
<1> QED
  BY <1>1, <1>2, <1>6 DEF u, w, a

\* light_cli_queue_line() keeps the order, whatever it has room for.
LEMMA QueueLineKeeps ==
    ASSUME LinesInv, NEW root, NEW lines \in Seq(Lines), QueueLine(root, lines), ran' = ran
    PROVE  /\ queue' \in Seq(Lines) /\ accepted' = ran' \o queue' /\ Len(queue') <= QueueDepth
           /\ queue = << >> /\ Len(lines) = 1 => Len(queue') <= 1
<1> DEFINE room == QueueDepth - Len(queue)
           k == IF Len(lines) < room THEN Len(lines) ELSE room
           taken == SubSeq(lines, 1, k)
<1>1. queue \in Seq(Lines) /\ ran \in Seq(Lines) /\ accepted = ran \o queue /\ Len(queue) \in Nat
      /\ Len(lines) \in Nat /\ \A i \in 1..Len(lines) : lines[i] \in Lines
  BY LenProperties, ElementOfSeq DEF LinesInv
<1>2. queue' = queue \o taken /\ accepted' = accepted \o taken
  BY DEF QueueLine
<1>3. k \in Nat /\ k <= Len(lines) /\ k <= room
  BY <1>1, DepthIsNat DEF LinesInv
<1>4. taken \in Seq(Lines) /\ Len(taken) = k
  <2>1. \A i \in 1..k : lines[i] \in Lines
    BY <1>1, <1>3
  <2> HIDE DEF k
  <2>2. /\ SubSeq(lines, 1, k) \in Seq(Lines)
        /\ Len(SubSeq(lines, 1, k)) = IF 1 <= k THEN k - 1 + 1 ELSE 0
    BY <1>3, <2>1, SubSeqProperties
  <2> QED
    BY <1>3, <2>2
<1> HIDE DEF taken, k
<1>5. queue' \in Seq(Lines) /\ Len(queue') = Len(queue) + k /\ Len(queue') <= QueueDepth
  <2>1. queue \o taken \in Seq(Lines) /\ Len(queue \o taken) = Len(queue) + Len(taken)
    BY <1>1, <1>4, Concat
  <2> QED
    BY <1>1, <1>2, <1>3, <1>4, <2>1, DepthIsNat
<1>6. accepted' = ran' \o queue'
  <2>1. Regroups(ran, queue, taken)
    BY <1>1, <1>4, Regrouped
  <2> QED
    BY <1>1, <1>2, <2>1 DEF Regroups
<1>7. ASSUME queue = << >>, Len(lines) = 1 PROVE Len(queue') <= 1
  <2>1. Len(queue) = 0
    BY <1>7, EmptySeq
  <2> QED
    BY <1>3, <1>5, <1>7, <2>1
<1> QED
  BY <1>5, <1>6, <1>7

\* The console task is appended behind the first.
LEMMA SecondEntry ==
    ASSUME NEW t, NEW x
    PROVE  Append(<<t>>, x) = <<t, x>>
<1> DEFINE S == {t, x}
           u == Append(<<t>>, x)
           v == <<t, x>>
<1>1. <<t>> \in Seq(S) /\ x \in S /\ Len(<<t>>) = 1 /\ <<t>>[1] = t
  OBVIOUS
<1>2. v \in Seq(S) /\ Len(v) = 2 /\ v[1] = t /\ v[2] = x
  OBVIOUS
<1> HIDE DEF S, v
<1>3. u \in Seq(S) /\ Len(u) = 2 /\ u[1] = t /\ u[2] = x
  BY <1>1, AppendProperties
<1> HIDE DEF u
<1>4. \A i \in 1..Len(u) : u[i] = v[i]
  BY <1>2, <1>3
<1>5. u = v
  BY <1>2, <1>3, <1>4, SeqEqual
<1> QED
  BY <1>5 DEF u, v

\* The tasks stand in one of two orders, and each in its place.
LEMMA TaskPlaces ==
    ASSUME tasks \in Registered
    PROVE  /\ tasks[1] = "cli" /\ Len(tasks) \in {1, 2}
           /\ Len(tasks) = 2 => tasks[2] = "feeder"
           /\ "feeder" \notin Range(tasks) => tasks = <<"cli">>
<1>1. CASE tasks = <<"cli">>
  BY <1>1
<1>2. CASE tasks = <<"cli", "feeder">>
  <2>1. 2 \in DOMAIN tasks /\ tasks[2] = "feeder"
    BY <1>2
  <2>2. "feeder" \in Range(tasks)
    BY <2>1 DEF Range
  <2> QED
    BY <1>2, <2>2
<1> QED
  BY <1>1, <1>2 DEF Registered

LEMMA LaunchQueues ==
    ASSUME QueueInv, Launched
    PROVE  QueueInv'
<1>1. /\ phase = "boot" /\ phase' = "run"
      /\ UNCHANGED <<dispatched, queue, queueRoot, tasks, turn, call, input, outcome, accepted, ran, batched>>
  BY DEF Launched
<1>2. LinesInv'
  BY <1>1 DEF QueueInv, LinesInv
<1>3. TurnInv'
  BY <1>1 DEF QueueInv, TurnInv
<1>4. OneLineInv'
  BY <1>1 DEF QueueInv, OneLineInv
<1> QED
  BY <1>2, <1>3, <1>4 DEF QueueInv

LEMMA CliQueues ==
    ASSUME QueueInv, CliLaunch \/ CliNothing
    PROVE  QueueInv'
<1>1. /\ phase = "run" /\ call = None /\ turn <= Len(tasks) /\ tasks[turn] = "cli" /\ dispatched' = TRUE
      /\ ~dispatched \/ queue = << >>
      /\ \/ turn' = turn
         \/ turn' = turn + 1 /\ call' = call
      /\ UNCHANGED <<phase, tasks, queue, input, accepted, ran, batched>>
  BY DEF CliLaunch, CliNothing, CliTurn, scheduler, ghosts
<1>2. turn = 1 /\ Len(tasks) \in {1, 2}
  BY <1>1, TaskPlaces DEF QueueInv, TurnInv
<1>3. LinesInv'
  BY <1>1 DEF QueueInv, LinesInv
<1>4. TurnInv'
  BY <1>1, <1>2 DEF QueueInv, TurnInv
<1>5. OneLineInv'
  BY <1>1, <1>2 DEF QueueInv, OneLineInv
<1> QED
  BY <1>3, <1>4, <1>5 DEF QueueInv

LEMMA LineQueues ==
    ASSUME QueueInv, CliLine
    PROVE  QueueInv'
<1>1. /\ phase = "run" /\ call = None /\ turn <= Len(tasks) /\ tasks[turn] = "cli" /\ dispatched' = TRUE
      /\ queue # << >> /\ queue' = Tail(queue) /\ ran' = Append(ran, Head(queue))
      /\ \/ turn' = turn
         \/ turn' = turn + 1 /\ call' = call
      /\ UNCHANGED <<phase, tasks, input, accepted, batched>>
  BY DEF CliLine, CliTurn
<1>2. turn = 1 /\ Len(tasks) \in {1, 2}
  BY <1>1, TaskPlaces DEF QueueInv, TurnInv
<1>3. queue \in Seq(Lines) /\ ran \in Seq(Lines) /\ accepted = ran \o queue /\ Len(queue) <= QueueDepth
      /\ input \in Seq(Lines)
  BY DEF QueueInv, LinesInv
<1>4. /\ Append(ran, Head(queue)) \o Tail(queue) = ran \o queue
      /\ Append(ran, Head(queue)) \in Seq(Lines) /\ Tail(queue) \in Seq(Lines)
  BY <1>1, <1>3, Moved
<1>5. Len(Tail(queue)) = Len(queue) - 1 /\ Len(queue) \in Nat
  BY <1>1, <1>3, HeadTailProperties, LenProperties
<1>6. LinesInv'
  <2>1. PICK q, r : q = Tail(queue) /\ r = Append(ran, Head(queue))
    OBVIOUS
  <2>2. queue' = q /\ ran' = r /\ accepted' = accepted /\ input' = input
    BY <1>1, <2>1
  <2>3. q \in Seq(Lines) /\ r \in Seq(Lines) /\ accepted = r \o q /\ input \in Seq(Lines)
    BY <1>3, <1>4, <2>1
  <2>4. Len(q) <= QueueDepth
    BY <1>3, <1>5, <2>1, DepthIsNat
  <2> QED
    BY <2>2, <2>3, <2>4 DEF LinesInv
<1>7. TurnInv'
  BY <1>1, <1>2 DEF QueueInv, TurnInv
<1>8. OneLineInv'
  <2> SUFFICES ASSUME ~batched PROVE OneLineInv'
    BY <1>1 DEF OneLineInv
  <2>1. Len(queue) <= 1
    BY DEF QueueInv, OneLineInv
  <2>2. Len(queue') = 0
    BY <1>1, <1>5, <2>1, <1>3, <1>4, EmptySeq, LenProperties
  <2>3. queue' = << >>
    BY <1>1, <1>4, <2>2, EmptySeq
  <2> QED
    BY <1>1, <1>2, <2>2, <2>3 DEF OneLineInv
<1> QED
  BY <1>6, <1>7, <1>8 DEF QueueInv

LEMMA HandlerQueues ==
    ASSUME QueueInv, CallHandler
    PROVE  QueueInv'
<1>1. /\ call # None /\ turn = 1 /\ Len(tasks) \in {1, 2} /\ tasks \in Registered
      /\ phase # "boot" /\ phase # "ended"
  BY TaskPlaces DEF QueueInv, TurnInv, CallHandler
<1>2. UNCHANGED <<dispatched, input, ran>>
  BY DEF CallHandler
<1>3. /\ turn' \in {1, 2} /\ (call' # None => turn' = 1)
      /\ phase' = phase \/ (phase' = "ended" /\ turn' = 2)
  BY <1>1 DEF CallHandler, Finish, QueueInv, TurnInv
<1>4. tasks' \in Registered /\ Len(tasks) <= Len(tasks') /\ (turn' = 1 => tasks' = tasks)
  <2>1. tasks' = tasks \/ ("feeder" \notin Range(tasks) /\ tasks' = Append(tasks, "feeder"))
    BY DEF CallHandler
  <2>2. PICK c, f : c = "cli" /\ f = "feeder"
    OBVIOUS
  <2>3. CASE tasks' = tasks
    BY <1>1, <2>3
  <2>4. CASE "feeder" \notin Range(tasks) /\ tasks' = Append(tasks, "feeder")
    <3>1. tasks = <<c>> /\ tasks' = Append(<<c>>, f)
      BY <1>1, <2>2, <2>4, TaskPlaces
    <3>2. tasks' = <<c, f>>
      BY <3>1, SecondEntry
    <3>3. Len(tasks) = 1 /\ Len(tasks') = 2
      BY <3>1, <3>2
    <3>4. tasks' \in Registered
      BY <2>2, <3>2 DEF Registered
    <3>5. turn' # 1
      BY <1>1, <2>4 DEF CallHandler, Finish
    <3> QED
      BY <3>3, <3>4, <3>5
  <2> QED
    BY <2>1, <2>3, <2>4
<1>5. LinesInv'
  <2>1. CASE UNCHANGED <<queue, accepted>>
    BY <1>2, <2>1 DEF QueueInv, LinesInv
  <2>2. CASE QueueLine(AppRoot, Batch)
    BY <1>2, <2>2, LineSequences, QueueLineKeeps DEF QueueInv, LinesInv
  <2> QED
    BY <2>1, <2>2 DEF CallHandler
<1>6. TurnInv'
  <2>1. Len(tasks') \in {1, 2}
    BY <1>4 DEF Registered
  <2>2. turn' \in 1..(Len(tasks') + 1)
    BY <1>3, <2>1
  <2> QED
    BY <1>1, <1>3, <1>4, <2>2 DEF TurnInv
<1>7. OneLineInv'
  <2> SUFFICES ASSUME ~batched' PROVE OneLineInv'
    BY DEF OneLineInv
  <2>1. UNCHANGED <<queue, batched>>
    BY DEF CallHandler
  <2>2. queue = << >> /\ Len(queue) = 0 /\ dispatched
    BY <1>1, <2>1 DEF QueueInv, OneLineInv
  <2> QED
    BY <1>2, <1>3, <2>1, <2>2 DEF OneLineInv
<1> QED
  BY <1>5, <1>6, <1>7 DEF QueueInv

LEMMA FeederQueues ==
    ASSUME QueueInv, FeederTask
    PROVE  QueueInv'
<1>1. /\ phase = "run" /\ call = None /\ turn <= Len(tasks) /\ tasks[turn] = "feeder"
      /\ turn' = turn + 1 /\ phase' \in {"run", "ended"}
      /\ UNCHANGED <<dispatched, tasks, call, ran, batched>>
  BY DEF FeederTask
<1>2. turn = 2 /\ Len(tasks) = 2 /\ turn' = 3
  <2>1. tasks[1] = "cli" /\ Len(tasks) \in {1, 2} /\ turn \in 1..(Len(tasks) + 1)
    BY TaskPlaces DEF QueueInv, TurnInv
  <2>2. turn # 1
    BY <1>1, <2>1
  <2> QED
    BY <1>1, <2>1, <2>2
<1>3. /\ input \in Seq(Lines) /\ queue \in Seq(Lines) /\ ran \in Seq(Lines)
      /\ accepted = ran \o queue /\ Len(queue) <= QueueDepth
      /\ (~batched => queue = << >> /\ dispatched)
  BY <1>1, <1>2 DEF QueueInv, LinesInv, OneLineInv
<1>4. TurnInv'
  BY <1>1, <1>2 DEF QueueInv, TurnInv
<1>5. CASE phase' = "ended" /\ UNCHANGED <<queue, queueRoot, accepted, input>>
  <2>1. LinesInv'
    BY <1>1, <1>3, <1>5 DEF LinesInv
  <2>2. OneLineInv'
    <3>1. Len(<< >>) = 0
      OBVIOUS
    <3> QED
      BY <1>1, <1>2, <1>3, <1>5, <3>1 DEF OneLineInv
  <2> QED
    BY <1>4, <2>1, <2>2 DEF QueueInv
<1>6. CASE /\ input # << >> /\ QueueLine(AppRoot, <<Head(input)>>) /\ UNCHANGED phase
           /\ input' \in {Tail(input), input}
  <2>1. PICK h : h = Head(input)
    OBVIOUS
  <2>2. h \in Lines /\ Tail(input) \in Seq(Lines)
    BY <1>3, <1>6, <2>1, HeadTailProperties
  <2>3. <<h>> \in Seq(Lines) /\ Len(<<h>>) = 1
    BY <2>2
  <2>4. PICK lines \in Seq(Lines) : lines = <<Head(input)>> /\ Len(lines) = 1
    BY <2>1, <2>3
  <2>5. LinesInv /\ QueueLine(AppRoot, lines) /\ ran' = ran
    BY <1>1, <1>6, <2>4 DEF QueueInv
  <2>6. /\ queue' \in Seq(Lines) /\ accepted' = ran' \o queue' /\ Len(queue') <= QueueDepth
        /\ queue = << >> /\ Len(lines) = 1 => Len(queue') <= 1
    BY <2>5, QueueLineKeeps
  <2>7. LinesInv'
    BY <1>1, <1>3, <1>6, <2>2, <2>6 DEF LinesInv
  <2>8. OneLineInv'
    BY <1>1, <1>2, <1>3, <1>6, <2>4, <2>6 DEF OneLineInv
  <2> QED
    BY <1>4, <2>7, <2>8 DEF QueueInv
<1> QED
  BY <1>5, <1>6 DEF FeederTask

LEMMA PassQueues ==
    ASSUME QueueInv, NextPass
    PROVE  QueueInv'
<1>1. /\ phase = "run" /\ call = None /\ turn > Len(tasks) /\ turn' = 1
      /\ UNCHANGED <<phase, dispatched, tasks, queue, call, input, accepted, ran, batched>>
  BY DEF NextPass, cli, ghosts
<1>2. tasks \in Registered /\ turn \in 1..(Len(tasks) + 1) /\ Len(tasks) \in {1, 2} /\ turn # 1
  BY <1>1, TaskPlaces DEF QueueInv, TurnInv
<1>3. LinesInv'
  BY <1>1 DEF QueueInv, LinesInv
<1>4. TurnInv'
  BY <1>1, <1>2 DEF TurnInv
<1>5. OneLineInv'
  BY <1>1, <1>2 DEF QueueInv, OneLineInv
<1> QED
  BY <1>3, <1>4, <1>5 DEF QueueInv

LEMMA InitQueues ==
    ASSUME Init
    PROVE  QueueInv
<1>1. /\ phase = "boot" /\ turn = 1 /\ tasks \in Registered /\ call = None
      /\ queue = << >> /\ accepted = << >> /\ ran = << >> /\ input \in Inputs
  BY DEF Init
<1>2. << >> \in Seq(Lines) /\ Len(<< >>) = 0
  BY EmptySeq
<1>3. input \in Seq(Lines)
  BY <1>1, LineSequences
<1>4. << >> \o << >> = << >>
  BY ConcatEmptySeq, <1>2
<1>5. LinesInv
  BY <1>1, <1>2, <1>3, <1>4, DepthIsNat DEF LinesInv
<1>6. TurnInv
  BY <1>1, TaskPlaces DEF TurnInv
<1>7. OneLineInv
  BY <1>1, <1>2 DEF OneLineInv
<1> QED
  BY <1>5, <1>6, <1>7 DEF QueueInv

\* The queue keeps its order and its room, and a line waits for cli_task() at most until its
\* next turn, so long as only the console queues (command.c:45-60 and 262-278).
THEOREM QueueInvariance == Spec => []QueueInv
<1>1. Init => QueueInv
  BY InitQueues
<1>2. QueueInv /\ [Next]_vars => QueueInv'
  <2> SUFFICES ASSUME QueueInv, [Next]_vars PROVE QueueInv'
    OBVIOUS
  <2>1. CASE Launched
    BY <2>1, LaunchQueues
  <2>2. CASE CliLaunch \/ CliNothing
    BY <2>2, CliQueues
  <2>3. CASE CliLine
    BY <2>3, LineQueues
  <2>4. CASE CallHandler
    BY <2>4, HandlerQueues
  <2>5. CASE FeederTask
    BY <2>5, FeederQueues
  <2>6. CASE NextPass
    BY <2>6, PassQueues
  <2>7. CASE UNCHANGED vars
    <3>1. UNCHANGED <<phase, dispatched, tasks, turn, queue, call, input, accepted, ran, batched>>
      BY <2>7 DEF vars, cli, scheduler, ghosts
    <3>2. LinesInv' /\ TurnInv'
      BY <3>1 DEF QueueInv, LinesInv, TurnInv
    <3>3. OneLineInv'
      BY <3>1 DEF QueueInv, OneLineInv
    <3> QED
      BY <3>2, <3>3 DEF QueueInv
  <2> QED
    BY <2>1, <2>2, <2>3, <2>4, <2>5, <2>6, <2>7
       DEF Next, Launch, LaunchBaked, LaunchBare, CliTask, Ended
<1> QED
  BY <1>1, <1>2, PTL DEF Spec

\* cli_task() runs the lines in the order they were queued, and when the console that queued
\* them ends the run it has run them all, the last one too (command.c:262-278).
THEOREM QueuedLinesRun == Spec => []EveryLineRuns
<1>1. QueueInv => EveryLineRuns
  <2> SUFFICES ASSUME QueueInv PROVE EveryLineRuns
    OBVIOUS
  <2>1. ran \in Seq(Lines) /\ queue \in Seq(Lines) /\ accepted = ran \o queue
    BY DEF QueueInv, LinesInv
  <2>2. IsPrefix(ran, accepted)
    <3>1. /\ Len(ran) \in Nat /\ Len(queue) \in Nat /\ accepted \in Seq(Lines)
          /\ Len(accepted) = Len(ran) + Len(queue)
          /\ \A i \in 1..Len(ran) : accepted[i] = ran[i]
      BY <2>1, ConcatProperties, LenProperties
    <3>2. ran = SubSeq(accepted, 1, Len(ran))
      <4>1. PICK n \in Nat, a \in Seq(Lines) : n = Len(ran) /\ a = accepted
        BY <3>1
      <4>2. n <= Len(a) /\ Len(a) \in Nat /\ \A i \in 1..n : a[i] \in Lines
        BY <3>1, <4>1, ElementOfSeq
      <4>3. /\ SubSeq(a, 1, n) \in Seq(Lines)
            /\ Len(SubSeq(a, 1, n)) = IF 1 <= n THEN n - 1 + 1 ELSE 0
            /\ \A i \in 1..(n - 1 + 1) : SubSeq(a, 1, n)[i] = a[1 + i - 1]
        BY <4>1, <4>2, SubSeqProperties
      <4>4. Len(SubSeq(a, 1, n)) = n /\ \A i \in 1..n : SubSeq(a, 1, n)[i] = ran[i]
        BY <3>1, <4>1, <4>3
      <4>5. ran = SubSeq(a, 1, n)
        BY <2>1, <4>1, <4>3, <4>4, SeqEqual
      <4> QED
        BY <4>1, <4>5
    <3>3. Len(ran) <= Len(accepted) /\ DOMAIN ran = 1..Len(ran)
      BY <2>1, <3>1, LenProperties
    <3> QED
      BY <3>1, <3>2, <3>3 DEF IsPrefix
  <2>3. ASSUME phase = "ended", tasks[turn - 1] = "feeder", ~batched
        PROVE  ran = accepted
    <3>1. turn \in 1..(Len(tasks) + 1) /\ turn # 1 /\ tasks[1] = "cli" /\ Len(tasks) \in {1, 2}
      BY <2>3, TaskPlaces DEF QueueInv, TurnInv
    <3>2. turn = 3
      BY <2>3, <3>1
    <3>3. queue = << >>
      BY <2>3, <3>2 DEF QueueInv, OneLineInv
    <3> QED
      BY <2>1, <3>3, ConcatEmptySeq
  <2> QED
    BY <2>2, <2>3 DEF EveryLineRuns
<1> QED
  BY <1>1, QueueInvariance, PTL

-----------------------------------------------------------------------------
(* The dispatch.  A recursive function has a value only once it is shown   *)
(* to exist, by looking at the least length at which it would not.         *)

LEMMA LeastElement ==
    ASSUME NEW T, T \subseteq Nat, T # {}
    PROVE  \E n \in T : \A k \in T : n <= k
<1>1. PICK n \in T : \A k \in T : ~ (<<k, n>> \in OpToRel(<, Nat))
  BY NatLessThanWellFounded, WFMin, Zenon
<1>2. ASSUME NEW k \in T PROVE ~(k < n)
  BY <1>1, <1>2, Zenon DEF OpToRel
<1>3. ASSUME NEW k \in T PROVE n <= k
  BY <1>2
<1> QED
  BY <1>3

LEMMA RefDepthIsNat == MaxRefDepth \in Nat \ {0}
  BY CliAssumption

\* What follows a handler that does d in a chain of aliases.
Following(d) == IF d \in Commands THEN Handler[d] ELSE None

\* w follows the aliases from a target, m steps far.
IsChain(target, w, m) ==
    w = [n \in 0..m |-> IF n = 0 THEN Handler[target]
                        ELSE IF w[n - 1] \in Commands THEN Handler[w[n - 1]] ELSE None]

LEMMA ChainExists ==
    ASSUME NEW target, NEW m \in Nat
    PROVE  \E w : IsChain(target, w, m)
<1> DEFINE T == {n \in Nat : ~ \E w : IsChain(target, w, n)}
<1> SUFFICES ASSUME T # {} PROVE FALSE
  OBVIOUS
<1>1. PICK n \in T : \A k \in T : n <= k
  BY LeastElement
<1>2. CASE n = 0
  <2> DEFINE w == [k \in 0..0 |-> Handler[target]]
  <2>1. w = [k \in 0..0 |-> IF k = 0 THEN Handler[target]
                            ELSE IF w[k - 1] \in Commands THEN Handler[w[k - 1]] ELSE None]
    OBVIOUS
  <2>2. IsChain(target, w, 0)
    BY <2>1 DEF IsChain
  <2> QED
    BY <1>2, <2>2
<1>3. CASE n # 0
  <2>1. n - 1 \in Nat /\ n - 1 \notin T
    BY <1>1, <1>3
  <2>2. PICK v : IsChain(target, v, n - 1)
    BY <2>1
  <2> DEFINE top == n - 1
             B(x, k) == IF k = 0 THEN Handler[target]
                        ELSE IF x[k - 1] \in Commands THEN Handler[x[k - 1]] ELSE None
             w == [k \in 0..n |-> IF k = n THEN Following(v[top]) ELSE v[k]]
  <2>3. \A k \in 0..top : v[k] = B(v, k)
    <3>1. v = [k \in 0..top |-> B(v, k)]
      BY <2>2 DEF IsChain
    <3> HIDE DEF B, top
    <3> QED
      BY <3>1
  <2>4. top \in Nat /\ n = top + 1
    BY <2>1
  <2>5. /\ w = [k \in 0..n |-> w[k]] /\ w[n] = Following(v[top])
        /\ \A k \in 0..top : w[k] = v[k]
    BY <2>4
  <2> HIDE DEF w, top
  <2>6. ASSUME NEW k \in 0..n PROVE w[k] = B(w, k)
    <3>1. CASE k = 0
      <4>1. 0 \in 0..top
        BY <2>4
      <4>2. w[0] = v[0] /\ v[0] = B(v, 0)
        BY <2>3, <2>5, <4>1
      <4> QED
        BY <3>1, <4>2
    <3>2. CASE k \in 1..top
      <4>1. k - 1 \in 0..top /\ k \in 0..top /\ k # 0
        BY <2>4, <3>2
      <4> QED
        BY <2>3, <2>5, <4>1
    <3>3. CASE k = n
      <4>1. k - 1 = top /\ top \in 0..top /\ k # 0
        BY <2>4, <3>3
      <4> QED
        BY <2>5, <3>3, <4>1 DEF Following
    <3> QED
      BY <2>4, <3>1, <3>2, <3>3
  <2>7. w = [k \in 0..n |-> B(w, k)]
    <3> HIDE DEF B
    <3> QED
      BY <2>5, <2>6
  <2>8. IsChain(target, w, n)
    BY <2>7 DEF IsChain
  <2> QED
    BY <2>8
<1> QED
  BY <1>2, <1>3

LEMMA ChainIsChain ==
    ASSUME NEW target, \E w : IsChain(target, w, MaxRefDepth)
    PROVE  IsChain(target, Chain(target), MaxRefDepth)
  BY Zenon DEF IsChain, Chain

\* The chain starts with what the target does and goes on from alias to alias.
LEMMA ChainSteps ==
    ASSUME NEW target
    PROVE  /\ Chain(target)[0] = Handler[target]
           /\ \A n \in 1..MaxRefDepth : Chain(target)[n] = Following(Chain(target)[n - 1])
<1> DEFINE w == Chain(target)
<1>1. MaxRefDepth \in Nat
  BY RefDepthIsNat
<1>2. IsChain(target, w, MaxRefDepth)
  BY <1>1, ChainExists, ChainIsChain
<1> HIDE DEF w
<1>3. /\ w[0] = Handler[target]
      /\ \A n \in 1..MaxRefDepth :
           w[n] = IF w[n - 1] \in Commands THEN Handler[w[n - 1]] ELSE None
  BY <1>1, <1>2 DEF IsChain
<1> QED
  BY <1>3 DEF w, Following

\* Once it has met a handler that is no alias, there is nothing more to it.
LEMMA ChainEnds ==
    ASSUME NEW target, NEW d \in 0..MaxRefDepth, Chain(target)[d] \notin Commands
    PROVE  \A n \in (d + 1)..MaxRefDepth : Chain(target)[n] = None
<1> DEFINE w == Chain(target)
           T == {n \in (d + 1)..MaxRefDepth : w[n] # None}
<1> SUFFICES ASSUME T # {} PROVE FALSE
  OBVIOUS
<1>1. MaxRefDepth \in Nat /\ None \notin Commands
  BY RefDepthIsNat, CliAssumption DEF Nodes
<1>2. w[d] \notin Commands /\ \A n \in 1..MaxRefDepth : w[n] = Following(w[n - 1])
  BY ChainSteps
<1> HIDE DEF w
<1>3. T \subseteq Nat
  BY <1>1
<1>4. PICK n \in T : \A k \in T : n <= k
  BY <1>3, LeastElement
<1>5. n \in 1..MaxRefDepth /\ n \in (d + 1)..MaxRefDepth /\ w[n] # None
  BY <1>1, <1>4
<1>6. w[n - 1] \notin Commands
  <2>1. CASE n = d + 1
    BY <1>2, <2>1
  <2>2. CASE n # d + 1
    <3>1. n - 1 \in (d + 1)..MaxRefDepth /\ ~(n <= n - 1)
      BY <1>1, <1>5, <2>2
    <3>2. n - 1 \notin T
      BY <1>4, <3>1
    <3>3. w[n - 1] = None
      BY <3>1, <3>2
    <3> QED
      BY <1>1, <3>3
  <2> QED
    BY <2>1, <2>2
<1> QED
  BY <1>2, <1>5, <1>6 DEF Following

Successes == {"success", "console", "batch"}

\* The dispatch in progress stands where the chain of its target is, depth aliases in.
ChainInv ==
    call # None =>
        /\ call = [inv |-> call.inv, command |-> call.command, depth |-> call.depth,
                   source |-> call.source]
        /\ call.depth \in 0..MaxRefDepth
        /\ Chain(call.inv.target)[call.depth] = Handler[call.command]
        /\ \A k \in 0..(call.depth - 1) : Chain(call.inv.target)[k] \in Commands

DispatchInv == ChainInv /\ DispatchOutcome

LEMMA StartsAtTarget ==
    ASSUME NEW inv, NEW from, call' = Dispatching(inv, from)
    PROVE  ChainInv'
<1>1. PICK t : t = inv.target
  OBVIOUS
<1>2. /\ call' = [inv |-> call'.inv, command |-> call'.command, depth |-> call'.depth,
                  source |-> call'.source]
      /\ call'.depth = 0 /\ call'.inv.target = t /\ call'.command = t
  BY <1>1 DEF Dispatching
<1>3. Chain(t)[0] = Handler[t]
  BY ChainSteps
<1>4. 0 \in 0..MaxRefDepth /\ 0..(0 - 1) = {}
  BY RefDepthIsNat
<1> QED
  BY <1>2, <1>3, <1>4 DEF ChainInv

LEMMA HandlerDispatches ==
    ASSUME DispatchInv, CallHandler
    PROVE  DispatchInv'
<1> DEFINE does == Handler[call.command]
           w == Chain(call.inv.target)
<1>1. /\ call # None
      /\ call = [inv |-> call.inv, command |-> call.command, depth |-> call.depth,
                 source |-> call.source]
      /\ call.depth \in 0..MaxRefDepth /\ w[call.depth] = does
      /\ \A k \in 0..(call.depth - 1) : w[k] \in Commands
  BY DEF DispatchInv, ChainInv, CallHandler
<1>2. /\ Commands \cap {"success", "console", "batch", "error"} = {}
      /\ None \notin Successes /\ None \notin Commands /\ MaxRefDepth \in Nat
  BY CliAssumption, RefDepthIsNat DEF Successes, Nodes
<1>3. /\ \A n \in 1..MaxRefDepth : w[n] = Following(w[n - 1])
      /\ does \notin Commands => \A n \in (call.depth + 1)..MaxRefDepth : w[n] = None
  BY <1>1, ChainSteps, ChainEnds
<1> HIDE DEF w
<1>4. ASSUME NEW status, Finish(status), status = "run" <=> \E n \in 0..MaxRefDepth : w[n] \in Successes
      PROVE  DispatchInv'
  <2>1. call' = None /\ outcome' = [target |-> call.inv.target, status |-> status]
    BY <1>4 DEF Finish
  <2>2. outcome'.target = call.inv.target /\ outcome'.status = status
    BY <2>1
  <2>3. Chain(outcome'.target) = w
    BY <2>2 DEF w
  <2>4. DispatchOutcome'
    BY <1>4, <2>2, <2>3 DEF DispatchOutcome, Successes
  <2> QED
    BY <2>1, <2>4 DEF DispatchInv, ChainInv
<1>5. CASE (does = None \/ does = "error") /\ Finish("error")
  <2>1. does \notin Commands /\ does \notin Successes
    BY <1>2, <1>5 DEF Successes
  <2>2. ASSUME NEW n \in 0..MaxRefDepth PROVE w[n] \notin Successes
    <3>1. CASE n < call.depth
      <4>1. n \in 0..(call.depth - 1)
        BY <1>1, <3>1
      <4> QED
        BY <1>1, <1>2, <4>1 DEF Successes
    <3>2. CASE n = call.depth
      BY <1>1, <2>1, <3>2
    <3>3. CASE n > call.depth
      <4>1. n \in (call.depth + 1)..MaxRefDepth
        BY <1>1, <1>2, <3>3
      <4> QED
        BY <1>2, <1>3, <2>1, <4>1
    <3> QED
      BY <1>1, <3>1, <3>2, <3>3
  <2>3. "error" # "run"
    OBVIOUS
  <2> QED
    BY <1>4, <1>5, <2>2, <2>3
<1>6. CASE does \in Successes /\ Finish("run")
  BY <1>1, <1>4, <1>6
<1>7. CASE does \in Commands /\ DepthReached /\ Finish("error")
  <2>1. call.depth = MaxRefDepth
    BY <1>1, <1>2, <1>7 DEF DepthReached
  <2>2. ASSUME NEW n \in 0..MaxRefDepth PROVE w[n] \in Commands
    <3>1. n \in 0..(call.depth - 1) \/ n = call.depth
      BY <1>2, <2>1
    <3> QED
      BY <1>1, <1>7, <3>1
  <2>3. \A n \in 0..MaxRefDepth : w[n] \notin Successes
    BY <1>2, <2>2 DEF Successes
  <2>4. "error" # "run"
    OBVIOUS
  <2> QED
    BY <1>4, <1>7, <2>3, <2>4
<1>8. CASE /\ does \in Commands /\ ~DepthReached
           /\ call' = [call EXCEPT !.command = does, !.depth = @ + 1]
           /\ UNCHANGED outcome
  <2>1. call.depth + 1 \in 1..MaxRefDepth
    BY <1>1, <1>2, <1>8 DEF DepthReached
  <2>2. w[call.depth + 1] = Handler[does]
    <3>1. w[call.depth + 1] = Following(w[(call.depth + 1) - 1])
      BY <1>3, <2>1
    <3>2. (call.depth + 1) - 1 = call.depth
      BY <1>1
    <3> QED
      BY <1>1, <1>8, <3>1, <3>2 DEF Following
  <2>3. PICK i, d, s, e : i = call.inv /\ d = call.depth /\ s = call.source /\ e = does
    OBVIOUS
  <2>4. call' = [inv |-> i, command |-> e, depth |-> d + 1, source |-> s]
    BY <1>1, <1>8, <2>3
  <2>5. /\ call'.inv = call.inv
        /\ call'.command = does
        /\ call'.depth = call.depth + 1
        /\ call'.source = s
    BY <2>3, <2>4
  <2>6. call' = [inv |-> call'.inv, command |-> call'.command, depth |-> call'.depth,
                 source |-> call'.source]
    BY <2>3, <2>4, <2>5
  <2>7. Chain(call'.inv.target) = w
    BY <2>5 DEF w
  <2>8. \A k \in 0..(call'.depth - 1) : w[k] \in Commands
    <3>1. call'.depth - 1 = call.depth
      BY <1>1, <2>5
    <3>2. \A k \in 0..call.depth : k \in 0..(call.depth - 1) \/ k = call.depth
      BY <1>1
    <3> QED
      BY <1>1, <1>8, <3>1, <3>2
  <2>9. call'.depth \in 0..MaxRefDepth
    BY <2>1, <2>5
  <2>10. w[call'.depth] = Handler[call'.command]
    BY <2>2, <2>5
  <2>11. ChainInv'
    BY <2>6, <2>7, <2>8, <2>9, <2>10 DEF ChainInv
  <2>12. DispatchOutcome'
    BY <1>8 DEF DispatchInv, DispatchOutcome
  <2> QED
    BY <2>11, <2>12 DEF DispatchInv
<1> QED
  BY <1>5, <1>6, <1>7, <1>8 DEF CallHandler, Successes

\* A dispatch succeeds exactly when the chain of aliases from its target reaches a handler
\* that does, within the depth allowed; the dispatch in progress is somewhere along that
\* chain (command.c:302-359).
THEOREM DispatchFollowsAliases == Spec => []DispatchOutcome
<1>1. Init => DispatchInv
  BY DEF Init, DispatchInv, ChainInv, DispatchOutcome
<1>2. DispatchInv /\ [Next]_vars => DispatchInv'
  <2> SUFFICES ASSUME DispatchInv, [Next]_vars PROVE DispatchInv'
    OBVIOUS
  <2>1. ASSUME UNCHANGED <<call, outcome>> PROVE DispatchInv'
    <3>1. ChainInv'
      BY <2>1 DEF DispatchInv, ChainInv
    <3>2. DispatchOutcome'
      BY <2>1 DEF DispatchInv, DispatchOutcome
    <3> QED
      BY <3>1, <3>2 DEF DispatchInv
  <2>2. ASSUME NEW inv, NEW from, call' = Dispatching(inv, from), UNCHANGED outcome
        PROVE  DispatchInv'
    <3>1. ChainInv'
      BY <2>2, StartsAtTarget
    <3>2. DispatchOutcome'
      BY <2>2 DEF DispatchInv, DispatchOutcome
    <3> QED
      BY <3>1, <3>2 DEF DispatchInv
  <2>3. CASE Launched
    BY <2>1, <2>3 DEF Launched
  <2>4. CASE CliLaunch
    BY <2>2, <2>4 DEF CliLaunch, ghosts
  <2>5. CASE CliLine
    <3>1. UNCHANGED outcome /\ (UNCHANGED call \/ \E inv : call' = Dispatching(inv, "line"))
      BY <2>5, Zenon DEF CliLine
    <3> QED
      BY <2>1, <2>2, <3>1
  <2>6. CASE CliNothing
    BY <2>1, <2>6 DEF CliNothing, ghosts
  <2>7. CASE CallHandler
    BY <2>7, HandlerDispatches
  <2>8. CASE FeederTask
    BY <2>1, <2>8 DEF FeederTask
  <2>9. CASE NextPass
    BY <2>1, <2>9 DEF NextPass, ghosts
  <2>10. CASE UNCHANGED vars
    BY <2>1, <2>10 DEF vars, ghosts
  <2> QED
    BY <2>3, <2>4, <2>5, <2>6, <2>7, <2>8, <2>9, <2>10
       DEF Next, Launch, LaunchBaked, LaunchBare, CliTask, Ended
<1>3. DispatchInv => DispatchOutcome
  BY DEF DispatchInv
<1> QED
  BY <1>1, <1>2, <1>3, PTL DEF Spec

-----------------------------------------------------------------------------
(* The parser, token by token.  A parse under way is a record that every   *)
(* token updates; these lemmas say to what.                                *)

\* Truth values that the provers pass on as they are.
Yes == TRUE
No == FALSE

\* An invocation and a parse under way, field by field.
Invocation(target, options, args) == [target |-> target, option |-> options, arg |-> args]
Slot(option, value) == [option |-> option, value |-> value]
Parsing(context, inv, binding, waiting, failure) ==
    [context |-> context, inv |-> inv, binding |-> binding, waiting |-> waiting,
     failed |-> failure]

LEMMA SetTarget ==
    ASSUME NEW t, NEW o, NEW a, NEW v, NEW i, i = Invocation(t, o, a)
    PROVE  [i EXCEPT !.target = v] = Invocation(v, o, a)
<1>1. PICK q : q = [i EXCEPT !.target = v]
  OBVIOUS
<1>2. q = Invocation(v, o, a)
  BY <1>1 DEF Invocation
<1> QED
  BY <1>1, <1>2

LEMMA SetOptions ==
    ASSUME NEW t, NEW o, NEW a, NEW v, NEW i, i = Invocation(t, o, a)
    PROVE  [i EXCEPT !.option = v] = Invocation(t, v, a)
<1>1. PICK q : q = [i EXCEPT !.option = v]
  OBVIOUS
<1>2. q = Invocation(t, v, a)
  BY <1>1 DEF Invocation
<1> QED
  BY <1>1, <1>2

LEMMA SetArgs ==
    ASSUME NEW t, NEW o, NEW a, NEW v, NEW i, i = Invocation(t, o, a)
    PROVE  [i EXCEPT !.arg = v] = Invocation(t, o, v)
<1>1. PICK q : q = [i EXCEPT !.arg = v]
  OBVIOUS
<1>2. q = Invocation(t, o, v)
  BY <1>1 DEF Invocation
<1> QED
  BY <1>1, <1>2

LEMMA InvocationFields ==
    ASSUME NEW t, NEW o, NEW a, NEW i, i = Invocation(t, o, a)
    PROVE  i.target = t /\ i.option = o /\ i.arg = a
  BY DEF Invocation

LEMMA SetContext ==
    ASSUME NEW c, NEW i, NEW b, NEW w, NEW f, NEW v, NEW p, p = Parsing(c, i, b, w, f)
    PROVE  [p EXCEPT !.context = v] = Parsing(v, i, b, w, f)
<1>1. PICK q : q = [p EXCEPT !.context = v]
  OBVIOUS
<1>2. q = Parsing(v, i, b, w, f)
  BY <1>1 DEF Parsing
<1> QED
  BY <1>1, <1>2

LEMMA SetInv ==
    ASSUME NEW c, NEW i, NEW b, NEW w, NEW f, NEW v, NEW p, p = Parsing(c, i, b, w, f)
    PROVE  [p EXCEPT !.inv = v] = Parsing(c, v, b, w, f)
<1>1. PICK q : q = [p EXCEPT !.inv = v]
  OBVIOUS
<1>2. q = Parsing(c, v, b, w, f)
  BY <1>1 DEF Parsing
<1> QED
  BY <1>1, <1>2

LEMMA StartsBinding ==
    ASSUME NEW c, NEW i, NEW b, NEW w, NEW f, NEW p, p = Parsing(c, i, b, w, f)
    PROVE  [p EXCEPT !.binding = TRUE] = Parsing(c, i, Yes, w, f)
<1>1. PICK q : q = [p EXCEPT !.binding = TRUE]
  OBVIOUS
<1>2. q = Parsing(c, i, Yes, w, f)
  BY <1>1 DEF Parsing, Yes
<1> QED
  BY <1>1, <1>2

LEMMA SetWaiting ==
    ASSUME NEW c, NEW i, NEW b, NEW w, NEW f, NEW v, NEW p, p = Parsing(c, i, b, w, f)
    PROVE  [p EXCEPT !.waiting = v] = Parsing(c, i, b, v, f)
<1>1. PICK q : q = [p EXCEPT !.waiting = v]
  OBVIOUS
<1>2. q = Parsing(c, i, b, v, f)
  BY <1>1 DEF Parsing
<1> QED
  BY <1>1, <1>2

LEMMA Fails ==
    ASSUME NEW c, NEW i, NEW b, NEW w, NEW f, NEW p, p = Parsing(c, i, b, w, f)
    PROVE  [p EXCEPT !.failed = TRUE] = Parsing(c, i, b, w, Yes)
<1>1. PICK q : q = [p EXCEPT !.failed = TRUE]
  OBVIOUS
<1>2. q = Parsing(c, i, b, w, Yes)
  BY <1>1 DEF Parsing, Yes
<1> QED
  BY <1>1, <1>2

LEMMA ParsingFields ==
    ASSUME NEW c, NEW i, NEW b, NEW w, NEW f, NEW p, p = Parsing(c, i, b, w, f)
    PROVE  p.context = c /\ p.inv = i /\ p.binding = b /\ p.waiting = w /\ p.failed = f
  BY DEF Parsing

LEMMA FailedStays ==
    ASSUME NEW p, NEW token, NEW stray, p.failed = TRUE
    PROVE  ParseToken(p, token, stray) = p
  BY DEF ParseToken

\* A word that names a subcommand.
LEMMA WordNames ==
    ASSUME NEW c, NEW t, NEW o, NEW a, NEW token, token.kind = "word",
           Find(c, token.text) # None, NEW stray,
           NEW p, p = Parsing(c, Invocation(t, o, a), No, 0, No)
    PROVE  ParseToken(p, token, stray)
             = Parsing(Find(c, token.text), Invocation(Find(c, token.text), o, a), No, 0, No)
<1>1. PICK next : next = Find(c, token.text)
  OBVIOUS
<1>2. /\ p.context = c /\ p.binding = No /\ p.failed = No
      /\ p.inv = Invocation(t, o, a)
  BY ParsingFields
<1>3. ParseToken(p, token, stray) = [p EXCEPT !.context = next, !.inv.target = next]
  BY <1>1, <1>2 DEF ParseToken, ParseWord, No
<1>4. [p EXCEPT !.context = next, !.inv.target = next]
        = [[p EXCEPT !.context = next] EXCEPT !.inv = [p.inv EXCEPT !.target = next]]
  OBVIOUS
<1>5. PICK q, i : q = [p EXCEPT !.context = next] /\ i = [p.inv EXCEPT !.target = next]
  OBVIOUS
<1>6. i = Invocation(next, o, a)
  BY <1>2, <1>5, SetTarget
<1>7. q = Parsing(next, Invocation(t, o, a), No, 0, No)
  BY <1>5, SetContext
<1>8. [q EXCEPT !.inv = i] = Parsing(next, i, No, 0, No)
  BY <1>7, SetInv
<1> QED
  BY <1>1, <1>3, <1>4, <1>5, <1>6, <1>8

\* The first token that is bound fixes the target.
Bind(p) == [p EXCEPT !.binding = TRUE, !.inv.target = IF p.binding THEN @ ELSE p.context]

LEMMA Bound ==
    ASSUME NEW c, NEW t, NEW o, NEW a, NEW b \in {Yes, No}, NEW w, b = Yes => t = c,
           NEW p, p = Parsing(c, Invocation(t, o, a), b, w, No)
    PROVE  Bind(p) = Parsing(c, Invocation(c, o, a), Yes, w, No)
<1>1. p.context = c /\ p.binding = b /\ p.inv = Invocation(t, o, a) /\ p.inv.target = t
  BY ParsingFields, InvocationFields
<1>2. (IF p.binding THEN p.inv.target ELSE p.context) = c
  BY <1>1 DEF Yes, No
<1>3. Bind(p) = [[p EXCEPT !.binding = TRUE] EXCEPT !.inv = [p.inv EXCEPT !.target = c]]
  BY <1>2 DEF Bind
<1>5. PICK q, i : q = [p EXCEPT !.binding = TRUE] /\ i = [p.inv EXCEPT !.target = c]
  OBVIOUS
<1>6. i = Invocation(c, o, a)
  BY <1>1, <1>5, SetTarget
<1>7. q = Parsing(c, Invocation(t, o, a), Yes, w, No)
  BY <1>5, StartsBinding
<1>8. [q EXCEPT !.inv = i] = Parsing(c, i, Yes, w, No)
  BY <1>7, SetInv
<1> QED
  BY <1>3, <1>5, <1>6, <1>8

\* What becomes of a word that is an argument.
Argued(c, o, a, token, r) ==
    IF Len(a) >= MaxArgs THEN r = Parsing(c, Invocation(c, o, a), Yes, 0, Yes)
    ELSE r = Parsing(c, Invocation(c, o, Append(a, token.text)), Yes, 0, No)

LEMMA WordIsArgument ==
    ASSUME NEW c, NEW t, NEW o, NEW a, NEW b \in {Yes, No}, b = Yes => t = c,
           NEW token, token.kind = "word", b = Yes \/ Find(c, token.text) = None, NEW stray,
           NEW p, p = Parsing(c, Invocation(t, o, a), b, 0, No)
    PROVE  Argued(c, o, a, token, ParseToken(p, token, stray))
<1>1. PICK q : q = Bind(p)
  OBVIOUS
<1>2. q = Parsing(c, Invocation(c, o, a), Yes, 0, No)
  BY <1>1, Bound
<1>3. /\ q.waiting = 0 /\ q.inv = Invocation(c, o, a) /\ q.inv.arg = a
      /\ p.context = c /\ p.binding = b /\ p.failed = No
  BY <1>2, ParsingFields, InvocationFields
<1>7. ParseToken(p, token, stray) = ParseWord(p, token)
  BY <1>3 DEF ParseToken, No
<1>8. (IF p.binding THEN None ELSE Find(p.context, token.text)) = None
  BY <1>3 DEF Yes, No
<1>9. ParseWord(p, token)
        = IF (IF p.binding THEN None ELSE Find(p.context, token.text)) # None
          THEN [p EXCEPT !.context = IF p.binding THEN None ELSE Find(p.context, token.text),
                         !.inv.target = IF p.binding THEN None ELSE Find(p.context, token.text)]
          ELSE IF Bind(p).waiting # 0
          THEN [Bind(p) EXCEPT !.inv.option[Bind(p).waiting].value = token.text, !.waiting = 0]
          ELSE IF Len(Bind(p).inv.arg) >= MaxArgs THEN [Bind(p) EXCEPT !.failed = TRUE]
          ELSE [Bind(p) EXCEPT !.inv.arg = Append(@, token.text)]
  BY DEF ParseWord, Bind
<1>4. ParseToken(p, token, stray)
        = IF Len(a) >= MaxArgs THEN [q EXCEPT !.failed = TRUE]
          ELSE [q EXCEPT !.inv.arg = Append(@, token.text)]
  BY <1>1, <1>3, <1>7, <1>8, <1>9
<1>5. [q EXCEPT !.failed = TRUE] = Parsing(c, Invocation(c, o, a), Yes, 0, Yes)
  BY <1>2, Fails
<1>6. [q EXCEPT !.inv.arg = Append(@, token.text)]
        = Parsing(c, Invocation(c, o, Append(a, token.text)), Yes, 0, No)
  <2>1. PICK v : v = Append(a, token.text)
    OBVIOUS
  <2>0. PICK i : i = [q.inv EXCEPT !.arg = v]
    OBVIOUS
  <2>2. [q EXCEPT !.inv.arg = Append(@, token.text)] = [q EXCEPT !.inv = i]
    BY <1>3, <2>0, <2>1
  <2>3. i = Invocation(c, o, v)
    BY <1>3, <2>0, SetArgs
  <2>4. [q EXCEPT !.inv = i] = Parsing(c, i, Yes, 0, No)
    BY <1>2, SetInv
  <2> QED
    BY <2>0, <2>1, <2>2, <2>3, <2>4
<1> QED
  BY <1>4, <1>5, <1>6 DEF Argued

\* A word that is the value of the option waiting for one.
SetValue(o, w, v) == [o EXCEPT ![w].value = v]

LEMMA WordIsValue ==
    ASSUME NEW c, NEW t, NEW o, NEW a, NEW w, w # 0,
           NEW token, token.kind = "word", NEW stray,
           NEW p, p = Parsing(c, Invocation(c, o, a), Yes, w, No)
    PROVE  ParseToken(p, token, stray)
             = Parsing(c, Invocation(c, SetValue(o, w, token.text), a), Yes, 0, No)
<1>1. PICK q : q = Bind(p)
  OBVIOUS
<1>2. q = Parsing(c, Invocation(c, o, a), Yes, w, No)
  BY <1>1, Bound
<1>3. /\ q.waiting = w /\ q.inv = Invocation(c, o, a) /\ q.inv.option = o
      /\ p.context = c /\ p.binding = Yes /\ p.failed = No
  BY <1>2, ParsingFields, InvocationFields
<1>4. ParseToken(p, token, stray)
        = [q EXCEPT !.inv.option[w].value = token.text, !.waiting = 0]
  BY <1>1, <1>3 DEF ParseToken, ParseWord, Bind, Yes, No
<1>5. PICK v : v = [o EXCEPT ![w].value = token.text]
  OBVIOUS
<1>10. PICK i : i = [q.inv EXCEPT !.option = v]
  OBVIOUS
<1>11. PICK r : r = [q EXCEPT !.inv = i]
  OBVIOUS
<1>6. [q EXCEPT !.inv.option[w].value = token.text, !.waiting = 0] = [r EXCEPT !.waiting = 0]
  BY <1>3, <1>5, <1>10, <1>11
<1>7. i = Invocation(c, v, a)
  BY <1>3, <1>10, SetOptions
<1>8. r = Parsing(c, i, Yes, w, No)
  BY <1>2, <1>11, SetInv
<1>9. [r EXCEPT !.waiting = 0] = Parsing(c, i, Yes, 0, No)
  BY <1>8, SetWaiting
<1> QED
  BY <1>4, <1>5, <1>6, <1>7, <1>9 DEF SetValue

\* An option, and what it adds: its slot, with the value it has or its own name until a word
\* gives it one.
Opted(c, o, a, w, token, opt, r) ==
    IF opt = None THEN r = Parsing(c, Invocation(c, Append(o, Slot(None, None)), a), Yes, w, Yes)
    ELSE r = Parsing(c, Invocation(c, Append(o, Slot(opt, IF token.kind = "equals" THEN token.value
                                                          ELSE IF opt.type = "switch" THEN One
                                                          ELSE token.text)), a),
                     Yes,
                     IF token.kind = "option" /\ opt.type # "switch" THEN Len(o) + 1 ELSE w,
                     No)

\* The name looked up for an option.
NameSeen(token, stray) ==
    IF token.kind = "equals" /\ stray # None THEN stray ELSE token.text

LEMMA OptionBinds ==
    ASSUME NEW c, NEW t, NEW o, NEW a, NEW b \in {Yes, No}, NEW w, b = Yes => t = c,
           NEW token, token.kind \in {"option", "equals"},
           NEW p, p = Parsing(c, Invocation(t, o, a), b, w, No),
           NEW stray, NEW opt, opt = FindOption(c, NameSeen(token, stray))
    PROVE  Opted(c, o, a, w, token, opt, ParseToken(p, token, stray))
<1>1. PICK q : q = Bind(p)
  OBVIOUS
<1>2. q = Parsing(c, Invocation(c, o, a), Yes, w, No)
  BY <1>1, Bound
<1>3. /\ q.inv = Invocation(c, o, a) /\ q.inv.option = o /\ p.inv.option = o
      /\ p.context = c /\ p.binding = b /\ p.failed = No
  BY <1>2, ParsingFields, InvocationFields
<1> DEFINE Set(value) == [q EXCEPT !.inv.option = Append(@, [option |-> opt, value |-> value])]
<1>4. ASSUME NEW value
      PROVE  Set(value)
               = Parsing(c, Invocation(c, Append(o, Slot(opt, value)), a),
                         Yes, w, No)
  <2>1. PICK v : v = Append(o, Slot(opt, value))
    OBVIOUS
  <2>0. PICK i : i = [q.inv EXCEPT !.option = v]
    OBVIOUS
  <2>2. Set(value) = [q EXCEPT !.inv = i]
    BY <1>3, <2>0, <2>1 DEF Slot
  <2>3. i = Invocation(c, v, a)
    BY <1>3, <2>0, SetOptions
  <2>4. [q EXCEPT !.inv = i] = Parsing(c, i, Yes, w, No)
    BY <1>2, SetInv
  <2> QED
    BY <2>0, <2>1, <2>2, <2>3, <2>4
<1>5. ParseToken(p, token, stray)
        = IF opt = None THEN [Set(None) EXCEPT !.failed = TRUE]
          ELSE IF token.kind = "equals" THEN Set(token.value)
          ELSE IF opt.type = "switch" THEN Set(One)
          ELSE [Set(token.text) EXCEPT !.waiting = Len(o) + 1]
  <2> DEFINE sees == FindOption(p.context, IF token.kind = "equals" /\ stray # None THEN stray
                                           ELSE token.text)
             Adds(value) == [Bind(p) EXCEPT !.inv.option
                               = Append(@, [option |-> sees, value |-> value])]
  <2>1. ParseToken(p, token, stray) = ParseOption(p, token, stray)
    BY <1>3 DEF ParseToken, No
  <2>2. ParseOption(p, token, stray)
          = IF sees = None THEN [Adds(None) EXCEPT !.failed = TRUE]
            ELSE IF token.kind = "equals" THEN Adds(token.value)
            ELSE IF sees.type = "switch" THEN Adds(One)
            ELSE [Adds(token.text) EXCEPT !.waiting = Len(p.inv.option) + 1]
    BY DEF ParseOption, Bind
  <2>3. sees = opt
    BY <1>3 DEF NameSeen
  <2> HIDE DEF sees
  <2>4. ASSUME NEW value PROVE Adds(value) = Set(value)
    BY <1>1, <2>3
  <2> HIDE DEF Adds, Set
  <2> QED
    BY <1>3, <2>1, <2>2, <2>3, <2>4
<1>6. CASE opt = None
  <2>1. PICK r : r = Set(None)
    OBVIOUS
  <2>2. ParseToken(p, token, stray) = [r EXCEPT !.failed = TRUE]
    BY <1>5, <1>6, <2>1
  <2> HIDE DEF Set
  <2>3. r = Parsing(c, Invocation(c, Append(o, Slot(None, None)), a), Yes, w, No)
    BY <1>4, <1>6, <2>1
  <2>4. [r EXCEPT !.failed = TRUE]
          = Parsing(c, Invocation(c, Append(o, Slot(None, None)), a), Yes, w, Yes)
    BY <2>3, Fails
  <2> QED
    BY <1>6, <2>2, <2>4 DEF Opted
<1>7. CASE opt # None /\ token.kind = "equals"
  <2>1. ParseToken(p, token, stray) = Set(token.value)
    BY <1>5, <1>7
  <2> HIDE DEF Set
  <2> QED
    BY <1>4, <1>7, <2>1 DEF Opted
<1>8. CASE opt # None /\ token.kind = "option" /\ opt.type = "switch"
  <2>1. ParseToken(p, token, stray) = Set(One)
    BY <1>5, <1>8
  <2> HIDE DEF Set
  <2> QED
    BY <1>4, <1>8, <2>1 DEF Opted
<1>9. CASE opt # None /\ token.kind = "option" /\ opt.type # "switch"
  <2>1. PICK r : r = Set(token.text)
    OBVIOUS
  <2>2. ParseToken(p, token, stray) = [r EXCEPT !.waiting = Len(o) + 1]
    BY <1>5, <1>9, <2>1
  <2> HIDE DEF Set
  <2>3. r = Parsing(c, Invocation(c, Append(o, Slot(opt, token.text)), a),
                    Yes, w, No)
    BY <1>4, <2>1
  <2>4. [r EXCEPT !.waiting = Len(o) + 1]
          = Parsing(c, Invocation(c, Append(o, Slot(opt, token.text)), a),
                    Yes, Len(o) + 1, No)
    BY <2>3, SetWaiting
  <2> QED
    BY <1>9, <2>2, <2>4 DEF Opted
<1> QED
  BY <1>6, <1>7, <1>8, <1>9

-----------------------------------------------------------------------------
(* The recursive functions of the parser and of the reading it is compared *)
(* with: each exists, and unfolds.                                         *)

IsParsed(from, ts, inv, stray, w, m) ==
    w = [n \in 0 .. m |->
           IF n = 0 THEN [context |-> from, inv |-> inv, binding |-> FALSE, waiting |-> 0,
                          failed |-> FALSE]
           ELSE ParseToken(w[n - 1], ts[n], stray)]

LEMMA ParsedExists ==
    ASSUME NEW from, NEW ts, NEW inv, NEW stray, NEW m \in Nat
    PROVE  \E w : IsParsed(from, ts, inv, stray, w, m)
<1> DEFINE T == {n \in Nat : ~ \E w : IsParsed(from, ts, inv, stray, w, n)}
           B(x, k) == IF k = 0
                      THEN [context |-> from, inv |-> inv, binding |-> FALSE, waiting |-> 0,
                            failed |-> FALSE]
                      ELSE ParseToken(x[k - 1], ts[k], stray)
<1> SUFFICES ASSUME T # {} PROVE FALSE
  OBVIOUS
<1>1. PICK n \in T : \A k \in T : n <= k
  BY LeastElement
<1>2. CASE n = 0
  <2>1. PICK w :
          w = [k \in 0 .. 0 |->
                 [context |-> from, inv |-> inv, binding |-> FALSE, waiting |-> 0,
                            failed |-> FALSE]]
    OBVIOUS
  <2>2. w = [k \in 0 .. 0 |-> B(w, k)]
    BY <2>1
  <2>3. IsParsed(from, ts, inv, stray, w, 0)
    BY <2>2 DEF IsParsed
  <2> QED
    BY <1>2, <2>3
<1>3. CASE n # 0
  <2>1. n - 1 \in Nat /\ n - 1 \notin T
    BY <1>1, <1>3
  <2>2. PICK v : IsParsed(from, ts, inv, stray, v, n - 1)
    BY <2>1
  <2> DEFINE top == n - 1
             w == [k \in 0 .. n |-> IF k = n THEN B(v, n) ELSE v[k]]
  <2>3. \A k \in 0 .. top : v[k] = B(v, k)
    <3>1. v = [k \in 0 .. top |-> B(v, k)]
      BY <2>2 DEF IsParsed
    <3> HIDE DEF B, top
    <3> QED
      BY <3>1
  <2>4. top \in Nat /\ n = top + 1
    BY <2>1
  <2>5. /\ w = [k \in 0 .. n |-> w[k]] /\ w[n] = B(v, n)
        /\ \A k \in 0 .. top : w[k] = v[k]
    <3> HIDE DEF B
    <3> QED
      BY <2>4
  <2> HIDE DEF w, top
  <2>6. ASSUME NEW k \in 0 .. n PROVE w[k] = B(w, k)
    <3>1. CASE k = 0
      <4>1. 0 \in 0 .. top
        BY <2>4
      <4>2. w[0] = v[0] /\ v[0] = B(v, 0)
        BY <2>3, <2>5, <4>1
      <4> QED
        BY <3>1, <4>2
    <3>2. CASE k \in 1 .. top
      <4>1. k - 1 \in 0 .. top /\ k \in 0 .. top /\ k # 0
        BY <2>4, <3>2
      <4>2. w[k] = v[k] /\ v[k] = B(v, k) /\ w[k - 1] = v[k - 1]
        BY <2>3, <2>5, <4>1
      <4> QED
        BY <4>1, <4>2
    <3>3. CASE k = n
      <4>1. k - 1 = top /\ top \in 0 .. top /\ k # 0
        BY <2>4, <3>3
      <4>2. w[k - 1] = v[k - 1] /\ w[k] = B(v, k)
        BY <2>5, <3>3, <4>1
      <4> QED
        BY <4>1, <4>2
    <3> QED
      BY <2>4, <3>1, <3>2, <3>3
  <2>7. w = [k \in 0 .. n |-> B(w, k)]
    <3> HIDE DEF B
    <3> QED
      BY <2>5, <2>6
  <2>8. IsParsed(from, ts, inv, stray, w, n)
    BY <2>7 DEF IsParsed
  <2> QED
    BY <2>8
<1> QED
  BY <1>2, <1>3

LEMMA ParsedIsParsed ==
    ASSUME NEW from, NEW ts, NEW inv, NEW stray, \E w : IsParsed(from, ts, inv, stray, w, Len(ts))
    PROVE  IsParsed(from, ts, inv, stray, Parsed(from, ts, inv, stray), Len(ts))
  BY Zenon DEF IsParsed, Parsed

LEMMA ParsedSteps ==
    ASSUME NEW from, NEW ts, NEW inv, NEW stray, Len(ts) \in Nat
    PROVE  /\ Parsed(from, ts, inv, stray)[0] = Parsing(from, inv, No, 0, No)
           /\ \A k \in 1 .. Len(ts) :
                Parsed(from, ts, inv, stray)[k]
                  = ParseToken(Parsed(from, ts, inv, stray)[k - 1], ts[k], stray)
<1>1. PICK w : w = Parsed(from, ts, inv, stray)
  OBVIOUS
<1>2. IsParsed(from, ts, inv, stray, w, Len(ts))
  BY <1>1, ParsedExists, ParsedIsParsed
<1> DEFINE B(k) == IF k = 0
                   THEN [context |-> from, inv |-> inv, binding |-> FALSE, waiting |-> 0,
                            failed |-> FALSE]
                   ELSE ParseToken(w[k - 1], ts[k], stray)
<1>3. w = [k \in 0 .. Len(ts) |-> B(k)]
  BY <1>2 DEF IsParsed
<1> HIDE DEF B
<1>4. \A k \in 0 .. Len(ts) : w[k] = B(k)
  BY <1>3
<1>5. w[0] = B(0) /\ \A k \in 1 .. Len(ts) : w[k] = B(k) /\ k # 0
  BY <1>4
<1> USE DEF B
<1> QED
  BY <1>1, <1>5 DEF Parsing, No

IsWalk(from, ts, w, m) ==
    w = [n \in 0 .. m |->
           IF n = 0 THEN from
           ELSE IF w[n - 1] # None /\ ts[n].kind = "word" THEN Find(w[n - 1], ts[n].text)
           ELSE None]

LEMMA WalkExists ==
    ASSUME NEW from, NEW ts, NEW m \in Nat
    PROVE  \E w : IsWalk(from, ts, w, m)
<1> DEFINE T == {n \in Nat : ~ \E w : IsWalk(from, ts, w, n)}
           B(x, k) == IF k = 0
                      THEN from
                      ELSE IF x[k - 1] # None /\ ts[k].kind = "word" THEN Find(x[k - 1], ts[k].text)
                      ELSE None
<1> SUFFICES ASSUME T # {} PROVE FALSE
  OBVIOUS
<1>1. PICK n \in T : \A k \in T : n <= k
  BY LeastElement
<1>2. CASE n = 0
  <2>1. PICK w :
          w = [k \in 0 .. 0 |->
                 from]
    OBVIOUS
  <2>2. w = [k \in 0 .. 0 |-> B(w, k)]
    BY <2>1
  <2>3. IsWalk(from, ts, w, 0)
    BY <2>2 DEF IsWalk
  <2> QED
    BY <1>2, <2>3
<1>3. CASE n # 0
  <2>1. n - 1 \in Nat /\ n - 1 \notin T
    BY <1>1, <1>3
  <2>2. PICK v : IsWalk(from, ts, v, n - 1)
    BY <2>1
  <2> DEFINE top == n - 1
             w == [k \in 0 .. n |-> IF k = n THEN B(v, n) ELSE v[k]]
  <2>3. \A k \in 0 .. top : v[k] = B(v, k)
    <3>1. v = [k \in 0 .. top |-> B(v, k)]
      BY <2>2 DEF IsWalk
    <3> HIDE DEF B, top
    <3> QED
      BY <3>1
  <2>4. top \in Nat /\ n = top + 1
    BY <2>1
  <2>5. /\ w = [k \in 0 .. n |-> w[k]] /\ w[n] = B(v, n)
        /\ \A k \in 0 .. top : w[k] = v[k]
    <3> HIDE DEF B
    <3> QED
      BY <2>4
  <2> HIDE DEF w, top
  <2>6. ASSUME NEW k \in 0 .. n PROVE w[k] = B(w, k)
    <3>1. CASE k = 0
      <4>1. 0 \in 0 .. top
        BY <2>4
      <4>2. w[0] = v[0] /\ v[0] = B(v, 0)
        BY <2>3, <2>5, <4>1
      <4> QED
        BY <3>1, <4>2
    <3>2. CASE k \in 1 .. top
      <4>1. k - 1 \in 0 .. top /\ k \in 0 .. top /\ k # 0
        BY <2>4, <3>2
      <4>2. w[k] = v[k] /\ v[k] = B(v, k) /\ w[k - 1] = v[k - 1]
        BY <2>3, <2>5, <4>1
      <4> QED
        BY <4>1, <4>2
    <3>3. CASE k = n
      <4>1. k - 1 = top /\ top \in 0 .. top /\ k # 0
        BY <2>4, <3>3
      <4>2. w[k - 1] = v[k - 1] /\ w[k] = B(v, k)
        BY <2>5, <3>3, <4>1
      <4> QED
        BY <4>1, <4>2
    <3> QED
      BY <2>4, <3>1, <3>2, <3>3
  <2>7. w = [k \in 0 .. n |-> B(w, k)]
    <3> HIDE DEF B
    <3> QED
      BY <2>5, <2>6
  <2>8. IsWalk(from, ts, w, n)
    BY <2>7 DEF IsWalk
  <2> QED
    BY <2>8
<1> QED
  BY <1>2, <1>3

LEMMA WalkIsWalk ==
    ASSUME NEW from, NEW ts, \E w : IsWalk(from, ts, w, Len(ts))
    PROVE  IsWalk(from, ts, Walk(from, ts), Len(ts))
  BY Zenon DEF IsWalk, Walk

LEMMA WalkSteps ==
    ASSUME NEW from, NEW ts, Len(ts) \in Nat
    PROVE  /\ Walk(from, ts)[0] = from
           /\ \A k \in 1 .. Len(ts) :
                Walk(from, ts)[k]
                  = IF Walk(from, ts)[k - 1] # None /\ ts[k].kind = "word"
                    THEN Find(Walk(from, ts)[k - 1], ts[k].text) ELSE None
<1>1. PICK w : w = Walk(from, ts)
  OBVIOUS
<1>2. IsWalk(from, ts, w, Len(ts))
  BY <1>1, WalkExists, WalkIsWalk
<1> DEFINE B(k) == IF k = 0
                   THEN from
                   ELSE IF w[k - 1] # None /\ ts[k].kind = "word" THEN Find(w[k - 1], ts[k].text)
                      ELSE None
<1>3. w = [k \in 0 .. Len(ts) |-> B(k)]
  BY <1>2 DEF IsWalk
<1> HIDE DEF B
<1>4. \A k \in 0 .. Len(ts) : w[k] = B(k)
  BY <1>3
<1>5. w[0] = B(0) /\ \A k \in 1 .. Len(ts) : w[k] = B(k) /\ k # 0
  BY <1>4
<1> USE DEF B
<1> QED
  BY <1>1, <1>5

IsInOrder(S, w, m) ==
    w = [k \in 0 .. m |->
           IF k = 0 THEN << >> ELSE IF k \in S THEN Append(w[k - 1], k) ELSE w[k - 1]]

LEMMA InOrderExists ==
    ASSUME NEW S, NEW m \in Nat
    PROVE  \E w : IsInOrder(S, w, m)
<1> DEFINE T == {n \in Nat : ~ \E w : IsInOrder(S, w, n)}
           B(x, k) == IF k = 0
                      THEN << >>
                      ELSE IF k \in S THEN Append(x[k - 1], k) ELSE x[k - 1]
<1> SUFFICES ASSUME T # {} PROVE FALSE
  OBVIOUS
<1>1. PICK n \in T : \A k \in T : n <= k
  BY LeastElement
<1>2. CASE n = 0
  <2>1. PICK w :
          w = [k \in 0 .. 0 |->
                 << >>]
    OBVIOUS
  <2>2. w = [k \in 0 .. 0 |-> B(w, k)]
    BY <2>1
  <2>3. IsInOrder(S, w, 0)
    BY <2>2 DEF IsInOrder
  <2> QED
    BY <1>2, <2>3
<1>3. CASE n # 0
  <2>1. n - 1 \in Nat /\ n - 1 \notin T
    BY <1>1, <1>3
  <2>2. PICK v : IsInOrder(S, v, n - 1)
    BY <2>1
  <2> DEFINE top == n - 1
             w == [k \in 0 .. n |-> IF k = n THEN B(v, n) ELSE v[k]]
  <2>3. \A k \in 0 .. top : v[k] = B(v, k)
    <3>1. v = [k \in 0 .. top |-> B(v, k)]
      BY <2>2 DEF IsInOrder
    <3> HIDE DEF B, top
    <3> QED
      BY <3>1
  <2>4. top \in Nat /\ n = top + 1
    BY <2>1
  <2>5. /\ w = [k \in 0 .. n |-> w[k]] /\ w[n] = B(v, n)
        /\ \A k \in 0 .. top : w[k] = v[k]
    <3> HIDE DEF B
    <3> QED
      BY <2>4
  <2> HIDE DEF w, top
  <2>6. ASSUME NEW k \in 0 .. n PROVE w[k] = B(w, k)
    <3>1. CASE k = 0
      <4>1. 0 \in 0 .. top
        BY <2>4
      <4>2. w[0] = v[0] /\ v[0] = B(v, 0)
        BY <2>3, <2>5, <4>1
      <4> QED
        BY <3>1, <4>2
    <3>2. CASE k \in 1 .. top
      <4>1. k - 1 \in 0 .. top /\ k \in 0 .. top /\ k # 0
        BY <2>4, <3>2
      <4>2. w[k] = v[k] /\ v[k] = B(v, k) /\ w[k - 1] = v[k - 1]
        BY <2>3, <2>5, <4>1
      <4> QED
        BY <4>1, <4>2
    <3>3. CASE k = n
      <4>1. k - 1 = top /\ top \in 0 .. top /\ k # 0
        BY <2>4, <3>3
      <4>2. w[k - 1] = v[k - 1] /\ w[k] = B(v, k)
        BY <2>5, <3>3, <4>1
      <4> QED
        BY <4>1, <4>2
    <3> QED
      BY <2>4, <3>1, <3>2, <3>3
  <2>7. w = [k \in 0 .. n |-> B(w, k)]
    <3> HIDE DEF B
    <3> QED
      BY <2>5, <2>6
  <2>8. IsInOrder(S, w, n)
    BY <2>7 DEF IsInOrder
  <2> QED
    BY <2>8
<1> QED
  BY <1>2, <1>3

LEMMA InOrderIsInOrder ==
    ASSUME NEW S, NEW n, \E w : IsInOrder(S, w, n)
    PROVE  IsInOrder(S, InOrder(S, n), n)
  BY Zenon DEF IsInOrder, InOrder

LEMMA InOrderSteps ==
    ASSUME NEW S, NEW n, n \in Nat
    PROVE  /\ InOrder(S, n)[0] = << >>
           /\ \A k \in 1 .. n :
                InOrder(S, n)[k]
                  = IF k \in S THEN Append(InOrder(S, n)[k - 1], k)
                    ELSE InOrder(S, n)[k - 1]
<1>1. PICK w : w = InOrder(S, n)
  OBVIOUS
<1>2. IsInOrder(S, w, n)
  BY <1>1, InOrderExists, InOrderIsInOrder
<1> DEFINE B(k) == IF k = 0
                   THEN << >>
                   ELSE IF k \in S THEN Append(w[k - 1], k) ELSE w[k - 1]
<1>3. w = [k \in 0 .. n |-> B(k)]
  BY <1>2 DEF IsInOrder
<1> HIDE DEF B
<1>4. \A k \in 0 .. n : w[k] = B(k)
  BY <1>3
<1>5. w[0] = B(0) /\ \A k \in 1 .. n : w[k] = B(k) /\ k # 0
  BY <1>4
<1> USE DEF B
<1> QED
  BY <1>1, <1>5

-----------------------------------------------------------------------------
(* The places picked from a line, and what is read there.                  *)

\* The places picked stand in order, each once.
Ordered(S, k, s) ==
    /\ s \in Seq(Nat)
    /\ \A x \in 1 .. Len(s) : s[x] \in S /\ s[x] \in 1 .. k
    /\ \A x, y \in 1 .. Len(s) : x < y => s[x] < s[y]

LEMMA InOrderOrdered ==
    ASSUME NEW S, NEW n \in Nat
    PROVE  \A k \in 0 .. n : Ordered(S, k, InOrder(S, n)[k])
<1> DEFINE w == InOrder(S, n)
           T == {k \in 0 .. n : ~ Ordered(S, k, w[k])}
<1> SUFFICES ASSUME T # {} PROVE FALSE
  OBVIOUS
<1>1. /\ w[0] = << >>
      /\ \A k \in 1 .. n : w[k] = IF k \in S THEN Append(w[k - 1], k) ELSE w[k - 1]
  BY InOrderSteps
<1> HIDE DEF w
<1>2. T \subseteq Nat
  OBVIOUS
<1>3. PICK k \in T : \A j \in T : k <= j
  BY <1>2, LeastElement
<1>4. CASE k = 0
  <2>1. << >> \in Seq(Nat) /\ Len(<< >>) = 0 /\ 1 .. 0 = {}
    OBVIOUS
  <2>2. Ordered(S, 0, << >>)
    BY <2>1 DEF Ordered
  <2> QED
    BY <1>1, <1>3, <1>4, <2>2
<1>5. CASE k # 0
  <2>1. k \in 1 .. n /\ k \in Nat /\ k - 1 \in Nat
    BY <1>3, <1>5
  <2>2. k - 1 \in 0 .. n /\ k - 1 \notin T
    BY <1>3, <2>1
  <2>3. PICK s : s = w[k - 1]
    OBVIOUS
  <2>4. Ordered(S, k - 1, s)
    BY <2>2, <2>3
  <2>5. s \in Seq(Nat) /\ Len(s) \in Nat
    BY <2>4, LenProperties DEF Ordered
  <2>6. CASE k \notin S
    <3>1. Ordered(S, k, s)
      BY <2>1, <2>4, <2>5 DEF Ordered
    <3> QED
      BY <1>1, <1>3, <2>1, <2>3, <2>6, <3>1
  <2>7. CASE k \in S
    <3>1. PICK u : u = Append(s, k)
      OBVIOUS
    <3>2. /\ u \in Seq(Nat) /\ Len(u) = Len(s) + 1 /\ u[Len(s) + 1] = k
          /\ \A x \in 1 .. Len(s) : u[x] = s[x]
      BY <2>1, <2>5, <3>1, AppendProperties
    <3>3. /\ \A x \in 1 .. Len(s) : s[x] \in S /\ s[x] \in 1 .. (k - 1)
          /\ \A x, y \in 1 .. Len(s) : x < y => s[x] < s[y]
      BY <2>4 DEF Ordered
    <3>4. ASSUME NEW x \in 1 .. Len(u) PROVE u[x] \in S /\ u[x] \in 1 .. k
      <4>1. CASE x = Len(s) + 1
        BY <2>1, <2>7, <3>2, <4>1
      <4>2. CASE x # Len(s) + 1
        <5>1. x \in 1 .. Len(s)
          BY <2>5, <3>2, <4>2
        <5>2. u[x] = s[x] /\ s[x] \in S /\ s[x] \in 1 .. (k - 1)
          BY <3>2, <3>3, <5>1
        <5> QED
          BY <2>1, <5>2
      <4> QED
        BY <4>1, <4>2
    <3>5. ASSUME NEW x \in 1 .. Len(u), NEW y \in 1 .. Len(u), x < y PROVE u[x] < u[y]
      <4>1. x \in 1 .. Len(s) /\ u[x] = s[x]
        <5>1. Len(s) \in Nat /\ Len(u) = Len(s) + 1
          BY <2>5, <3>2
        <5>2. x \in 1 .. Len(s)
          BY <3>5, <5>1
        <5> QED
          BY <3>2, <5>2
      <4>2. CASE y = Len(s) + 1
        BY <2>1, <3>2, <3>3, <4>1, <4>2
      <4>3. CASE y # Len(s) + 1
        <5>1. y \in 1 .. Len(s)
          BY <2>5, <3>2, <4>3
        <5> QED
          BY <3>2, <3>3, <3>5, <4>1, <5>1
      <4> QED
        BY <4>2, <4>3
    <3>6. Ordered(S, k, u)
      BY <3>2, <3>4, <3>5 DEF Ordered
    <3> QED
      BY <1>1, <1>3, <2>1, <2>3, <2>7, <3>1, <3>6
  <2> QED
    BY <2>6, <2>7
<1> QED
  BY <1>4, <1>5

\* What is read at the places picked: the slots of the options, and the arguments.
OptionsRead(target, ts, s, n) ==
    [x \in 1 .. Len(s) |-> Slot(FindOption(target, ts[s[x]].text), Given(target, ts, s[x], n))]
ArgsRead(ts, s) == [x \in 1 .. Len(s) |-> ts[s[x]].text]

LEMMA SameSlots ==
    ASSUME NEW target, NEW ts, NEW n, NEW m, NEW s,
           \A x \in 1 .. Len(s) : Given(target, ts, s[x], m) = Given(target, ts, s[x], n)
    PROVE  OptionsRead(target, ts, s, m) = OptionsRead(target, ts, s, n)
  BY DEF OptionsRead

AddsSlot(target, ts, s, k, m, n) ==
    /\ OptionsRead(target, ts, Append(s, k), m)
         = Append(OptionsRead(target, ts, s, n),
                  Slot(FindOption(target, ts[k].text), Given(target, ts, k, m)))
    /\ Len(OptionsRead(target, ts, s, n)) = Len(s)

LEMMA OptionsAppend ==
    ASSUME NEW target, NEW ts, NEW n, NEW m, NEW s \in Seq(Nat), NEW k \in Nat,
           \A x \in 1 .. Len(s) : Given(target, ts, s[x], m) = Given(target, ts, s[x], n)
    PROVE  AddsSlot(target, ts, s, k, m, n)
<1> DEFINE F(i) == Slot(FindOption(target, ts[i].text), Given(target, ts, i, m))
           V == {F(s[x]) : x \in 1 .. Len(s)} \cup {F(k)}
<1>1. PICK u : u = Append(s, k)
  OBVIOUS
<1>2. /\ u \in Seq(Nat) /\ Len(u) = Len(s) + 1 /\ u[Len(s) + 1] = k /\ Len(s) \in Nat
      /\ \A x \in 1 .. Len(s) : u[x] = s[x]
  BY <1>1, AppendProperties, LenProperties
<1>3. PICK a : a = OptionsRead(target, ts, s, n)
  OBVIOUS
<1>4. a = [x \in 1 .. Len(s) |-> F(s[x])]
  BY <1>3 DEF OptionsRead
<1>5. PICK b : b = OptionsRead(target, ts, u, m)
  OBVIOUS
<1>6. b = [x \in 1 .. Len(u) |-> F(u[x])]
  BY <1>5 DEF OptionsRead
<1> HIDE DEF F
<1>7. F(k) \in V /\ \A x \in 1 .. Len(s) : F(s[x]) \in V
  OBVIOUS
<1> HIDE DEF V
<1>8. a \in Seq(V) /\ Len(a) = Len(s) /\ \A x \in 1 .. Len(s) : a[x] = F(s[x])
  BY <1>2, <1>4, <1>7
<1>9. PICK c, e : c = Append(a, e) /\ e = F(k)
  OBVIOUS
<1>10. /\ c \in Seq(V) /\ Len(c) = Len(s) + 1 /\ c[Len(s) + 1] = F(k)
       /\ \A x \in 1 .. Len(s) : c[x] = F(s[x])
  BY <1>7, <1>8, <1>9, AppendProperties
<1>11. \A x \in 1 .. Len(u) : F(u[x]) \in V /\ F(u[x]) = c[x]
  <2> TAKE x \in 1 .. Len(u)
  <2>1. CASE x = Len(s) + 1
    BY <1>2, <1>7, <1>10, <2>1
  <2>2. CASE x # Len(s) + 1
    <3>1. x \in 1 .. Len(s)
      BY <1>2, <2>2
    <3> QED
      BY <1>2, <1>7, <1>10, <3>1
  <2> QED
    BY <2>1, <2>2
<1>12. b \in Seq(V) /\ Len(b) = Len(s) + 1 /\ \A x \in 1 .. Len(b) : b[x] = c[x]
  BY <1>2, <1>6, <1>11
<1>13. b = c
  BY <1>10, <1>12, SeqEqual
<1> USE DEF F
<1> QED
  BY <1>1, <1>3, <1>5, <1>8, <1>9, <1>13 DEF AddsSlot

LEMMA ArgsAppend ==
    ASSUME NEW ts, NEW s \in Seq(Nat), NEW k \in Nat
    PROVE  ArgsRead(ts, Append(s, k)) = Append(ArgsRead(ts, s), ts[k].text)
<1> DEFINE F(i) == ts[i].text
           V == {F(s[x]) : x \in 1 .. Len(s)} \cup {F(k)}
<1>1. PICK u : u = Append(s, k)
  OBVIOUS
<1>2. /\ u \in Seq(Nat) /\ Len(u) = Len(s) + 1 /\ u[Len(s) + 1] = k /\ Len(s) \in Nat
      /\ \A x \in 1 .. Len(s) : u[x] = s[x]
  BY <1>1, AppendProperties, LenProperties
<1>3. PICK a, b : a = ArgsRead(ts, s) /\ b = ArgsRead(ts, u)
  OBVIOUS
<1>4. a = [x \in 1 .. Len(s) |-> F(s[x])] /\ b = [x \in 1 .. Len(u) |-> F(u[x])]
  BY <1>3 DEF ArgsRead
<1> HIDE DEF F
<1>7. F(k) \in V /\ \A x \in 1 .. Len(s) : F(s[x]) \in V
  OBVIOUS
<1> HIDE DEF V
<1>8. a \in Seq(V) /\ Len(a) = Len(s) /\ \A x \in 1 .. Len(s) : a[x] = F(s[x])
  BY <1>2, <1>4, <1>7
<1>9. PICK c, e : c = Append(a, e) /\ e = F(k)
  OBVIOUS
<1>10. /\ c \in Seq(V) /\ Len(c) = Len(s) + 1 /\ c[Len(s) + 1] = F(k)
       /\ \A x \in 1 .. Len(s) : c[x] = F(s[x])
  BY <1>7, <1>8, <1>9, AppendProperties
<1>11. \A x \in 1 .. Len(u) : F(u[x]) \in V /\ F(u[x]) = c[x]
  <2> TAKE x \in 1 .. Len(u)
  <2>1. CASE x = Len(s) + 1
    BY <1>2, <1>7, <1>10, <2>1
  <2>2. CASE x # Len(s) + 1
    <3>1. x \in 1 .. Len(s)
      BY <1>2, <2>2
    <3> QED
      BY <1>2, <1>7, <1>10, <3>1
  <2> QED
    BY <2>1, <2>2
<1>12. b \in Seq(V) /\ Len(b) = Len(s) + 1 /\ \A x \in 1 .. Len(b) : b[x] = c[x]
  BY <1>2, <1>4, <1>11
<1>13. b = c
  BY <1>10, <1>12, SeqEqual
<1> USE DEF F
<1> QED
  BY <1>1, <1>3, <1>9, <1>13

\* The value an option waited for goes into its slot.
LEMMA ValueGiven ==
    ASSUME NEW target, NEW ts, NEW n, NEW m, NEW s, NEW w \in 1 .. Len(s), NEW v,
           Given(target, ts, s[w], m) = v,
           \A x \in 1 .. Len(s) : x # w => Given(target, ts, s[x], m) = Given(target, ts, s[x], n)
    PROVE  SetValue(OptionsRead(target, ts, s, n), w, v) = OptionsRead(target, ts, s, m)
<1> DEFINE O(x) == FindOption(target, ts[s[x]].text)
           G(x) == Given(target, ts, s[x], n)
           H(x) == Given(target, ts, s[x], m)
<1>1. PICK a : a = OptionsRead(target, ts, s, n)
  OBVIOUS
<1>2. a = [x \in 1 .. Len(s) |-> Slot(O(x), G(x))]
  BY <1>1 DEF OptionsRead
<1>3. OptionsRead(target, ts, s, m) = [x \in 1 .. Len(s) |-> Slot(O(x), H(x))]
  BY DEF OptionsRead
<1>4. H(w) = v /\ \A x \in 1 .. Len(s) : x # w => H(x) = G(x)
  OBVIOUS
<1> HIDE DEF O, G, H
<1>5. a[w] = Slot(O(w), G(w))
  BY <1>2
<1>6. PICK e : e = [a[w] EXCEPT !.value = v]
  OBVIOUS
<1>7. e = Slot(O(w), v)
  BY <1>5, <1>6 DEF Slot
<1>8. [a EXCEPT ![w].value = v] = [a EXCEPT ![w] = e]
  BY <1>6
<1>9. [a EXCEPT ![w] = e] = [x \in 1 .. Len(s) |-> Slot(O(x), H(x))]
  BY <1>2, <1>4, <1>7
<1> QED
  BY <1>1, <1>3, <1>8, <1>9 DEF SetValue

-----------------------------------------------------------------------------
(* An option waits for its value.  A word goes to the one option that waits*)
(* for one, or else is an argument.                                        *)

\* The option at i waits for its value behind the first n tokens.
Pending(target, ts, i, n) ==
    Waits(target, ts[i]) /\ \A k \in (i + 1) .. n : ts[k].kind # "word" /\ ~Waits(target, ts[k])

LEMMA GivesNext ==
    ASSUME NEW target, NEW ts, NEW n \in Nat, NEW i \in 1 .. n
    PROVE  Gives(target, ts, i, n + 1)
             <=> ts[n + 1].kind = "word" /\ Pending(target, ts, i, n)
<1>1. i < n + 1 /\ (n + 1) - 1 = n
  OBVIOUS
<1> QED
  BY <1>1 DEF Gives, Pending

LEMMA GivesOnce ==
    ASSUME NEW target, NEW ts, NEW i \in Nat, NEW j \in Nat, NEW k \in Nat,
           Gives(target, ts, i, j), Gives(target, ts, i, k)
    PROVE  j = k
<1>1. /\ i < j /\ ts[j].kind = "word" /\ i < k /\ ts[k].kind = "word"
      /\ \A h \in (i + 1) .. (j - 1) : ts[h].kind # "word"
      /\ \A h \in (i + 1) .. (k - 1) : ts[h].kind # "word"
  BY DEF Gives
<1>2. ~(j < k)
  <2> SUFFICES ASSUME j < k PROVE FALSE
    OBVIOUS
  <2>1. j \in (i + 1) .. (k - 1)
    BY <1>1
  <2> QED
    BY <1>1, <2>1
<1>3. ~(k < j)
  <2> SUFFICES ASSUME k < j PROVE FALSE
    OBVIOUS
  <2>1. k \in (i + 1) .. (j - 1)
    BY <1>1
  <2> QED
    BY <1>1, <2>1
<1> QED
  BY <1>2, <1>3

LEMMA GivenNext ==
    ASSUME NEW target, NEW ts, NEW n \in Nat, NEW i \in 1 .. n
    PROVE  Given(target, ts, i, n + 1)
             = IF Gives(target, ts, i, n + 1) THEN ts[n + 1].text ELSE Given(target, ts, i, n)
<1> DEFINE G(j) == Gives(target, ts, i, j)
<1>1. ASSUME NEW j \in Nat, NEW k \in Nat, G(j), G(k) PROVE j = k
  BY <1>1, GivesOnce
<1>2. \A j \in Nat : G(j) => ts[i].kind # "equals" /\ Waits(target, ts[i])
  BY DEF Gives, Waits
<1>3. Given(target, ts, i, n + 1)
        = IF ts[i].kind = "equals" THEN ts[i].value
          ELSE IF ~Waits(target, ts[i]) THEN One
          ELSE IF \E j \in 1 .. (n + 1) : G(j) THEN ts[CHOOSE j \in 1 .. (n + 1) : G(j)].text
          ELSE ts[i].text
  BY DEF Given
<1>6. Given(target, ts, i, n)
        = IF ts[i].kind = "equals" THEN ts[i].value
          ELSE IF ~Waits(target, ts[i]) THEN One
          ELSE IF \E j \in 1 .. n : G(j) THEN ts[CHOOSE j \in 1 .. n : G(j)].text
          ELSE ts[i].text
  BY DEF Given
<1> HIDE DEF G
<1>4. CASE G(n + 1)
  <2>1. n + 1 \in 1 .. (n + 1) /\ n + 1 \in Nat
    OBVIOUS
  <2>2. \A j \in 1 .. (n + 1) : G(j) => j = n + 1
    BY <1>1, <1>4
  <2>3. (CHOOSE j \in 1 .. (n + 1) : G(j)) = n + 1
    BY <1>4, <2>1, <2>2
  <2>4. Given(target, ts, i, n + 1) = ts[CHOOSE j \in 1 .. (n + 1) : G(j)].text
    BY <1>2, <1>3, <1>4, <2>1
  <2>5. Given(target, ts, i, n + 1) = ts[n + 1].text
    BY <2>3, <2>4
  <2> USE DEF G
  <2> QED
    BY <1>4, <2>5
<1>5. CASE ~G(n + 1)
  <2>1. \A j \in 1 .. (n + 1) : G(j) => j \in 1 .. n
    BY <1>5
  <2>2. CASE \E j \in 1 .. n : G(j)
    <3>1. PICK j \in 1 .. n : G(j)
      BY <2>2
    <3>2. \A h \in 1 .. (n + 1) : G(h) => h = j
      BY <1>1, <3>1
    <3>3. (CHOOSE h \in 1 .. (n + 1) : G(h)) = j
      BY <3>1, <3>2
    <3>4. (CHOOSE h \in 1 .. n : G(h)) = j
      BY <3>1, <3>2
    <3>5. \E h \in 1 .. (n + 1) : G(h)
      BY <3>1
    <3>6. Given(target, ts, i, n + 1)
            = IF ts[i].kind = "equals" THEN ts[i].value
              ELSE IF ~Waits(target, ts[i]) THEN One ELSE ts[j].text
      BY <1>3, <3>3, <3>5
    <3>7. Given(target, ts, i, n)
            = IF ts[i].kind = "equals" THEN ts[i].value
              ELSE IF ~Waits(target, ts[i]) THEN One ELSE ts[j].text
      BY <1>6, <2>2, <3>4
    <3>8. Given(target, ts, i, n + 1) = Given(target, ts, i, n)
      BY <3>6, <3>7
    <3> USE DEF G
    <3> QED
      BY <1>5, <3>8
  <2>3. CASE ~ \E j \in 1 .. n : G(j)
    <3>1. ~ \E j \in 1 .. (n + 1) : G(j)
      BY <2>1, <2>3
    <3>2. Given(target, ts, i, n + 1) = Given(target, ts, i, n)
      BY <1>3, <1>6, <2>3, <3>1
    <3> USE DEF G
    <3> QED
      BY <1>5, <3>2
  <2> QED
    BY <2>2, <2>3
<1> QED
  BY <1>4, <1>5

LEMMA GivenNew ==
    ASSUME NEW target, NEW ts, NEW n \in Nat
    PROVE  Given(target, ts, n, n)
             = IF ts[n].kind = "equals" THEN ts[n].value
               ELSE IF ~Waits(target, ts[n]) THEN One ELSE ts[n].text
<1>1. ~ \E j \in 1 .. n : Gives(target, ts, n, j)
  BY DEF Gives
<1> QED
  BY <1>1 DEF Given

LEMMA PendingOnce ==
    ASSUME NEW target, NEW ts, NEW n \in Nat, NEW i \in 1 .. n, NEW j \in 1 .. n,
           Pending(target, ts, i, n), Pending(target, ts, j, n)
    PROVE  i = j
<1>1. ~(i < j)
  <2> SUFFICES ASSUME i < j PROVE FALSE
    OBVIOUS
  <2>1. j \in (i + 1) .. n
    OBVIOUS
  <2> QED
    BY <2>1 DEF Pending
<1>2. ~(j < i)
  <2> SUFFICES ASSUME j < i PROVE FALSE
    OBVIOUS
  <2>1. i \in (j + 1) .. n
    OBVIOUS
  <2> QED
    BY <2>1 DEF Pending
<1> QED
  BY <1>1, <1>2

LEMMA PendingNext ==
    ASSUME NEW target, NEW ts, NEW n \in Nat
    PROVE  /\ \A i \in 1 .. n : Pending(target, ts, i, n + 1)
                <=> /\ Pending(target, ts, i, n)
                    /\ ts[n + 1].kind # "word" /\ ~Waits(target, ts[n + 1])
           /\ Pending(target, ts, n + 1, n + 1) <=> Waits(target, ts[n + 1])
<1>1. \A i \in 1 .. n : \A k \in (i + 1) .. (n + 1) : k \in (i + 1) .. n \/ k = n + 1
  OBVIOUS
<1>2. \A i \in 1 .. n : /\ n + 1 \in (i + 1) .. (n + 1)
                      /\ \A k \in (i + 1) .. n : k \in (i + 1) .. (n + 1)
  OBVIOUS
<1>3. (n + 1 + 1) .. (n + 1) = {}
  OBVIOUS
<1> QED
  BY <1>1, <1>2, <1>3 DEF Pending

OptionPlaces(ts, rest) == {i \in rest : ts[i].kind # "word"}
ArgPlaces(target, ts, rest) ==
    {j \in rest : ts[j].kind = "word" /\ \A i \in rest : ~Gives(target, ts, i, j)}

\* Where the parse stands n tokens on, the first m of which named the target: what it is bound
\* to, and which slot waits for a word.
Standing(target, ts, m, n, s, t, b, w) ==
    /\ b \in {Yes, No}
    /\ b = Yes \/ n = m
    /\ n = 0 \/ t = target
    /\ b = Yes => t = target
    /\ \/ w = 0 /\ \A i \in (m + 1) .. n : ~Pending(target, ts, i, n)
       \/ b = Yes /\ w \in 1 .. Len(s) /\ Pending(target, ts, s[w], n)
    /\ \A x \in 1 .. Len(s) : FindOption(target, ts[s[x]].text) # None

Stand(target, ts, m, n, s, q, p) ==
    \/ p.failed = TRUE
    \/ \E t, b, w :
         /\ p = Parsing(target, Invocation(t, OptionsRead(target, ts, s, n), ArgsRead(ts, q)),
                        b, w, No)
         /\ Standing(target, ts, m, n, s, t, b, w)

LEMMA StandsByWord ==
    ASSUME NEW target, NEW ts, NEW m \in Nat, NEW n \in Nat, m <= n, NEW rest,
           rest \subseteq Nat, \A i \in rest : m < i, \A i \in (m + 1) .. (n + 1) : i \in rest,
           NEW s, Ordered(OptionPlaces(ts, rest), n, s),
           NEW q, Ordered(ArgPlaces(target, ts, rest), n, q),
           NEW p, Stand(target, ts, m, n, s, q, p),
           ts[n + 1].kind = "word", n = m => Find(target, ts[n + 1].text) = None
    PROVE  Stand(target, ts, m, n + 1, s,
                 IF n + 1 \in ArgPlaces(target, ts, rest) THEN Append(q, n + 1) ELSE q,
                 ParseToken(p, ts[n + 1], None))
<1> DEFINE q1 == IF n + 1 \in ArgPlaces(target, ts, rest) THEN Append(q, n + 1) ELSE q
<1>1. CASE p.failed = TRUE
  <2>1. ParseToken(p, ts[n + 1], None).failed = TRUE
    BY <1>1, FailedStays
  <2> QED
    BY <2>1 DEF Stand
<1>2. CASE p.failed # TRUE
  <2>1. PICK t, b, w :
          /\ p = Parsing(target, Invocation(t, OptionsRead(target, ts, s, n), ArgsRead(ts, q)),
                         b, w, No)
          /\ Standing(target, ts, m, n, s, t, b, w)
    BY <1>2 DEF Stand
  <2>2. PICK o, a : o = OptionsRead(target, ts, s, n) /\ a = ArgsRead(ts, q)
    OBVIOUS
  <2>3. /\ s \in Seq(Nat) /\ q \in Seq(Nat)
        /\ \A x \in 1 .. Len(s) : s[x] \in rest /\ s[x] \in 1 .. n /\ s[x] \in (m + 1) .. n
        /\ \A x, y \in 1 .. Len(s) : x < y => s[x] < s[y]
    BY DEF Ordered, OptionPlaces, ArgPlaces
  <2>4. ~Waits(target, ts[n + 1])
    BY DEF Waits
  <2>5. \A i \in 1 .. (n + 1) : ~Pending(target, ts, i, n + 1)
    <3>1. \A i \in 1 .. (n + 1) : i \in 1 .. n \/ i = n + 1
      OBVIOUS
    <3> QED
      BY <2>4, <3>1, PendingNext
  <2>6. \A i \in 1 .. n : Gives(target, ts, i, n + 1) <=> Pending(target, ts, i, n)
    BY GivesNext
  <2>7. \A x \in 1 .. Len(s) : FindOption(target, ts[s[x]].text) # None
    BY <2>1 DEF Standing
  <2>8. CASE w = 0
    <3>1. \A i \in (m + 1) .. n : ~Pending(target, ts, i, n)
      BY <2>1, <2>8, <2>3 DEF Standing
    <3>2. \A i \in rest : ~Gives(target, ts, i, n + 1)
      <4>1. \A i \in rest : i \in Nat /\ m < i
        OBVIOUS
      <4>2. \A i \in rest : Gives(target, ts, i, n + 1) => i < n + 1
        BY DEF Gives
      <4>3. \A i \in rest : Gives(target, ts, i, n + 1) => i \in (m + 1) .. n /\ i \in 1 .. n
        BY <4>1, <4>2
      <4> QED
        BY <2>6, <3>1, <4>3
    <3>3. n + 1 \in ArgPlaces(target, ts, rest)
      <4>1. n + 1 \in rest
        OBVIOUS
      <4> QED
        BY <3>2, <4>1 DEF ArgPlaces
    <3>4. \A x \in 1 .. Len(s) : Given(target, ts, s[x], n + 1) = Given(target, ts, s[x], n)
      BY <2>3, <3>2, GivenNext
    <3>5. OptionsRead(target, ts, s, n + 1) = o
      BY <2>2, <3>4, SameSlots
    <3>6. ArgsRead(ts, q1) = Append(a, ts[n + 1].text)
      BY <2>2, <2>3, <3>3, ArgsAppend
    <3> HIDE DEF q1
    <3>7. /\ b \in {Yes, No}
          /\ b = Yes => t = target
          /\ b = Yes \/ Find(target, ts[n + 1].text) = None
      BY <2>1 DEF Standing
    <3>8. p = Parsing(target, Invocation(t, o, a), b, 0, No)
      BY <2>1, <2>2, <2>8
    <3>9. PICK token : token = ts[n + 1]
      OBVIOUS
    <3>10. Argued(target, o, a, token, ParseToken(p, token, None))
      <4>1. token.kind = "word" /\ (b = Yes \/ Find(target, token.text) = None)
        BY <3>7, <3>9
      <4> QED
        BY <3>7, <3>8, <4>1, WordIsArgument
    <3>11. CASE Len(a) >= MaxArgs
      <4>1. ParseToken(p, token, None) = Parsing(target, Invocation(target, o, a), Yes, 0, Yes)
        BY <3>10, <3>11 DEF Argued
      <4>2. ParseToken(p, token, None).failed = Yes
        BY <4>1, ParsingFields
      <4>3. ParseToken(p, ts[n + 1], None).failed = TRUE
        BY <3>9, <4>2 DEF Yes
      <4> QED
        BY <4>3 DEF Stand
    <3>12. CASE ~(Len(a) >= MaxArgs)
      <4>1. ParseToken(p, ts[n + 1], None)
              = Parsing(target, Invocation(target, OptionsRead(target, ts, s, n + 1),
                                           ArgsRead(ts, q1)), Yes, 0, No)
        BY <3>5, <3>6, <3>9, <3>10, <3>12 DEF Argued
      <4>2. \A i \in (m + 1) .. (n + 1) : ~Pending(target, ts, i, n + 1)
        BY <2>5
      <4>3. Standing(target, ts, m, n + 1, s, target, Yes, 0)
        BY <2>7, <4>2 DEF Standing
      <4>4. Stand(target, ts, m, n + 1, s, q1, ParseToken(p, ts[n + 1], None))
        BY <4>1, <4>3, Zenon DEF Stand
      <4> USE DEF q1
      <4> QED
        BY <4>4
    <3> QED
      BY <3>11, <3>12
  <2>9. CASE w # 0
    <3>1. b = Yes /\ t = target /\ w \in 1 .. Len(s) /\ Pending(target, ts, s[w], n)
      BY <2>1, <2>9 DEF Standing
    <3>2. s[w] \in rest /\ s[w] \in 1 .. n /\ Gives(target, ts, s[w], n + 1)
      BY <2>3, <2>6, <3>1
    <3>3. q1 = q
      BY <3>2 DEF ArgPlaces
    <3>4. Given(target, ts, s[w], n + 1) = ts[n + 1].text
      BY <3>2, GivenNext
    <3>5. ASSUME NEW x \in 1 .. Len(s), x # w
          PROVE  Given(target, ts, s[x], n + 1) = Given(target, ts, s[x], n)
      <4>1. s[x] # s[w]
        <5>1. x < w \/ w < x
          BY <3>1, <3>5, <2>3, LenProperties
        <5>2. s[x] < s[w] \/ s[w] < s[x]
          BY <2>3, <3>1, <5>1
        <5>3. s[x] \in Nat /\ s[w] \in Nat
          BY <2>3, <3>1
        <5> QED
          BY <5>2, <5>3
      <4>2. s[x] \in 1 .. n
        BY <2>3
      <4>3. ~Pending(target, ts, s[x], n)
        BY <3>1, <3>2, <4>1, <4>2, PendingOnce
      <4> QED
        BY <2>6, <4>2, <4>3, GivenNext
    <3>6. PICK v : v = ts[n + 1].text
      OBVIOUS
    <3>7. SetValue(OptionsRead(target, ts, s, n), w, v) = OptionsRead(target, ts, s, n + 1)
      BY <3>1, <3>4, <3>5, <3>6, ValueGiven
    <3> HIDE DEF q1
    <3>8. PICK token : token = ts[n + 1]
      OBVIOUS
    <3>9. ParseToken(p, token, None)
            = Parsing(target, Invocation(target, SetValue(o, w, token.text), a),
                      Yes, 0, No)
      <4>1. p = Parsing(target, Invocation(target, o, a), Yes, w, No) /\ token.kind = "word"
        BY <2>1, <2>2, <3>1, <3>8
      <4> QED
        BY <2>9, <4>1, WordIsValue
    <3>10. SetValue(o, w, token.text) = OptionsRead(target, ts, s, n + 1)
      BY <2>2, <3>6, <3>7, <3>8
    <3>11. ParseToken(p, ts[n + 1], None)
              = Parsing(target, Invocation(target, OptionsRead(target, ts, s, n + 1),
                                           ArgsRead(ts, q1)), Yes, 0, No)
      BY <2>2, <3>3, <3>8, <3>9, <3>10
    <3>12. \A i \in (m + 1) .. (n + 1) : ~Pending(target, ts, i, n + 1)
      BY <2>5
    <3>13. Standing(target, ts, m, n + 1, s, target, Yes, 0)
      BY <2>7, <3>12 DEF Standing
    <3>14. Stand(target, ts, m, n + 1, s, q1, ParseToken(p, ts[n + 1], None))
      BY <3>11, <3>13, Zenon DEF Stand
    <3> USE DEF q1
    <3> QED
      BY <3>14
  <2> QED
    BY <2>8, <2>9
<1> QED
  BY <1>1, <1>2

LEMMA StandsByOption ==
    ASSUME NEW target, NEW ts, NEW m \in Nat, NEW n \in Nat, m <= n, NEW rest,
           \A i \in rest : m < i,
           NEW s, Ordered(OptionPlaces(ts, rest), n, s), NEW q,
           NEW p, Stand(target, ts, m, n, s, q, p),
           ts[n + 1].kind \in {"option", "equals"}
    PROVE  Stand(target, ts, m, n + 1, Append(s, n + 1), q, ParseToken(p, ts[n + 1], None))
<1>1. CASE p.failed = TRUE
  <2>1. ParseToken(p, ts[n + 1], None).failed = TRUE
    BY <1>1, FailedStays
  <2> QED
    BY <2>1 DEF Stand
<1>2. CASE p.failed # TRUE
  <2>1. PICK t, b, w :
          /\ p = Parsing(target, Invocation(t, OptionsRead(target, ts, s, n), ArgsRead(ts, q)),
                         b, w, No)
          /\ Standing(target, ts, m, n, s, t, b, w)
    BY <1>2 DEF Stand
  <2>2. PICK o, a : o = OptionsRead(target, ts, s, n) /\ a = ArgsRead(ts, q)
    OBVIOUS
  <2>3. PICK token, opt : token = ts[n + 1] /\ opt = FindOption(target, token.text)
    OBVIOUS
  <2>4. Opted(target, o, a, w, token, opt, ParseToken(p, token, None))
    <3>1. b \in {Yes, No} /\ (b = Yes => t = target)
      BY <2>1 DEF Standing
    <3>2. p = Parsing(target, Invocation(t, o, a), b, w, No)
      BY <2>1, <2>2
    <3>3. token.kind \in {"option", "equals"}
      BY <2>3
    <3>4. opt = FindOption(target, NameSeen(token, None))
      BY <2>3 DEF NameSeen
    <3> QED
      BY <3>1, <3>2, <3>3, <3>4, OptionBinds
  <2>5. CASE opt = None
    <3>1. ParseToken(p, token, None)
            = Parsing(target, Invocation(target, Append(o, Slot(None, None)), a), Yes, w, Yes)
      BY <2>4, <2>5 DEF Opted
    <3>2. ParseToken(p, token, None).failed = Yes
      BY <3>1, ParsingFields
    <3> QED
      BY <2>3, <3>2 DEF Stand, Yes
  <2>6. CASE opt # None
    <3>1. /\ s \in Seq(Nat) /\ Len(s) \in Nat
          /\ \A x \in 1 .. Len(s) : s[x] \in 1 .. n
      BY LenProperties DEF Ordered
    <3>2. \A x \in 1 .. Len(s) : ~Gives(target, ts, s[x], n + 1)
      BY <3>1, GivesNext
    <3>3. \A x \in 1 .. Len(s) : Given(target, ts, s[x], n + 1) = Given(target, ts, s[x], n)
      BY <3>1, <3>2, GivenNext
    <3>4. PICK u, k, v : u = Append(s, k) /\ k = n + 1 /\ v = Given(target, ts, k, k)
      OBVIOUS
    <3>5. OptionsRead(target, ts, u, k) = Append(o, Slot(opt, v)) /\ Len(o) = Len(s)
      <4>1. /\ k \in Nat
            /\ \A x \in 1 .. Len(s) : Given(target, ts, s[x], k) = Given(target, ts, s[x], n)
        BY <3>3, <3>4
      <4>2. AddsSlot(target, ts, s, k, k, n)
        BY <3>1, <4>1, OptionsAppend
      <4> QED
        BY <2>2, <2>3, <3>4, <4>2 DEF AddsSlot
    <3>6. Waits(target, token) <=> token.kind = "option" /\ opt.type # "switch"
      BY <2>3 DEF Waits
    <3>7. v = IF token.kind = "equals" THEN token.value
              ELSE IF opt.type = "switch" THEN One ELSE token.text
      <4>1. v = IF token.kind = "equals" THEN token.value
                ELSE IF ~Waits(target, token) THEN One ELSE token.text
        BY <2>3, <3>4, GivenNew
      <4>2. token.kind \in {"option", "equals"} /\ "option" # "equals"
        BY <2>3
      <4> QED
        BY <3>6, <4>1, <4>2
    <3>8. PICK z : z = IF Waits(target, token) THEN Len(s) + 1 ELSE w
      OBVIOUS
    <3>9. ParseToken(p, token, None)
            = Parsing(target, Invocation(target, OptionsRead(target, ts, u, k), a), Yes, z, No)
      <4>1. Append(o, Slot(opt, IF token.kind = "equals" THEN token.value
                                ELSE IF opt.type = "switch" THEN One ELSE token.text))
              = OptionsRead(target, ts, u, k)
        BY <3>5, <3>7
      <4>2. (IF token.kind = "option" /\ opt.type # "switch" THEN Len(o) + 1 ELSE w) = z
        BY <3>5, <3>6, <3>8
      <4> QED
        BY <2>4, <2>6, <4>1, <4>2 DEF Opted
    <3>10. /\ u \in Seq(Nat) /\ Len(u) = Len(s) + 1 /\ u[Len(s) + 1] = k
           /\ \A x \in 1 .. Len(s) : u[x] = s[x]
      BY <3>1, <3>4, AppendProperties
    <3>11. \A x \in 1 .. Len(u) : FindOption(target, ts[u[x]].text) # None
      <4>1. \A x \in 1 .. Len(s) : FindOption(target, ts[s[x]].text) # None
        BY <2>1 DEF Standing
      <4>2. \A x \in 1 .. Len(u) : x \in 1 .. Len(s) \/ x = Len(s) + 1
        BY <3>1, <3>10
      <4>3. FindOption(target, ts[k].text) # None
        BY <2>3, <2>6, <3>4
      <4> QED
        BY <3>10, <4>1, <4>2, <4>3
    <3>12. /\ \A i \in 1 .. n :
                Pending(target, ts, i, k) <=> Pending(target, ts, i, n) /\ ~Waits(target, token)
           /\ Pending(target, ts, k, k) <=> Waits(target, token)
      BY <2>3, <3>4, PendingNext
    <3>13. \/ z = 0 /\ \A i \in (m + 1) .. k : ~Pending(target, ts, i, k)
           \/ z \in 1 .. Len(u) /\ Pending(target, ts, u[z], k)
      <4>1. CASE Waits(target, token)
        <5>1. z = Len(s) + 1 /\ z \in 1 .. Len(u) /\ u[z] = k
          BY <3>1, <3>8, <3>10, <4>1
        <5> QED
          BY <3>12, <4>1, <5>1
      <4>2. CASE ~Waits(target, token) /\ w = 0 /\ \A i \in (m + 1) .. n : ~Pending(target, ts, i, n)
        <5>1. \A i \in (m + 1) .. k : (i \in (m + 1) .. n /\ i \in 1 .. n) \/ i = k
          BY <3>4
        <5> QED
          BY <3>8, <3>12, <4>2, <5>1
      <4>3. CASE ~Waits(target, token) /\ w \in 1 .. Len(s) /\ Pending(target, ts, s[w], n)
        <5>1. z = w /\ z \in 1 .. Len(u) /\ u[z] = s[w] /\ s[w] \in 1 .. n
          BY <3>1, <3>8, <3>10, <4>3
        <5> QED
          BY <3>12, <4>3, <5>1
      <4> QED
        BY <2>1, <4>1, <4>2, <4>3 DEF Standing
    <3>14. Standing(target, ts, m, k, u, target, Yes, z)
      BY <3>11, <3>13 DEF Standing
    <3>15. Stand(target, ts, m, k, u, q, ParseToken(p, token, None))
      BY <2>2, <3>9, <3>14, Zenon DEF Stand
    <3> QED
      BY <2>3, <3>4, <3>15
  <2> QED
    BY <2>5, <2>6
<1> QED
  BY <1>1, <1>2

-----------------------------------------------------------------------------
(* Lookups in the tree.                                                    *)

\* Named once a set of numbers has one.
LEMMA LeastOf ==
    ASSUME NEW T, T \subseteq Nat, T # {}
    PROVE  Min(T) \in T /\ \A k \in T : Min(T) <= k
<1>1. PICK n \in T : \A k \in T : n <= k
  BY LeastElement
<1>2. \E x \in T : \A y \in T : x <= y
  BY <1>1
<1> QED
  BY <1>2 DEF Min

\* A lookup finds a subcommand or nothing.
LEMMA FindFinds ==
    ASSUME NEW c \in Nodes, NEW word
    PROVE  Find(c, word) \in Commands \cup {None}
<1> DEFINE found == {i \in DOMAIN Child[c] : Name[Child[c][i]] = word}
<1>1. Child[c] \in Seq(Range(Child[c])) /\ Range(Child[c]) \subseteq Commands
  BY CliAssumption
<1>2. DOMAIN Child[c] \subseteq Nat
  BY <1>1, LenProperties
<1>3. found # {} => Min(found) \in found
  <2>1. found \subseteq Nat
    BY <1>2
  <2> HIDE DEF found
  <2> QED
    BY <2>1, LeastOf
<1>4. Find(c, word) = IF found = {} THEN None ELSE Child[c][Min(found)]
  BY DEF Find, First
<1>5. found # {} => Child[c][Min(found)] \in Range(Child[c])
  BY <1>3 DEF Range
<1> QED
  BY <1>1, <1>4, <1>5

\* Option names are all different on every command.  (Nothing in the code sees to it: of two
\* options with one name the second cannot be asked for.)
OptionNamesDistinct ==
    \A c \in Nodes : \A i, j \in DOMAIN Option[c] : Option[c][i].name = Option[c][j].name => i = j

LEMMA OptionFound ==
    ASSUME NEW c \in Nodes, NEW word
    PROVE  FindOption(c, word) \in Range(Option[c]) \cup {None}
<1> DEFINE byName == {i \in DOMAIN Option[c] : Option[c][i].name = word}
           byCode == {i \in DOMAIN Option[c] : Option[c][i].code = word}
<1>1. Option[c] \in Seq(Range(Option[c]))
  BY CliAssumption
<1>2. DOMAIN Option[c] \subseteq Nat
  BY <1>1, LenProperties
<1>3. /\ byName # {} => Min(byName) \in byName
      /\ byCode # {} => Min(byCode) \in byCode
  <2>1. byName \subseteq Nat /\ byCode \subseteq Nat
    BY <1>2
  <2> HIDE DEF byName, byCode
  <2> QED
    BY <2>1, LeastOf
<1>4. FindOption(c, word)
        = IF (IF byName = {} THEN None ELSE Option[c][Min(byName)]) # None
          THEN IF byName = {} THEN None ELSE Option[c][Min(byName)]
          ELSE IF byCode = {} THEN None ELSE Option[c][Min(byCode)]
  BY DEF FindOption, First
<1>5. /\ byName # {} => Option[c][Min(byName)] \in Range(Option[c])
      /\ byCode # {} => Option[c][Min(byCode)] \in Range(Option[c])
  BY <1>3 DEF Range
<1> QED
  BY <1>4, <1>5

LEMMA OptionByItsName ==
    ASSUME OptionNamesDistinct, NEW c \in Nodes, NEW o \in Range(Option[c])
    PROVE  FindOption(c, o.name) = o /\ o # None
<1> DEFINE word == o.name
           byName == {i \in DOMAIN Option[c] : Option[c][i].name = word}
           byCode == {i \in DOMAIN Option[c] : Option[c][i].code = word}
<1>1. Option[c] \in Seq(Range(Option[c])) /\ None \notin Range(Option[c])
  BY CliAssumption
<1>2. DOMAIN Option[c] \subseteq Nat
  BY <1>1, LenProperties
<1>3. PICK i \in DOMAIN Option[c] : Option[c][i] = o
  BY DEF Range
<1>4. i \in byName /\ \A j \in byName : j = i
  BY <1>3 DEF OptionNamesDistinct
<1>5. Min(byName) = i
  <2>1. byName \subseteq Nat /\ byName # {}
    BY <1>2, <1>4
  <2> HIDE DEF byName
  <2> QED
    BY <1>4, <2>1, LeastOf
<1>6. FindOption(c, word)
        = IF (IF byName = {} THEN None ELSE Option[c][Min(byName)]) # None
          THEN IF byName = {} THEN None ELSE Option[c][Min(byName)]
          ELSE IF byCode = {} THEN None ELSE Option[c][Min(byCode)]
  BY DEF FindOption, First
<1>7. byName # {}
  BY <1>4
<1> QED
  BY <1>1, <1>3, <1>5, <1>6, <1>7

-----------------------------------------------------------------------------
(* A line, from the words that name its target to its last token.          *)

\* A line that is read is a line, and not an empty one.
LEMMA ReadReads ==
    ASSUME NEW tokens, IsLine(tokens), tokens # << >>
    PROVE  /\ Len(Read(tokens)) \in Nat \ {0}
           /\ \A i \in 1 .. Len(Read(tokens)) :
                /\ Read(tokens)[i].kind \in {"word", "option", "equals"}
                /\ i \in DOMAIN tokens /\ Read(tokens)[i] = tokens[i]
<1>1. PICK S : S = Range(tokens)
  OBVIOUS
<1>2. /\ tokens \in Seq(S)
      /\ \A i \in 1 .. Len(tokens) : tokens[i].kind \in {"word", "option", "equals"}
  BY <1>1, LenProperties DEF IsLine
<1>3. Len(tokens) \in Nat /\ Len(tokens) # 0 /\ \A i \in 1 .. Len(tokens) : tokens[i] \in S
  BY <1>2, EmptySeq, LenProperties, ElementOfSeq
<1>4. PICK k : k = Min({Len(tokens), MaxTokens})
  OBVIOUS
<1>5. MaxTokens \in Nat \ {0}
  BY CliAssumption
<1>6. k \in Nat /\ k # 0 /\ k <= Len(tokens)
  <2>1. PICK T : T = {Len(tokens), MaxTokens}
    OBVIOUS
  <2>2. T \subseteq Nat /\ T # {}
    BY <1>3, <1>5, <2>1
  <2>3. k \in T /\ k <= Len(tokens)
    BY <1>4, <2>1, <2>2, LeastOf
  <2> QED
    BY <1>3, <1>5, <2>1, <2>3
<1>7. Read(tokens) = SubSeq(tokens, 1, k)
  BY <1>4 DEF Read
<1>8. \A i \in 1 .. k : tokens[i] \in S
  BY <1>3, <1>6
<1>9. /\ Len(SubSeq(tokens, 1, k)) = IF 1 <= k THEN k - 1 + 1 ELSE 0
      /\ \A i \in 1 .. (k - 1 + 1) : SubSeq(tokens, 1, k)[i] = tokens[1 + i - 1]
  BY <1>2, <1>6, <1>8, SubSeqProperties
<1>10. Len(Read(tokens)) = k /\ \A i \in 1 .. k : Read(tokens)[i] = tokens[i]
  BY <1>6, <1>7, <1>9
<1>11. DOMAIN tokens = 1 .. Len(tokens)
  BY <1>2, LenProperties
<1> QED
  BY <1>2, <1>3, <1>6, <1>10, <1>11

\* The walk leads somewhere up to a last place, and nowhere from there.
LEMMA WalkStops ==
    ASSUME NEW from \in Nodes, NEW ts, Len(ts) \in Nat
    PROVE  \E m \in 0 .. Len(ts) :
             /\ m = Max({n \in 0 .. Len(ts) : Walk(from, ts)[n] # None})
             /\ \A n \in 0 .. m : Walk(from, ts)[n] \in Nodes
             /\ m < Len(ts) => Walk(from, ts)[m + 1] = None
<1>0. PICK L \in Nat : L = Len(ts)
  OBVIOUS
<1>1. PICK w : w = Walk(from, ts) /\ L = Len(ts)
  BY <1>0
<1>2. /\ w[0] = from
      /\ \A n \in 1 .. L : w[n] = IF w[n - 1] # None /\ ts[n].kind = "word"
                                  THEN Find(w[n - 1], ts[n].text) ELSE None
  BY <1>1, WalkSteps
<1>3. None \notin Nodes
  BY CliAssumption
<1>4. \A n \in 0 .. L : w[n] \in Nodes \cup {None}
  <2> DEFINE T == {n \in 0 .. L : w[n] \notin Nodes \cup {None}}
  <2> SUFFICES ASSUME T # {} PROVE FALSE
    OBVIOUS
  <2>1. T \subseteq Nat
    OBVIOUS
  <2>2. PICK n \in T : \A k \in T : n <= k
    BY <2>1, LeastElement
  <2>3. n \in 1 .. L
    BY <1>2, <2>2
  <2>4. n - 1 \in 0 .. L /\ n - 1 \notin T
    BY <2>2, <2>3
  <2>5. w[n - 1] \in Nodes \cup {None}
    BY <2>4
  <2>6. w[n] \in Commands \cup {None}
    <3>1. PICK c, word : c = w[n - 1] /\ word = ts[n].text
      OBVIOUS
    <3>2. c \in Nodes => Find(c, word) \in Commands \cup {None}
      BY FindFinds
    <3> QED
      BY <1>2, <2>3, <2>5, <3>1, <3>2
  <2> QED
    BY <2>2, <2>6 DEF Nodes
<1>5. ASSUME NEW z \in 0 .. L, w[z] = None PROVE \A n \in z .. L : w[n] = None
  <2> DEFINE T == {n \in z .. L : w[n] # None}
  <2> SUFFICES ASSUME T # {} PROVE FALSE
    OBVIOUS
  <2>1. T \subseteq Nat
    OBVIOUS
  <2>2. PICK n \in T : \A k \in T : n <= k
    BY <2>1, LeastElement
  <2>3. n # z /\ n \in 1 .. L /\ n - 1 \in z .. L
    BY <1>5, <2>2
  <2>4. n - 1 \notin T
    BY <2>2, <2>3
  <2>5. w[n - 1] = None
    BY <2>3, <2>4
  <2> QED
    BY <1>2, <2>2, <2>3, <2>5
<1> DEFINE Z == {n \in 0 .. L : w[n] = None}
<1>6. PICK m \in 0 .. L : /\ \A n \in 0 .. m : w[n] # None
                          /\ \A n \in (m + 1) .. L : w[n] = None
  <2>1. CASE Z = {}
    <3>1. L \in 0 .. L /\ (L + 1) .. L = {}
      OBVIOUS
    <3> QED
      BY <2>1, <3>1
  <2>2. CASE Z # {}
    <3>1. Z \subseteq Nat
      OBVIOUS
    <3>2. PICK z \in Z : \A k \in Z : z <= k
      BY <2>2, <3>1, LeastElement
    <3>3. z # 0
      BY <1>2, <1>3, <3>2
    <3>4. z - 1 \in 0 .. L /\ (z - 1) + 1 = z /\ z \in 0 .. L /\ w[z] = None
      BY <3>2, <3>3
    <3>5. \A n \in 0 .. (z - 1) : w[n] # None
      BY <3>2
    <3>6. \A n \in z .. L : w[n] = None
      BY <1>5, <3>4
    <3> QED
      BY <3>4, <3>5, <3>6
  <2> QED
    BY <2>1, <2>2
<1>7. m = Max({n \in 0 .. L : w[n] # None})
  <2> DEFINE T == {n \in 0 .. L : w[n] # None}
  <2>1. \A x \in T : m >= x
    BY <1>6
  <2>2. m \in T
    BY <1>6
  <2>3. \A x \in T : (\A y \in T : x >= y) => x = m
    BY <2>1, <2>2
  <2> HIDE DEF T
  <2>4. Max(T) = m
    BY <2>1, <2>2, <2>3 DEF Max
  <2> USE DEF T
  <2> QED
    BY <2>4
<1>8. /\ \A n \in 0 .. m : w[n] \in Nodes
      /\ m < L => w[m + 1] = None
  BY <1>4, <1>6
<1> QED
  BY <1>1, <1>7, <1>8

\* The words up to the m-th name the target, and bind nothing.
LEMMA ParsedNames ==
    ASSUME NEW from \in Nodes, NEW ts, Len(ts) \in Nat, NEW m \in 0 .. Len(ts),
           \A n \in 0 .. m : Walk(from, ts)[n] \in Nodes
    PROVE  \A n \in 0 .. m :
             Parsed(from, ts, NoInvocation, None)[n]
               = Parsing(Walk(from, ts)[n],
                         Invocation(IF n = 0 THEN None ELSE Walk(from, ts)[n], << >>, << >>),
                         No, 0, No)
<1> DEFINE w == Walk(from, ts)
           p == Parsed(from, ts, NoInvocation, None)
           Q(n) == p[n] = Parsing(w[n], Invocation(IF n = 0 THEN None ELSE w[n], << >>, << >>),
                                  No, 0, No)
           T == {n \in 0 .. m : ~Q(n)}
<1>1. /\ w[0] = from
      /\ \A n \in 1 .. Len(ts) : w[n] = IF w[n - 1] # None /\ ts[n].kind = "word"
                                        THEN Find(w[n - 1], ts[n].text) ELSE None
  BY WalkSteps
<1>2. /\ p[0] = Parsing(from, NoInvocation, No, 0, No)
      /\ \A n \in 1 .. Len(ts) : p[n] = ParseToken(p[n - 1], ts[n], None)
  BY ParsedSteps
<1>3. NoInvocation = Invocation(None, << >>, << >>)
  BY DEF NoInvocation, Invocation
<1>4. \A n \in 0 .. m : w[n] \in Nodes
  OBVIOUS
<1>5. None \notin Nodes
  BY CliAssumption
<1> SUFFICES ASSUME T # {} PROVE FALSE
  OBVIOUS
<1> HIDE DEF w, p
<1>6. T \subseteq Nat
  OBVIOUS
<1>7. PICK n \in T : \A k \in T : n <= k
  BY <1>6, LeastElement
<1>8. CASE n = 0
  BY <1>1, <1>2, <1>3, <1>7, <1>8
<1>9. CASE n # 0
  <2>1. n \in 1 .. m /\ n \in 1 .. Len(ts) /\ n - 1 \in 0 .. m /\ n - 1 \notin T
    BY <1>7, <1>9
  <2>2. Q(n - 1)
    BY <2>1
  <2>3. w[n] # None /\ ts[n].kind = "word" /\ w[n] = Find(w[n - 1], ts[n].text)
    BY <1>1, <1>4, <1>5, <2>1
  <2>4. PICK c, t, token, d : /\ c = w[n - 1] /\ t = (IF n - 1 = 0 THEN None ELSE w[n - 1])
                              /\ token = ts[n] /\ d = w[n]
    OBVIOUS
  <2>5. p[n - 1] = Parsing(c, Invocation(t, << >>, << >>), No, 0, No)
    BY <2>2, <2>4
  <2>6. PICK r, e : r = p[n - 1] /\ e = << >>
    OBVIOUS
  <2>7. r = Parsing(c, Invocation(t, e, e), No, 0, No)
    BY <2>5, <2>6
  <2>8. token.kind = "word" /\ Find(c, token.text) # None /\ d = Find(c, token.text)
    BY <2>3, <2>4
  <2>9. ParseToken(r, token, None) = Parsing(d, Invocation(d, e, e), No, 0, No)
    BY <2>7, <2>8, WordNames
  <2>10. p[n] = Parsing(d, Invocation(d, e, e), No, 0, No)
    BY <1>2, <2>1, <2>4, <2>6, <2>9
  <2>11. Q(n)
    BY <1>9, <2>4, <2>6, <2>10
  <2> QED
    BY <1>7, <2>11
<1> QED
  BY <1>8, <1>9

LEMMA NothingRead ==
    ASSUME NEW target, NEW ts, NEW n
    PROVE  OptionsRead(target, ts, << >>, n) = << >> /\ ArgsRead(ts, << >>) = << >>
<1>1. Len(<< >>) = 0 /\ 1 .. 0 = {}
  OBVIOUS
<1>2. PICK a, b : a = OptionsRead(target, ts, << >>, n) /\ b = ArgsRead(ts, << >>)
  OBVIOUS
<1>3. DOMAIN a = {} /\ DOMAIN b = {} /\ a = [x \in {} |-> a[x]] /\ b = [x \in {} |-> b[x]]
  BY <1>1, <1>2 DEF OptionsRead, ArgsRead
<1>4. << >> = [x \in {} |-> a[x]] /\ << >> = [x \in {} |-> b[x]]
  OBVIOUS
<1> QED
  BY <1>2, <1>3, <1>4

\* From there on the parse stands as the tokens read so far say.
LEMMA ParsedStands ==
    ASSUME NEW from \in Nodes, NEW ts, Len(ts) \in Nat,
           \A i \in 1 .. Len(ts) : ts[i].kind \in {"word", "option", "equals"},
           NEW m \in 0 .. Len(ts), \A n \in 0 .. m : Walk(from, ts)[n] \in Nodes,
           m < Len(ts) => Walk(from, ts)[m + 1] = None,
           NEW target, target = Walk(from, ts)[m],
           NEW rest, rest = (m + 1) .. Len(ts)
    PROVE  Stand(target, ts, m, Len(ts), InOrder(OptionPlaces(ts, rest), Len(ts))[Len(ts)],
                 InOrder(ArgPlaces(target, ts, rest), Len(ts))[Len(ts)],
                 Parsed(from, ts, NoInvocation, None)[Len(ts)])
<1>1. PICK L \in Nat : L = Len(ts)
  OBVIOUS
<1>2. PICK O, A : O = OptionPlaces(ts, rest) /\ A = ArgPlaces(target, ts, rest)
  OBVIOUS
<1>3. PICK p : p = Parsed(from, ts, NoInvocation, None)
  OBVIOUS
<1>4. PICK s : s = InOrder(O, L)
  OBVIOUS
<1>5. PICK q : q = InOrder(A, L)
  OBVIOUS
<1>6. \A n \in 1 .. L : p[n] = ParseToken(p[n - 1], ts[n], None)
  BY <1>1, <1>3, ParsedSteps
<1>7. /\ \A n \in 1 .. L : s[n] = IF n \in O THEN Append(s[n - 1], n) ELSE s[n - 1]
      /\ \A n \in 0 .. L : Ordered(O, n, s[n])
  BY <1>4, InOrderSteps, InOrderOrdered
<1>8. /\ \A n \in 1 .. L : q[n] = IF n \in A THEN Append(q[n - 1], n) ELSE q[n - 1]
      /\ \A n \in 0 .. L : Ordered(A, n, q[n])
  BY <1>5, InOrderSteps, InOrderOrdered
<1>9. rest \subseteq Nat /\ (\A i \in rest : m < i) /\ rest = (m + 1) .. L
  BY <1>1
<1>10. \A i \in O : m < i
  BY <1>2, <1>9 DEF OptionPlaces
<1>11. \A i \in A : m < i
  BY <1>2, <1>9 DEF ArgPlaces
<1>12. m \in 0 .. L
  BY <1>1
<1>13. p[m] = Parsing(target, Invocation(IF m = 0 THEN None ELSE target, << >>, << >>), No, 0, No)
  BY <1>3, <1>12, ParsedNames
<1>14. Stand(target, ts, m, m, s[m], q[m], p[m])
  <2>1. ASSUME NEW S, NEW u, Ordered(S, m, u), \A i \in S : m < i PROVE u = << >>
    <3>1. u \in Seq(Nat) /\ Len(u) \in Nat /\ \A x \in 1 .. Len(u) : u[x] \in S /\ u[x] \in 1 .. m
      BY <2>1, LenProperties DEF Ordered
    <3>2. ~(1 \in 1 .. Len(u))
      BY <2>1, <3>1
    <3>3. Len(u) = 0
      BY <3>1, <3>2
    <3> QED
      BY <3>1, <3>3, EmptySeq
  <2>2. s[m] = << >> /\ q[m] = << >>
    BY <1>7, <1>8, <1>10, <1>11, <1>12, <2>1
  <2>3. PICK t : t = (IF m = 0 THEN None ELSE target)
    OBVIOUS
  <2>4. p[m] = Parsing(target, Invocation(t, OptionsRead(target, ts, s[m], m),
                                          ArgsRead(ts, q[m])), No, 0, No)
    BY <1>13, <2>2, <2>3, NothingRead
  <2>5. Standing(target, ts, m, m, s[m], t, No, 0)
    <3>1. (m + 1) .. m = {} /\ Len(s[m]) = 0 /\ 1 .. 0 = {}
      BY <2>2
    <3>2. No # Yes
      BY DEF No, Yes
    <3> QED
      BY <2>3, <3>1, <3>2 DEF Standing
  <2> QED
    BY <2>4, <2>5, Zenon DEF Stand
<1>15. ASSUME NEW n \in m .. L, n # L, Stand(target, ts, m, n, s[n], q[n], p[n])
       PROVE  Stand(target, ts, m, n + 1, s[n + 1], q[n + 1], p[n + 1])
  <2>1. /\ n \in Nat /\ m \in Nat /\ m <= n /\ n + 1 \in 1 .. L /\ n + 1 \in rest /\ n \in 0 .. L
        /\ (n + 1) - 1 = n
    BY <1>9, <1>12, <1>15
  <2>2. PICK a, b, r : a = s[n] /\ b = q[n] /\ r = p[n]
    OBVIOUS
  <2>3. /\ p[n + 1] = ParseToken(r, ts[n + 1], None)
        /\ s[n + 1] = (IF n + 1 \in O THEN Append(a, n + 1) ELSE a)
        /\ q[n + 1] = (IF n + 1 \in A THEN Append(b, n + 1) ELSE b)
    BY <1>6, <1>7, <1>8, <2>1, <2>2
  <2>4. /\ Ordered(OptionPlaces(ts, rest), n, a) /\ Ordered(ArgPlaces(target, ts, rest), n, b)
        /\ Stand(target, ts, m, n, a, b, r)
    BY <1>2, <1>7, <1>8, <1>15, <2>1, <2>2
  <2>5. CASE ts[n + 1].kind = "word"
    <3>1. n + 1 \notin O
      BY <1>2, <2>5 DEF OptionPlaces
    <3>2. n = m => Find(target, ts[n + 1].text) = None
      <4> SUFFICES ASSUME n = m PROVE Find(target, ts[n + 1].text) = None
        OBVIOUS
      <4>1. PICK w : w = Walk(from, ts)
        OBVIOUS
      <4>2. w[m + 1] = None
        BY <1>1, <2>1, <4>1
      <4>3. \A k \in 1 .. L : w[k] = IF w[k - 1] # None /\ ts[k].kind = "word"
                                     THEN Find(w[k - 1], ts[k].text) ELSE None
        BY <1>1, <4>1, WalkSteps
      <4>4. w[m] = target /\ target # None
        <5>1. m \in 0 .. m
          BY <2>1
        <5> QED
          BY <4>1, <5>1, CliAssumption
      <4> QED
        BY <2>1, <2>5, <4>2, <4>3, <4>4
    <3>3. \A i \in (m + 1) .. (n + 1) : i \in rest
      BY <1>9, <2>1
    <3>4. Stand(target, ts, m, n + 1, a,
                IF n + 1 \in ArgPlaces(target, ts, rest) THEN Append(b, n + 1) ELSE b,
                ParseToken(r, ts[n + 1], None))
      BY <1>9, <2>1, <2>4, <2>5, <3>2, <3>3, StandsByWord
    <3> QED
      BY <1>2, <2>3, <3>1, <3>4
  <2>6. CASE ts[n + 1].kind \in {"option", "equals"}
    <3>1. n + 1 \in O /\ n + 1 \notin A
      BY <1>2, <2>1, <2>6 DEF OptionPlaces, ArgPlaces
    <3>2. Stand(target, ts, m, n + 1, Append(a, n + 1), b, ParseToken(r, ts[n + 1], None))
      BY <1>9, <2>1, <2>4, <2>6, StandsByOption
    <3> QED
      BY <2>3, <3>1, <3>2
  <2> QED
    BY <1>1, <2>1, <2>5, <2>6
<1>16. \A n \in m .. L : Stand(target, ts, m, n, s[n], q[n], p[n])
  <2> DEFINE T == {n \in m .. L : ~Stand(target, ts, m, n, s[n], q[n], p[n])}
  <2> SUFFICES ASSUME T # {} PROVE FALSE
    OBVIOUS
  <2>1. T \subseteq Nat
    BY <1>12
  <2>2. PICK n \in T : \A k \in T : n <= k
    BY <2>1, LeastElement
  <2>3. n # m
    BY <1>14, <2>2
  <2>4. n - 1 \in m .. L /\ n - 1 # L /\ n - 1 \notin T /\ (n - 1) + 1 = n
    BY <1>12, <2>2, <2>3
  <2>5. Stand(target, ts, m, n - 1, s[n - 1], q[n - 1], p[n - 1])
    BY <2>4
  <2>6. PICK k : k = n - 1
    OBVIOUS
  <2>7. Stand(target, ts, m, k + 1, s[k + 1], q[k + 1], p[k + 1])
    BY <1>15, <2>4, <2>5, <2>6
  <2> QED
    BY <2>2, <2>4, <2>6, <2>7
<1>17. L \in m .. L
  BY <1>12
<1> QED
  BY <1>1, <1>2, <1>3, <1>4, <1>5, <1>16, <1>17

\* A reading of a line: its target is a command, and its options are that command's.
OfItsTarget(inv) ==
    /\ inv.target \in Nodes
    /\ DOMAIN inv.option \subseteq Nat \ {0}
    /\ \A x \in DOMAIN inv.option : inv.option[x].option \in Range(Option[inv.target])

\* What the parser makes of a line, token by token, is what the line says as a whole
\* (command.c:139-248).
THEOREM ParserReadsLine ==
    ASSUME NEW from \in Nodes, NEW tokens, IsLine(tokens), tokens # << >>,
           ~Parse(from, tokens, NoInvocation, None).failed
    PROVE  /\ Parse(from, tokens, NoInvocation, None).inv = AsTyped(from, tokens)
           /\ OfItsTarget(AsTyped(from, tokens))
<1>1. PICK ts : ts = Read(tokens)
  OBVIOUS
<1>2. /\ Len(ts) \in Nat \ {0}
      /\ \A i \in 1 .. Len(ts) : ts[i].kind \in {"word", "option", "equals"}
  BY <1>1, ReadReads
<1>3. PICK m \in 0 .. Len(ts) :
        /\ m = Max({n \in 0 .. Len(ts) : Walk(from, ts)[n] # None})
        /\ \A n \in 0 .. m : Walk(from, ts)[n] \in Nodes
        /\ m < Len(ts) => Walk(from, ts)[m + 1] = None
  BY <1>2, WalkStops
<1>4. PICK target, rest : target = Walk(from, ts)[m] /\ rest = (m + 1) .. Len(ts)
  OBVIOUS
<1>5. PICK L \in Nat \ {0} : L = Len(ts)
  BY <1>2
<1>6. PICK s : s = InOrder(OptionPlaces(ts, rest), L)[L]
  OBVIOUS
<1>7. PICK q : q = InOrder(ArgPlaces(target, ts, rest), L)[L]
  OBVIOUS
<1>8. PICK p : p = Parsed(from, ts, NoInvocation, None)[L]
  OBVIOUS
<1>9. Stand(target, ts, m, L, s, q, p)
  BY <1>2, <1>3, <1>4, <1>5, <1>6, <1>7, <1>8, ParsedStands
<1>10. p = Parse(from, tokens, NoInvocation, None)
  BY <1>1, <1>5, <1>8 DEF Parse
<1>11. PICK t, b, w :
         /\ p = Parsing(target, Invocation(t, OptionsRead(target, ts, s, L), ArgsRead(ts, q)),
                        b, w, No)
         /\ Standing(target, ts, m, L, s, t, b, w)
  BY <1>9, <1>10 DEF Stand
<1>12. t = target
  BY <1>5, <1>11 DEF Standing
<1>13. PICK o, a : o = OptionsRead(target, ts, s, L) /\ a = ArgsRead(ts, q)
  OBVIOUS
<1>14. p.inv = Invocation(target, o, a)
  BY <1>11, <1>12, <1>13, ParsingFields
<1>15. /\ s \in Seq(Nat) /\ DOMAIN s = 1 .. Len(s) /\ Len(s) \in Nat
       /\ q \in Seq(Nat) /\ DOMAIN q = 1 .. Len(q)
  <2>1. L \in 0 .. L
    OBVIOUS
  <2>2. s \in Seq(Nat)
    BY <1>6, <2>1, InOrderOrdered DEF Ordered
  <2>3. q \in Seq(Nat)
    BY <1>7, <2>1, InOrderOrdered DEF Ordered
  <2> QED
    BY <2>2, <2>3, LenProperties
<1>16. AsTyped(from, tokens) = Invocation(target, o, a)
  <2>1. o = [n \in DOMAIN s |-> [option |-> FindOption(target, ts[s[n]].text),
                                 value |-> Given(target, ts, s[n], L)]]
    BY <1>13, <1>15 DEF OptionsRead, Slot
  <2>2. a = [n \in DOMAIN q |-> ts[q[n]].text]
    BY <1>13, <1>15 DEF ArgsRead
  <2>3. PICK options, args :
          /\ options = InOrder({i \in rest : ts[i].kind # "word"}, L)[L]
          /\ args = InOrder({j \in rest : /\ ts[j].kind = "word"
                                          /\ \A i \in rest : ~Gives(target, ts, i, j)}, L)[L]
    OBVIOUS
  <2>4. options = s /\ args = q
    BY <1>6, <1>7, <2>3 DEF OptionPlaces, ArgPlaces
  <2>5. AsTyped(from, tokens)
          = Invocation(target,
                       [n \in DOMAIN options |-> [option |-> FindOption(target, ts[options[n]].text),
                                                  value |-> Given(target, ts, options[n], L)]],
                       [n \in DOMAIN args |-> ts[args[n]].text])
    BY <1>1, <1>3, <1>4, <1>5, <2>3 DEF AsTyped, Invocation
  <2> QED
    BY <2>1, <2>2, <2>4, <2>5
<1>17. OfItsTarget(Invocation(target, o, a))
  <2>1. target \in Nodes
    BY <1>3, <1>4
  <2>2. o = [x \in 1 .. Len(s) |->
               Slot(FindOption(target, ts[s[x]].text), Given(target, ts, s[x], L))]
    BY <1>13 DEF OptionsRead
  <2>3. ASSUME NEW x \in 1 .. Len(s) PROVE o[x].option \in Range(Option[target])
    <3>1. o[x].option = FindOption(target, ts[s[x]].text)
      BY <2>2 DEF Slot
    <3>2. FindOption(target, ts[s[x]].text) # None
      BY <1>11 DEF Standing
    <3>3. PICK word : word = ts[s[x]].text
      OBVIOUS
    <3>4. FindOption(target, word) \in Range(Option[target]) \cup {None}
      BY <2>1, OptionFound
    <3> QED
      BY <3>1, <3>2, <3>3, <3>4
  <2>4. DOMAIN o = 1 .. Len(s) /\ 1 .. Len(s) \subseteq Nat \ {0}
    BY <1>15, <2>2
  <2>5. PICK inv : inv = Invocation(target, o, a)
    OBVIOUS
  <2>6. inv.target = target /\ inv.option = o
    BY <2>5, InvocationFields
  <2> QED
    BY <2>1, <2>3, <2>4, <2>5, <2>6 DEF OfItsTarget
<1> QED
  BY <1>10, <1>14, <1>16, <1>17

\* An option has, by its name, the value it was given first.
LEMMA ValueByName ==
    ASSUME OptionNamesDistinct, NEW inv, OfItsTarget(inv), NEW i \in DOMAIN inv.option,
           \A j \in 1 .. (i - 1) : inv.option[j].option # inv.option[i].option
    PROVE  OptionValue(inv, inv.option[i].option.name) = inv.option[i].value
<1>1. PICK c, o : c = inv.target /\ o = inv.option[i].option
  OBVIOUS
<1>2. c \in Nodes /\ o \in Range(Option[c])
  BY <1>1 DEF OfItsTarget
<1>3. FindOption(c, o.name) = o /\ o # None
  BY <1>2, OptionByItsName
<1> DEFINE given == {k \in DOMAIN inv.option : inv.option[k].option = o}
<1>4. i \in given /\ given \subseteq Nat /\ 0 \notin given
  BY <1>1 DEF OfItsTarget
<1>5. OptionValue(inv, o.name) = inv.option[Min(given)].value
  <2>1. given # {}
    BY <1>4
  <2> QED
    BY <1>1, <1>3, <2>1 DEF OptionValue
<1>6. PICK k : k = Min(given)
  OBVIOUS
<1>7. k \in given /\ k <= i
  <2> HIDE DEF given
  <2> QED
    BY <1>4, <1>6, LeastOf
<1>8. k = i
  <2> SUFFICES ASSUME k # i PROVE FALSE
    OBVIOUS
  <2>1. k \in Nat /\ k # 0 /\ i \in Nat /\ inv.option[k].option = o
    BY <1>4, <1>7
  <2>2. k \in 1 .. (i - 1)
    BY <1>7, <2>1
  <2> QED
    BY <1>1, <2>1, <2>2
<1> QED
  BY <1>1, <1>5, <1>6, <1>8

-----------------------------------------------------------------------------
(* The lines a process reads.                                              *)

\* The root command's name in front of a line makes a line.
LEMMA WithRootName ==
    ASSUME NEW ts, IsLine(ts), NEW n
    PROVE  IsLine(<<Word(n)>> \o ts) /\ <<Word(n)>> \o ts # << >>
<1>1. PICK W : W = Word(n)
  OBVIOUS
<1>2. W.kind = "word"
  BY <1>1 DEF Word
<1>3. PICK S : S = Range(ts) \cup {W}
  OBVIOUS
<1>4. PICK h : h = <<W>>
  OBVIOUS
<1>5. h \in Seq(S) /\ Len(h) = 1 /\ h[1] = W
  BY <1>3, <1>4
<1>6. ts \in Seq(S)
  <2>1. PICK R : R = Range(ts)
    OBVIOUS
  <2>2. ts \in Seq(R) /\ R \subseteq S
    BY <1>3, <2>1 DEF IsLine
  <2> QED
    BY <2>2
<1>7. Len(ts) \in Nat /\ \A i \in 1 .. Len(ts) : ts[i].kind \in {"word", "option", "equals"}
  BY <1>6, LenProperties DEF IsLine
<1>8. PICK u : u = h \o ts
  OBVIOUS
<1>9. /\ u \in Seq(S) /\ Len(u) = Len(h) + Len(ts)
      /\ \A i \in 1 .. Len(h) + Len(ts) : u[i] = IF i <= Len(h) THEN h[i] ELSE ts[i - Len(h)]
  BY <1>5, <1>6, <1>8, ConcatProperties
<1>10. DOMAIN u = 1 .. Len(u) /\ Len(u) = 1 + Len(ts)
  BY <1>5, <1>9, LenProperties
<1>11. \A i \in DOMAIN u : u[i].kind \in {"word", "option", "equals"}
  <2> TAKE i \in DOMAIN u
  <2>1. CASE i = 1
    BY <1>2, <1>5, <1>7, <1>9, <1>10, <2>1
  <2>2. CASE i # 1
    <3>1. i - 1 \in 1 .. Len(ts) /\ u[i] = ts[i - 1]
      BY <1>5, <1>7, <1>9, <1>10, <2>2
    <3> QED
      BY <1>7, <3>1
  <2> QED
    BY <2>1, <2>2
<1>12. u \in Seq(Range(u))
  <2>1. u = [i \in 1 .. Len(u) |-> u[i]] /\ Len(u) \in Nat
    BY <1>7, <1>9, <1>10
  <2>2. \A i \in 1 .. Len(u) : u[i] \in Range(u)
    BY <1>10 DEF Range
  <2> QED
    BY <2>1, <2>2
<1>13. u # << >>
  BY <1>7, <1>10
<1> QED
  BY <1>1, <1>4, <1>8, <1>11, <1>12, <1>13 DEF IsLine

LEMMA LineWords ==
    ASSUME NEW line \in Lines
    PROVE  line.words \in Queueable
<1>1. PICK lines \in Inputs \cup {Batch} : line \in Range(lines)
  BY DEF Lines
<1>2. line.words \in {x.words : x \in Range(lines)}
  BY <1>1
<1> QED
  BY <1>1, <1>2 DEF Queueable

\* What the parser read last, and what it is read again from: the invocation the launch command
\* line fills in is empty until then, and the console's lines are the application root's.
LastInv ==
    \/ last = NoLine
    \/ /\ last.from \in Nodes /\ IsLine(last.tokens) /\ last.tokens # << >>
       /\ ~Parse(last.from, last.tokens, NoInvocation, None).failed
       /\ last.invocation = Parse(last.from, last.tokens, NoInvocation, None).inv

ParserInv ==
    /\ LastInv
    /\ phase = "boot" => static = NoInvocation
    /\ queueRoot \in {None, AppRoot}

LEMMA ReadsLast ==
    ASSUME NEW from \in Nodes, NEW tokens, IsLine(tokens), tokens # << >>,
           NEW p, p = Parse(from, tokens, NoInvocation, None), ~p.failed,
           last' = [tokens |-> tokens, from |-> from, invocation |-> p.inv]
    PROVE  LastInv'
<1>1. /\ last'.from = from /\ last'.tokens = tokens /\ last'.invocation = p.inv
  OBVIOUS
<1> QED
  BY <1>1 DEF LastInv

LEMMA LaunchReads ==
    ASSUME ParserInv, Launched, NEW tokens, IsLine(tokens), tokens # << >>, ProcessLaunch(tokens)
    PROVE  ParserInv'
<1>1. /\ static = NoInvocation /\ LastInv /\ queueRoot \in {None, AppRoot}
      /\ phase' = "run" /\ queueRoot' = queueRoot
  BY DEF ParserInv, Launched
<1>2. PICK stray \in Strays : last' = IF Parse(Root, tokens, static, stray).failed \/ stray # None
                                      THEN last
                                      ELSE [tokens |-> tokens, from |-> Root,
                                            invocation |-> Parse(Root, tokens, static, stray).inv]
  BY DEF ProcessLaunch
<1>3. LastInv'
  <2>1. CASE last' = last
    BY <1>1, <2>1 DEF LastInv
  <2>2. CASE last' # last
    <3>1. PICK p : p = Parse(Root, tokens, NoInvocation, None)
      OBVIOUS
    <3>2. ~p.failed /\ last' = [tokens |-> tokens, from |-> Root, invocation |-> p.inv]
      BY <1>1, <1>2, <2>2, <3>1
    <3>3. Root \in Nodes
      BY DEF Nodes
    <3> QED
      BY <3>1, <3>2, <3>3, ReadsLast
  <2> QED
    BY <2>1, <2>2
<1>4. phase' # "boot"
  BY <1>1
<1> QED
  BY <1>1, <1>3, <1>4 DEF ParserInv

LEMMA LineReads ==
    ASSUME ParserInv, QueueInv, CliLine
    PROVE  ParserInv'
<1>1. /\ LastInv /\ queueRoot \in {None, AppRoot} /\ phase # "boot"
      /\ UNCHANGED <<phase, queueRoot>>
  BY DEF ParserInv, CliLine, CliTurn
<1>2. PICK line, root : line = Head(queue) /\ root = queueRoot
  OBVIOUS
<1>3. PICK stray \in Strays :
        \/ last' = last
        \/ /\ Runs(root, line)
           /\ ~Parse(ParentOf(root), LineTokens(root, line), NoInvocation, stray).failed
           /\ last' = IF stray # None THEN last
                      ELSE [tokens |-> LineTokens(root, line), from |-> ParentOf(root),
                            invocation |-> Parse(ParentOf(root), LineTokens(root, line),
                                                 NoInvocation, stray).inv]
  BY <1>2, Zenon DEF CliLine
<1>4. CASE last' = last
  BY <1>1, <1>4 DEF ParserInv, LastInv
<1>5. CASE /\ Runs(root, line) /\ stray = None
           /\ ~Parse(ParentOf(root), LineTokens(root, line), NoInvocation, None).failed
           /\ last' = [tokens |-> LineTokens(root, line), from |-> ParentOf(root),
                       invocation |-> Parse(ParentOf(root), LineTokens(root, line),
                                            NoInvocation, None).inv]
  <2>1. line \in Lines
    <3>1. queue \in Seq(Lines) /\ queue # << >>
      BY DEF QueueInv, LinesInv, CliLine
    <3>2. PICK S : S = Lines
      OBVIOUS
    <3> QED
      BY <1>2, <3>1, <3>2, HeadTailProperties
  <2>2. IsLine(line.words) /\ line.words # << >>
    BY <1>5, <2>1, LineWords, LinesAreTokens DEF Runs
  <2>3. IsLine(LineTokens(root, line)) /\ LineTokens(root, line) # << >>
    BY <2>2, WithRootName DEF LineTokens
  <2>4. ParentOf(root) \in Nodes
    BY DEF ParentOf, Nodes
  <2>5. PICK tokens, from, p : /\ tokens = LineTokens(root, line) /\ from = ParentOf(root)
                               /\ p = Parse(from, tokens, NoInvocation, None)
    OBVIOUS
  <2>6. LastInv'
    BY <1>5, <2>3, <2>4, <2>5, ReadsLast
  <2> QED
    BY <1>1, <2>6 DEF ParserInv
<1> QED
  BY <1>3, <1>4, <1>5

LEMMA ParserInvariance == Spec => []ParserInv
<1>1. Init => ParserInv
  BY DEF Init, ParserInv, LastInv
<1>2. ParserInv /\ QueueInv /\ [Next]_vars => ParserInv'
  <2> SUFFICES ASSUME ParserInv, QueueInv, [Next]_vars PROVE ParserInv'
    OBVIOUS
  <2>1. ASSUME UNCHANGED last, phase' # "boot" \/ UNCHANGED <<phase, static>>,
               queueRoot' \in {queueRoot, AppRoot}
        PROVE  ParserInv'
    <3>1. LastInv'
      BY <2>1 DEF ParserInv, LastInv
    <3> QED
      BY <2>1, <3>1 DEF ParserInv
  <2>2. ASSUME NEW tokens \in LaunchLines, Launch(tokens) PROVE ParserInv'
    <3>1. IsLine(tokens) /\ tokens # << >>
      BY LinesAreTokens
    <3> QED
      BY <2>2, <3>1, LaunchReads DEF Launch
  <2>3. ASSUME NEW words \in BootCommands, LaunchBaked(words) PROVE ParserInv'
    <3>1. Launched
      BY <2>3 DEF LaunchBaked
    <3>2. CASE UNCHANGED last
      BY <2>1, <3>1, <3>2 DEF Launched
    <3>3. CASE words # << >> /\ ProcessLaunch(words)
      BY <3>1, <3>3, LinesAreTokens, LaunchReads
    <3>4. CASE ProcessLaunch(<<Word(Name[AppRoot])>> \o words)
      <4>1. PICK ts : ts = <<Word(Name[AppRoot])>> \o words
        OBVIOUS
      <4>2. IsLine(ts) /\ ts # << >>
        BY <4>1, LinesAreTokens, WithRootName
      <4> QED
        BY <3>1, <3>4, <4>1, <4>2, LaunchReads
    <3> QED
      BY <2>3, <3>2, <3>3, <3>4 DEF LaunchBaked
  <2>4. CASE LaunchBare
    BY <2>1, <2>4 DEF LaunchBare, Launched
  <2>5. CASE CliLaunch
    BY <2>1, <2>5 DEF CliLaunch, scheduler, ghosts
  <2>6. CASE CliLine
    BY <2>6, LineReads
  <2>7. CASE CliNothing
    BY <2>1, <2>7 DEF CliNothing, ghosts
  <2>8. CASE CallHandler
    <3>1. UNCHANGED <<static, last>> /\ phase' \in {phase, "ended"}
      BY <2>8 DEF CallHandler, Finish
    <3>2. queueRoot' \in {queueRoot, AppRoot}
      BY <2>8 DEF CallHandler, QueueLine
    <3> QED
      BY <2>1, <3>1, <3>2
  <2>9. CASE FeederTask
    <3>1. UNCHANGED <<static, last>> /\ phase' \in {phase, "ended"}
      BY <2>9 DEF FeederTask
    <3>2. queueRoot' \in {queueRoot, AppRoot}
      BY <2>9 DEF FeederTask, QueueLine
    <3> QED
      BY <2>1, <3>1, <3>2
  <2>10. CASE NextPass
    BY <2>1, <2>10 DEF NextPass, cli, ghosts
  <2>11. CASE UNCHANGED vars
    BY <2>1, <2>11 DEF vars, scheduler, cli, ghosts
  <2> QED
    BY <2>2, <2>3, <2>4, <2>5, <2>6, <2>7, <2>8, <2>9, <2>10, <2>11
       DEF Next, CliTask, Ended
<1> QED
  BY <1>1, <1>2, QueueInvariance, PTL DEF Spec

\* The invocation a handler is given is what the command line says, whatever the tree, the line
\* and the limits, as long as no command has two options of one name (command.c:139-248).
THEOREM LinesReadAsTyped ==
    ASSUME OptionNamesDistinct
    PROVE  Spec => []InvocationAsTyped
<1>1. ParserInv => InvocationAsTyped
  <2> SUFFICES ASSUME LastInv, last # NoLine PROVE InvocationAsTyped
    BY DEF ParserInv, InvocationAsTyped
  <2>1. PICK from, tokens, typed : /\ from = last.from /\ tokens = last.tokens
                                   /\ typed = AsTyped(last.from, last.tokens)
    OBVIOUS
  <2>2. /\ from \in Nodes /\ IsLine(tokens) /\ tokens # << >>
        /\ ~Parse(from, tokens, NoInvocation, None).failed
        /\ last.invocation = Parse(from, tokens, NoInvocation, None).inv
    BY <2>1 DEF LastInv
  <2>3. last.invocation = typed /\ OfItsTarget(typed)
    BY <2>1, <2>2, ParserReadsLine
  <2>4. \A i \in DOMAIN typed.option :
          (\A j \in 1 .. i - 1 : typed.option[j].option # typed.option[i].option)
            => OptionValue(typed, typed.option[i].option.name) = typed.option[i].value
    BY <2>3, ValueByName
  <2> QED
    BY <2>1, <2>3, <2>4 DEF InvocationAsTyped
<1> QED
  BY <1>1, ParserInvariance, PTL

-----------------------------------------------------------------------------
(* What fits.  However a line is parsed, and wherever the parse stops, no  *)
(* more is bound than there is room for.                                   *)

HasLen(s, k) == \E V : s \in Seq(V) /\ Len(s) = k /\ k \in Nat

LEMMA LenOfNone == HasLen(<< >>, 0)
<1>1. << >> \in Seq({}) /\ Len(<< >>) = 0
  OBVIOUS
<1> QED
  BY <1>1 DEF HasLen

LEMMA LenOfAppend ==
    ASSUME NEW s, NEW k, HasLen(s, k), NEW e
    PROVE  HasLen(Append(s, e), k + 1)
<1>1. PICK V : s \in Seq(V) /\ Len(s) = k /\ k \in Nat
  BY DEF HasLen
<1>2. PICK W : W = V \cup {e}
  OBVIOUS
<1>3. s \in Seq(W) /\ e \in W
  BY <1>1, <1>2
<1>4. Append(s, e) \in Seq(W) /\ Len(Append(s, e)) = k + 1
  BY <1>1, <1>3, AppendProperties
<1> QED
  BY <1>1, <1>4 DEF HasLen

LEMMA LenOfSetValue ==
    ASSUME NEW s, NEW k, HasLen(s, k), NEW w, NEW v
    PROVE  HasLen(SetValue(s, w, v), k)
<1>1. PICK V : s \in Seq(V) /\ Len(s) = k /\ k \in Nat
  BY DEF HasLen
<1>2. PICK e : e = [s[w] EXCEPT !.value = v]
  OBVIOUS
<1>3. PICK u : u = [s EXCEPT ![w] = e]
  OBVIOUS
<1>4. SetValue(s, w, v) = u
  BY <1>2, <1>3 DEF SetValue
<1>5. s = [x \in 1 .. k |-> s[x]] /\ \A x \in 1 .. k : s[x] \in V
  BY <1>1, LenProperties, ElementOfSeq
<1>6. u = [x \in 1 .. k |-> IF x = w THEN e ELSE s[x]]
  BY <1>3, <1>5
<1>7. PICK W : W = V \cup {e}
  OBVIOUS
<1>8. \A x \in 1 .. k : (IF x = w THEN e ELSE s[x]) \in W
  BY <1>5, <1>7
<1>9. u \in Seq(W)
  BY <1>1, <1>6, <1>8
<1>10. DOMAIN u = 1 .. k
  BY <1>6
<1>11. Len(u) = k
  BY <1>1, <1>9, <1>10, LenProperties
<1> QED
  BY <1>1, <1>4, <1>9, <1>11 DEF HasLen

\* What has been bound after n tokens, k of them options.
Bounds(c, t, o, a, b, w, f, n, k) ==
    /\ c \in Nodes /\ t \in Nodes \cup {None} /\ b \in {Yes, No} /\ f \in {Yes, No}
    /\ t \in Nodes \/ (n = 0 /\ f = No)
    /\ b = Yes => t = c
    /\ b = No => w = 0
    /\ \E i \in 0 .. k : HasLen(o, i)
    /\ \E j \in 0 .. MaxArgs : HasLen(a, j)

Bounded(p, n, k) ==
    \E c, t, o, a, b, w, f :
      p = Parsing(c, Invocation(t, o, a), b, w, f) /\ Bounds(c, t, o, a, b, w, f, n, k)

LEMMA TokenBounded ==
    ASSUME NEW p, NEW n \in Nat, NEW k \in Nat, Bounded(p, n, k),
           NEW token, token.kind \in {"word", "option", "equals"}, NEW stray
    PROVE  Bounded(ParseToken(p, token, stray), n + 1, IF token.kind = "word" THEN k ELSE k + 1)
<1>1. PICK c, t, o, a, b, w, f :
        p = Parsing(c, Invocation(t, o, a), b, w, f) /\ Bounds(c, t, o, a, b, w, f, n, k)
  BY Zenon DEF Bounded
<1>2. PICK i \in 0 .. k, j \in 0 .. MaxArgs : HasLen(o, i) /\ HasLen(a, j)
  BY <1>1 DEF Bounds
<1>3. MaxArgs \in Nat /\ None \notin Nodes /\ n + 1 # 0 /\ Commands \subseteq Nodes
  BY CliAssumption DEF Nodes
<1>4. PICK h : h = IF token.kind = "word" THEN k ELSE k + 1
  OBVIOUS
<1>5. h \in Nat /\ k <= h /\ i \in 0 .. h
  BY <1>4
<1>6. Yes \in {Yes, No} /\ No \in {Yes, No} /\ Yes # No
  BY DEF Yes, No
<1>7. PICK r : r = ParseToken(p, token, stray)
  OBVIOUS
<1>8. ASSUME NEW d \in Nodes, NEW e, NEW g, NEW x \in 0 .. h, NEW y \in 0 .. MaxArgs,
             HasLen(e, x), HasLen(g, y), NEW s \in {Yes, No}, NEW z, s = No => z = 0,
             NEW v \in {Yes, No}, r = Parsing(d, Invocation(d, e, g), s, z, v)
      PROVE  Bounded(r, n + 1, h)
  <2>1. Bounds(d, d, e, g, s, z, v, n + 1, h)
    BY <1>8 DEF Bounds
  <2> QED
    BY <1>8, <2>1, Zenon DEF Bounded
<1>9. CASE f = Yes
  <2>1. p.failed = Yes
    BY <1>1, <1>9, ParsingFields
  <2>2. r = p
    BY <1>7, <2>1, FailedStays DEF Yes
  <2>3. Bounds(c, t, o, a, b, w, f, n + 1, h)
    BY <1>1, <1>2, <1>5, <1>6, <1>9 DEF Bounds
  <2>4. Bounded(r, n + 1, h)
    BY <1>1, <2>2, <2>3, Zenon DEF Bounded
  <2> QED
    BY <1>4, <1>7, <2>4
<1>10. CASE f = No /\ token.kind = "word" /\ b = No /\ Find(c, token.text) # None
  <2>1. p = Parsing(c, Invocation(t, o, a), No, 0, No) /\ c \in Nodes
    BY <1>1, <1>10 DEF Bounds
  <2>2. PICK next : next = Find(c, token.text)
    OBVIOUS
  <2>3. next \in Nodes
    <3>1. PICK word : word = token.text
      OBVIOUS
    <3>2. Find(c, word) \in Commands \cup {None}
      BY <2>1, FindFinds
    <3> QED
      BY <1>3, <1>10, <2>2, <3>1, <3>2
  <2>4. r = Parsing(next, Invocation(next, o, a), No, 0, No)
    BY <1>7, <1>10, <2>1, <2>2, WordNames
  <2>5. Bounded(r, n + 1, h)
    BY <1>2, <1>5, <1>6, <1>8, <2>3, <2>4
  <2> QED
    BY <1>4, <1>7, <2>5
<1>11. CASE f = No /\ token.kind = "word" /\ w = 0 /\ (b = Yes \/ Find(c, token.text) = None)
  <2>1. /\ p = Parsing(c, Invocation(t, o, a), b, 0, No) /\ c \in Nodes
        /\ b \in {Yes, No} /\ (b = Yes => t = c)
    BY <1>1, <1>11 DEF Bounds
  <2>2. Argued(c, o, a, token, r)
    BY <1>7, <1>11, <2>1, WordIsArgument
  <2>3. CASE Len(a) >= MaxArgs
    <3>1. r = Parsing(c, Invocation(c, o, a), Yes, 0, Yes)
      BY <2>2, <2>3 DEF Argued
    <3>2. Bounded(r, n + 1, h)
      BY <1>2, <1>5, <1>6, <1>8, <2>1, <3>1
    <3> QED
      BY <1>4, <1>7, <3>2
  <2>4. CASE ~(Len(a) >= MaxArgs)
    <3>1. PICK g : g = Append(a, token.text)
      OBVIOUS
    <3>2. r = Parsing(c, Invocation(c, o, g), Yes, 0, No)
      BY <2>2, <2>4, <3>1 DEF Argued
    <3>3. Len(a) = j
      BY <1>2 DEF HasLen
    <3>4. HasLen(g, j + 1)
      BY <1>2, <3>1, LenOfAppend
    <3>5. j + 1 \in 0 .. MaxArgs
      BY <1>3, <2>4, <3>3
    <3>6. Bounded(r, n + 1, h)
      BY <1>2, <1>5, <1>6, <1>8, <2>1, <3>2, <3>4, <3>5
    <3> QED
      BY <1>4, <1>7, <3>6
  <2> QED
    BY <2>3, <2>4
<1>12. CASE f = No /\ token.kind = "word" /\ w # 0
  <2>1. p = Parsing(c, Invocation(c, o, a), Yes, w, No) /\ c \in Nodes
    BY <1>1, <1>6, <1>12 DEF Bounds
  <2>2. PICK e : e = SetValue(o, w, token.text)
    OBVIOUS
  <2>3. r = Parsing(c, Invocation(c, e, a), Yes, 0, No)
    BY <1>7, <1>12, <2>1, <2>2, WordIsValue
  <2>4. HasLen(e, i)
    BY <1>2, <2>2, LenOfSetValue
  <2>5. Bounded(r, n + 1, h)
    BY <1>2, <1>5, <1>6, <1>8, <2>1, <2>3, <2>4
  <2> QED
    BY <1>4, <1>7, <2>5
<1>13. CASE f = No /\ token.kind # "word"
  <2>1. /\ p = Parsing(c, Invocation(t, o, a), b, w, No) /\ c \in Nodes
        /\ b \in {Yes, No} /\ (b = Yes => t = c)
    BY <1>1, <1>13 DEF Bounds
  <2>3. PICK opt : opt = FindOption(c, NameSeen(token, stray))
    OBVIOUS
  <2>4. token.kind \in {"option", "equals"}
    BY <1>13
  <2>5. Opted(c, o, a, w, token, opt, r)
    BY <1>7, <2>1, <2>3, <2>4, OptionBinds
  <2>6. PICK e, z, v, y : /\ e = Append(o, y) /\ v \in {Yes, No}
                          /\ r = Parsing(c, Invocation(c, e, a), Yes, z, v)
    <3>1. CASE opt = None
      <4>1. r = Parsing(c, Invocation(c, Append(o, Slot(None, None)), a), Yes, w, Yes)
        BY <2>5, <3>1 DEF Opted
      <4> QED
        BY <1>6, <4>1
    <3>2. CASE opt # None
      <4>1. PICK y, z : r = Parsing(c, Invocation(c, Append(o, y), a), Yes, z, No)
        BY <2>5, <3>2, Zenon DEF Opted
      <4> QED
        BY <1>6, <4>1
    <3> QED
      BY <3>1, <3>2
  <2>7. HasLen(e, i + 1)
    BY <1>2, <2>6, LenOfAppend
  <2>8. i + 1 \in 0 .. h
    BY <1>4, <1>13
  <2>9. Bounded(r, n + 1, h)
    BY <1>2, <1>6, <1>8, <2>1, <2>6, <2>7, <2>8
  <2> QED
    BY <1>4, <1>7, <2>9
<1> QED
  BY <1>1, <1>9, <1>10, <1>11, <1>12, <1>13 DEF Bounds

\* How many of the first n tokens are options.
OptionsIn(ts, n) == Cardinality({i \in 1 .. n : ts[i].kind # "word"})

LEMMA OptionsInNext ==
    ASSUME NEW ts, NEW n \in Nat
    PROVE  /\ OptionsIn(ts, n) \in Nat /\ OptionsIn(ts, 0) = 0
           /\ OptionsIn(ts, n + 1)
                = IF ts[n + 1].kind = "word" THEN OptionsIn(ts, n) ELSE OptionsIn(ts, n) + 1
<1> DEFINE S == {i \in 1 .. n : ts[i].kind # "word"}
           R == {i \in 1 .. (n + 1) : ts[i].kind # "word"}
<1>1. IsFiniteSet(S) /\ Cardinality(S) \in Nat
  <2>1. IsFiniteSet(1 .. n)
    BY FS_Interval
  <2>2. S \in SUBSET (1 .. n)
    OBVIOUS
  <2> HIDE DEF S
  <2>3. IsFiniteSet(S)
    BY <2>1, <2>2, FS_Subset
  <2> QED
    BY <2>3, FS_CardinalityType
<1>2. {i \in 1 .. 0 : ts[i].kind # "word"} = {}
  OBVIOUS
<1>3. R = (IF ts[n + 1].kind = "word" THEN S ELSE S \cup {n + 1}) /\ n + 1 \notin S
  OBVIOUS
<1>4. OptionsIn(ts, n) = Cardinality(S) /\ OptionsIn(ts, n + 1) = Cardinality(R)
  BY DEF OptionsIn
<1>5. OptionsIn(ts, 0) = 0
  BY <1>2, FS_EmptySet DEF OptionsIn
<1> HIDE DEF S, R
<1>6. Cardinality(S \cup {n + 1}) = Cardinality(S) + 1
  BY <1>1, <1>3, FS_AddElement
<1> QED
  BY <1>1, <1>3, <1>4, <1>5, <1>6

LEMMA ParsedBounded ==
    ASSUME NEW from \in Nodes, NEW ts, Len(ts) \in Nat,
           \A i \in 1 .. Len(ts) : ts[i].kind \in {"word", "option", "equals"}, NEW stray
    PROVE  \A n \in 0 .. Len(ts) :
             Bounded(Parsed(from, ts, NoInvocation, stray)[n], n, OptionsIn(ts, n))
<1> DEFINE p == Parsed(from, ts, NoInvocation, stray)
           T == {n \in 0 .. Len(ts) : ~Bounded(p[n], n, OptionsIn(ts, n))}
<1> SUFFICES ASSUME T # {} PROVE FALSE
  OBVIOUS
<1>1. /\ p[0] = Parsing(from, NoInvocation, No, 0, No)
      /\ \A n \in 1 .. Len(ts) : p[n] = ParseToken(p[n - 1], ts[n], stray)
  BY ParsedSteps
<1> HIDE DEF p
<1>2. T \subseteq Nat
  OBVIOUS
<1>3. PICK n \in T : \A k \in T : n <= k
  BY <1>2, LeastElement
<1>4. CASE n = 0
  <2>1. PICK e : e = << >>
    OBVIOUS
  <2>2. p[0] = Parsing(from, Invocation(None, e, e), No, 0, No)
    BY <1>1, <2>1 DEF NoInvocation, Invocation
  <2>3. HasLen(e, 0) /\ 0 \in 0 .. OptionsIn(ts, 0) /\ 0 \in 0 .. MaxArgs
    BY <2>1, LenOfNone, OptionsInNext, CliAssumption
  <2>4. Yes # No
    BY DEF Yes, No
  <2>5. Bounds(from, None, e, e, No, 0, No, 0, OptionsIn(ts, 0))
    BY <2>3, <2>4 DEF Bounds
  <2>6. Bounded(p[0], 0, OptionsIn(ts, 0))
    BY <2>2, <2>5, Zenon DEF Bounded
  <2> QED
    BY <1>3, <1>4, <2>6
<1>5. CASE n # 0
  <2>1. n \in 1 .. Len(ts) /\ n - 1 \in 0 .. Len(ts) /\ n - 1 \notin T
    BY <1>3, <1>5
  <2>2. PICK m \in Nat : m = n - 1
    BY <2>1
  <2>3. /\ n = m + 1
        /\ Bounded(p[m], m, OptionsIn(ts, m))
        /\ p[m + 1] = ParseToken(p[m], ts[m + 1], stray)
    BY <1>1, <2>1, <2>2
  <2>4. PICK q, token, k : q = p[m] /\ token = ts[m + 1] /\ k = OptionsIn(ts, m)
    OBVIOUS
  <2>5. /\ token.kind \in {"word", "option", "equals"} /\ k \in Nat
        /\ OptionsIn(ts, m + 1) = IF token.kind = "word" THEN k ELSE k + 1
    BY <2>1, <2>3, <2>4, OptionsInNext
  <2>6. Bounded(ParseToken(q, token, stray), m + 1, IF token.kind = "word" THEN k ELSE k + 1)
    BY <2>3, <2>4, <2>5, TokenBounded
  <2>7. Bounded(p[m + 1], m + 1, OptionsIn(ts, m + 1))
    BY <2>3, <2>4, <2>5, <2>6
  <2> QED
    BY <1>3, <2>3, <2>7
<1> QED
  BY <1>4, <1>5

LEMMA ParseFits ==
    ASSUME NEW from \in Nodes, NEW tokens, IsLine(tokens), tokens # << >>, FewOptions(tokens),
           NEW stray, NEW p, p = Parse(from, tokens, NoInvocation, stray)
    PROVE  Fits(p.inv) /\ p.inv.target \in Nodes
<1>1. PICK ts, L : ts = Read(tokens) /\ L = Len(ts)
  OBVIOUS
<1>2. /\ L \in Nat \ {0}
      /\ \A i \in 1 .. L : /\ ts[i].kind \in {"word", "option", "equals"}
                           /\ i \in DOMAIN tokens /\ ts[i] = tokens[i]
  BY <1>1, ReadReads
<1>3. Bounded(p, L, OptionsIn(ts, L))
  <2>1. p = Parsed(from, ts, NoInvocation, stray)[L]
    BY <1>1 DEF Parse
  <2>2. Len(ts) \in Nat /\ L \in 0 .. Len(ts)
    BY <1>1, <1>2
  <2>3. \A i \in 1 .. Len(ts) : ts[i].kind \in {"word", "option", "equals"}
    BY <1>1, <1>2
  <2> QED
    BY <2>1, <2>2, <2>3, ParsedBounded
<1>4. OptionsIn(ts, L) \in Nat /\ OptionsIn(ts, L) <= MaxOptions
  <2> DEFINE S == {i \in 1 .. L : ts[i].kind # "word"}
             R == {i \in DOMAIN tokens : tokens[i].kind # "word"}
  <2>1. S \in SUBSET R
    BY <1>2
  <2>2. IsFiniteSet(R)
    <3>1. PICK V : V = Range(tokens)
      OBVIOUS
    <3>2. DOMAIN tokens = 1 .. Len(tokens) /\ Len(tokens) \in Nat
      BY <3>1, LenProperties DEF IsLine
    <3>3. IsFiniteSet(1 .. Len(tokens)) /\ R \in SUBSET (1 .. Len(tokens))
      BY <3>2, FS_Interval
    <3> HIDE DEF R
    <3> QED
      BY <3>3, FS_Subset
  <2>3. Cardinality(R) <= MaxOptions
    BY DEF FewOptions
  <2>4. OptionsIn(ts, L) = Cardinality(S)
    BY DEF OptionsIn
  <2> HIDE DEF S, R
  <2>5. IsFiniteSet(S) /\ Cardinality(S) <= Cardinality(R)
    BY <2>1, <2>2, FS_Subset
  <2>6. Cardinality(S) \in Nat /\ Cardinality(R) \in Nat
    BY <2>2, <2>5, FS_CardinalityType
  <2>7. MaxOptions \in Nat
    BY CliAssumption
  <2> QED
    BY <2>3, <2>4, <2>5, <2>6, <2>7
<1>5. PICK c, t, o, a, b, w, f :
        /\ p = Parsing(c, Invocation(t, o, a), b, w, f)
        /\ Bounds(c, t, o, a, b, w, f, L, OptionsIn(ts, L))
  BY <1>3, Zenon DEF Bounded
<1>6. p.inv = Invocation(t, o, a) /\ p.inv.target = t /\ p.inv.option = o /\ p.inv.arg = a
  BY <1>5, ParsingFields, InvocationFields
<1>7. t \in Nodes
  BY <1>2, <1>5 DEF Bounds
<1>8. MaxArgs \in Nat /\ MaxOptions \in Nat
  BY CliAssumption
<1>9. Len(a) <= MaxArgs
  <2>1. PICK j \in 0 .. MaxArgs : HasLen(a, j)
    BY <1>5 DEF Bounds
  <2> QED
    BY <1>8, <2>1 DEF HasLen
<1>10. Len(o) <= MaxOptions
  <2>1. PICK j \in 0 .. OptionsIn(ts, L) : HasLen(o, j)
    BY <1>5 DEF Bounds
  <2> QED
    BY <1>4, <1>8, <2>1 DEF HasLen
<1> QED
  BY <1>6, <1>7, <1>9, <1>10 DEF Fits

LEMMA RootNameFits ==
    ASSUME NEW ts, IsLine(ts), FewOptions(ts), NEW n
    PROVE  FewOptions(<<Word(n)>> \o ts)
<1>1. PICK W : W = Word(n)
  OBVIOUS
<1>2. W.kind = "word"
  BY <1>1 DEF Word
<1>3. PICK S : S = Range(ts) \cup {W}
  OBVIOUS
<1>4. PICK h : h = <<W>>
  OBVIOUS
<1>5. h \in Seq(S) /\ Len(h) = 1 /\ h[1] = W
  BY <1>3, <1>4
<1>6. ts \in Seq(S)
  <2>1. PICK R : R = Range(ts)
    OBVIOUS
  <2>2. ts \in Seq(R) /\ R \subseteq S
    BY <1>3, <2>1 DEF IsLine
  <2> QED
    BY <2>2
<1>7. Len(ts) \in Nat /\ DOMAIN ts = 1 .. Len(ts)
  BY <1>6, LenProperties
<1>8. PICK u : u = h \o ts
  OBVIOUS
<1>9. /\ u \in Seq(S) /\ Len(u) = Len(h) + Len(ts)
      /\ \A i \in 1 .. Len(h) + Len(ts) : u[i] = IF i <= Len(h) THEN h[i] ELSE ts[i - Len(h)]
  BY <1>5, <1>6, <1>8, ConcatProperties
<1>10. DOMAIN u = 1 .. (1 + Len(ts)) /\ \A i \in 2 .. (1 + Len(ts)) : u[i] = ts[i - 1]
  BY <1>5, <1>7, <1>9, LenProperties
<1>11. u[1] = W
  BY <1>5, <1>7, <1>9
<1> DEFINE A == {i \in DOMAIN u : u[i].kind # "word"}
           B == {i \in DOMAIN ts : ts[i].kind # "word"}
<1>12. \A i \in A : i \in 2 .. (1 + Len(ts)) /\ i - 1 \in B
  <2> TAKE i \in A
  <2>1. i \in 1 .. (1 + Len(ts)) /\ i # 1
    BY <1>2, <1>10, <1>11
  <2>2. i \in 2 .. (1 + Len(ts)) /\ i - 1 \in 1 .. Len(ts) /\ u[i] = ts[i - 1]
    BY <1>7, <1>10, <2>1
  <2> QED
    BY <1>7, <2>2
<1>13. IsFiniteSet(B)
  <2>1. IsFiniteSet(1 .. Len(ts)) /\ B \in SUBSET (1 .. Len(ts))
    BY <1>7, FS_Interval
  <2> HIDE DEF B
  <2> QED
    BY <2>1, FS_Subset
<1>14. Cardinality(B) <= MaxOptions
  BY DEF FewOptions
<1> HIDE DEF A, B
<1>15. Cardinality(A) <= Cardinality(B) /\ IsFiniteSet(A)
  <2>1. PICK f : f = [i \in A |-> i - 1]
    OBVIOUS
  <2>2. f \in [A -> B]
    BY <1>12, <2>1
  <2>3. \A i, j \in A : f[i] = f[j] => i = j
    BY <1>12, <2>1
  <2>4. f \in Injection(A, B)
    BY <2>2, <2>3 DEF Injection, IsInjective
  <2> QED
    BY <1>13, <2>4, FS_Injection
<1>16. Cardinality(A) <= MaxOptions
  BY <1>13, <1>14, <1>15, FS_CardinalityType, CliAssumption
<1>17. FewOptions(u)
  BY <1>16 DEF FewOptions, A
<1> QED
  BY <1>1, <1>4, <1>8, <1>17

CallTypes ==
    /\ phase \in {"boot", "run", "ended"}
    /\ static.target \in Nodes \cup {None} /\ Fits(static)
    /\ call # None =>
         /\ call = [inv |-> call.inv, command |-> call.command, depth |-> call.depth,
                    source |-> call.source]
         /\ call.command \in Nodes /\ call.depth \in 0 .. MaxRefDepth /\ Fits(call.inv)

LEMMA LaunchFits ==
    ASSUME ParserInv, CallTypes, Launched, NEW tokens, IsLine(tokens), tokens # << >>,
           FewOptions(tokens), ProcessLaunch(tokens)
    PROVE  CallTypes'
<1>1. static = NoInvocation /\ phase' = "run" /\ call' = call
  BY DEF ParserInv, Launched
<1>2. PICK stray, p : p = Parse(Root, tokens, NoInvocation, stray) /\ static' = p.inv
  BY <1>1 DEF ProcessLaunch
<1>3. Root \in Nodes
  BY DEF Nodes
<1>4. Fits(p.inv) /\ p.inv.target \in Nodes
  BY <1>2, <1>3, ParseFits
<1>5. Fits(static)' /\ static'.target \in Nodes
  BY <1>2, <1>4 DEF Fits
<1> QED
  BY <1>1, <1>5 DEF CallTypes, Fits

LEMMA DispatchingFits ==
    ASSUME NEW inv, Fits(inv), inv.target \in Nodes, NEW source, call' = Dispatching(inv, source)
    PROVE  /\ call' = [inv |-> call'.inv, command |-> call'.command, depth |-> call'.depth,
                       source |-> call'.source]
           /\ call'.command \in Nodes /\ call'.depth \in 0 .. MaxRefDepth /\ Fits(call'.inv)
<1>1. PICK t : t = inv.target
  OBVIOUS
<1>2. /\ call' = [inv |-> call'.inv, command |-> call'.command, depth |-> call'.depth,
                  source |-> call'.source]
      /\ call'.depth = 0 /\ call'.inv = inv /\ call'.command = t
  BY <1>1 DEF Dispatching
<1>3. 0 \in 0 .. MaxRefDepth
  BY RefDepthIsNat
<1> QED
  BY <1>1, <1>2, <1>3

LEMMA LineFits ==
    ASSUME QueueInv, ParserInv, CallTypes, CliLine
    PROVE  CallTypes'
<1>1. UNCHANGED <<phase, static>>
  BY DEF CliLine
<1>2. PICK line, root : line = Head(queue) /\ root = queueRoot
  OBVIOUS
<1>3. \/ call' = call
      \/ \E stray : /\ Runs(root, line)
                    /\ call' = Dispatching(Parse(ParentOf(root), LineTokens(root, line),
                                                 NoInvocation, stray).inv, "line")
  BY <1>2, Zenon DEF CliLine
<1>4. CASE call' = call
  BY <1>1, <1>4 DEF CallTypes, Fits
<1>5. ASSUME NEW stray, Runs(root, line),
             call' = Dispatching(Parse(ParentOf(root), LineTokens(root, line),
                                       NoInvocation, stray).inv, "line")
      PROVE  CallTypes'
  <2>1. line \in Lines
    <3>1. queue \in Seq(Lines) /\ queue # << >>
      BY DEF QueueInv, LinesInv, CliLine
    <3>2. PICK S : S = Lines
      OBVIOUS
    <3> QED
      BY <1>2, <3>1, <3>2, HeadTailProperties
  <2>2. IsLine(line.words) /\ FewOptions(line.words) /\ line.words # << >>
    BY <1>5, <2>1, LineWords, LinesAreTokens, OptionsFit DEF Runs
  <2>3. /\ IsLine(LineTokens(root, line)) /\ LineTokens(root, line) # << >>
        /\ FewOptions(LineTokens(root, line))
    BY <2>2, WithRootName, RootNameFits DEF LineTokens
  <2>4. ParentOf(root) \in Nodes
    BY DEF ParentOf, Nodes
  <2>5. PICK tokens, from, p : /\ tokens = LineTokens(root, line) /\ from = ParentOf(root)
                               /\ p = Parse(from, tokens, NoInvocation, stray)
    OBVIOUS
  <2>6. PICK inv : inv = p.inv
    OBVIOUS
  <2>7. Fits(inv) /\ inv.target \in Nodes
    BY <2>3, <2>4, <2>5, <2>6, ParseFits
  <2>8. call' = Dispatching(inv, "line")
    BY <1>5, <2>5, <2>6
  <2>9. /\ call' = [inv |-> call'.inv, command |-> call'.command, depth |-> call'.depth,
                    source |-> call'.source]
        /\ call'.command \in Nodes /\ call'.depth \in 0 .. MaxRefDepth /\ Fits(call'.inv)
    BY <2>7, <2>8, DispatchingFits
  <2> QED
    BY <1>1, <2>9 DEF CallTypes, Fits
<1> QED
  BY <1>3, <1>4, <1>5

LEMMA HandlerFits ==
    ASSUME CallTypes, CallHandler
    PROVE  CallTypes'
<1>1. UNCHANGED static /\ phase' \in {phase, "ended"} /\ call # None
  BY DEF CallHandler, Finish
<1>2. CASE call' = None
  BY <1>1, <1>2 DEF CallTypes, Fits
<1>3. CASE /\ Handler[call.command] \in Commands /\ ~DepthReached
           /\ call' = [call EXCEPT !.command = Handler[call.command], !.depth = @ + 1]
  <2>1. PICK i, c, d, s : /\ i = call.inv
                          /\ c = Handler[call.command]
                          /\ d = call.depth
                          /\ s = call.source
    OBVIOUS
  <2>2. call = [inv |-> i, command |-> call.command, depth |-> d, source |-> s]
    BY <1>1, <2>1 DEF CallTypes
  <2>3. call' = [inv |-> i, command |-> c, depth |-> d + 1, source |-> s]
    BY <1>3, <2>1, <2>2
  <2>4. c \in Nodes /\ d + 1 \in 0 .. MaxRefDepth /\ Fits(i)
    BY <1>1, <1>3, <2>1, RefDepthIsNat DEF CallTypes, DepthReached, Nodes
  <2>5. /\ call' = [inv |-> call'.inv, command |-> call'.command, depth |-> call'.depth,
                    source |-> call'.source]
        /\ call'.command \in Nodes /\ call'.depth \in 0 .. MaxRefDepth /\ Fits(call'.inv)
    BY <2>3, <2>4
  <2> QED
    BY <1>1, <2>5 DEF CallTypes, Fits
<1> QED
  BY <1>2, <1>3 DEF CallHandler, Finish

\* Every variable keeps its type; in particular no invocation outgrows its arrays, however its
\* line is parsed and wherever the parse stops (command.c:185, command.c:213), and no dispatch
\* goes deeper than the aliases allowed.
THEOREM CliTyping == Spec => []TypeOK
<1>1. Init => CallTypes
  <2> SUFFICES ASSUME Init PROVE CallTypes
    OBVIOUS
  <2>1. static.target = None /\ static.arg = << >> /\ static.option = << >> /\ Len(<< >>) = 0
    BY DEF Init, NoInvocation
  <2>2. Fits(static)
    BY <2>1, CliAssumption DEF Fits
  <2> QED
    BY <2>1, <2>2 DEF CallTypes, Init
<1>2. CallTypes /\ ParserInv /\ QueueInv /\ [Next]_vars => CallTypes'
  <2> SUFFICES ASSUME CallTypes, ParserInv, QueueInv, [Next]_vars PROVE CallTypes'
    OBVIOUS
  <2>1. ASSUME UNCHANGED <<static, call>>, phase' \in {phase, "run", "ended"} PROVE CallTypes'
    BY <2>1 DEF CallTypes, Fits
  <2>2. ASSUME NEW tokens \in LaunchLines, Launch(tokens) PROVE CallTypes'
    <3>1. IsLine(tokens) /\ tokens # << >> /\ FewOptions(tokens)
      BY LinesAreTokens, OptionsFit
    <3> QED
      BY <2>2, <3>1, LaunchFits DEF Launch
  <2>3. ASSUME NEW words \in BootCommands, LaunchBaked(words) PROVE CallTypes'
    <3>1. Launched
      BY <2>3 DEF LaunchBaked
    <3>2. CASE UNCHANGED static
      BY <2>1, <3>1, <3>2 DEF Launched
    <3>3. CASE words # << >> /\ ProcessLaunch(words)
      BY <3>1, <3>3, LinesAreTokens, OptionsFit, LaunchFits
    <3>4. CASE ProcessLaunch(<<Word(Name[AppRoot])>> \o words)
      <4>1. PICK ts : ts = <<Word(Name[AppRoot])>> \o words
        OBVIOUS
      <4>2. IsLine(ts) /\ ts # << >> /\ FewOptions(ts)
        BY <4>1, LinesAreTokens, OptionsFit, WithRootName, RootNameFits
      <4> QED
        BY <3>1, <3>4, <4>1, <4>2, LaunchFits
    <3> QED
      BY <2>3, <3>2, <3>3, <3>4 DEF LaunchBaked
  <2>4. CASE LaunchBare
    BY <2>1, <2>4 DEF LaunchBare, Launched
  <2>5. CASE CliLaunch
    <3>1. /\ static.target \in Nodes /\ Fits(static) /\ UNCHANGED <<phase, static>>
          /\ call' = Dispatching(static, "launch")
      BY <2>5 DEF CliLaunch, CallTypes, scheduler
    <3>2. PICK inv : inv = static
      OBVIOUS
    <3>3. Fits(inv) /\ inv.target \in Nodes /\ call' = Dispatching(inv, "launch")
      BY <3>1, <3>2
    <3>4. /\ call' = [inv |-> call'.inv, command |-> call'.command, depth |-> call'.depth,
                      source |-> call'.source]
          /\ call'.command \in Nodes /\ call'.depth \in 0 .. MaxRefDepth /\ Fits(call'.inv)
      BY <3>3, DispatchingFits
    <3> QED
      BY <3>1, <3>4 DEF CallTypes, Fits
  <2>6. CASE CliLine
    BY <2>6, LineFits
  <2>7. CASE CliNothing
    BY <2>1, <2>7 DEF CliNothing
  <2>8. CASE CallHandler
    BY <2>8, HandlerFits
  <2>9. CASE FeederTask
    BY <2>1, <2>9 DEF FeederTask
  <2>10. CASE NextPass
    BY <2>1, <2>10 DEF NextPass, cli
  <2>11. CASE UNCHANGED vars
    BY <2>1, <2>11 DEF vars, scheduler, cli
  <2> QED
    BY <2>2, <2>3, <2>4, <2>5, <2>6, <2>7, <2>8, <2>9, <2>10, <2>11
       DEF Next, CliTask, Ended
<1>3. CallTypes /\ QueueInv => TypeOK
  <2> SUFFICES ASSUME CallTypes, QueueInv PROVE TypeOK
    OBVIOUS
  <2>1. Range(tasks) \subseteq {"cli", "feeder"}
    <3>1. tasks \in Registered
      BY DEF QueueInv, TurnInv
    <3>2. tasks[1] = "cli" /\ Len(tasks) \in {1, 2} /\ (Len(tasks) = 2 => tasks[2] = "feeder")
      BY <3>1, TaskPlaces
    <3>3. DOMAIN tasks = 1 .. Len(tasks)
      BY <3>1 DEF Registered
    <3> QED
      BY <3>2, <3>3 DEF Range
  <2>2. turn \in 1 .. Len(tasks) + 1 /\ Len(queue) <= QueueDepth
    BY DEF QueueInv, TurnInv, LinesInv
  <2> QED
    BY <2>1, <2>2 DEF CallTypes, TypeOK
<1> QED
  BY <1>1, <1>2, <1>3, QueueInvariance, ParserInvariance, PTL DEF Spec
==============================================================================
