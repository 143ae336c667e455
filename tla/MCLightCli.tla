----------------------------- MODULE MCLightCli -----------------------------
(* A small instance of LightCli: an application "app" with a command "font", its subcommand *)
(* "add" and one valued option and one switch, a console, a handler that queues a batch, a  *)
(* chain of aliases one too long and a cycle.                                               *)
EXTENDS LightCli, TLC

CONSTANTS app, font, add, console, batch, loop, far, near, end, root

MCChild ==
  root :> <<app>> @@ app :> <<font, console, batch, loop, far>> @@ font :> <<add>>
    @@ [c \in {add, console, batch, loop, far, near, end} |-> <<>>]
MCName ==
  app :> "app" @@ font :> "font" @@ add :> "add" @@ console :> "console" @@ batch :> "batch"
    @@ loop :> "loop" @@ far :> "far" @@ near :> "near" @@ end :> "end"
\* The code of the first option is the whole name of the second.
MCOption ==
  [c \in Nodes |->
     IF c = font THEN <<[name |-> "size", code |-> "v", type |-> "option"],
                        [name |-> "v", code |-> "b", type |-> "switch"]>>
     ELSE IF c = add THEN <<[name |-> "size", code |-> "s", type |-> "option"]>>
     ELSE <<>>]
MCHandler ==
  root :> None @@ app :> None @@ font :> "success" @@ add :> "error" @@ console :> "console"
    @@ batch :> "batch" @@ loop :> loop @@ far :> near @@ near :> end @@ end :> "success"

opt(w) == [kind |-> "option", text |-> w, value |-> None]
MCTokens ==
  {Word("font"), Word("add"), Word("x"), opt("size"), opt("v"), opt("b"),
   [kind |-> "equals", text |-> "size", value |-> "7"]}
Few(line) == Len(SelectSeq(line, LAMBDA t : t.kind # "word")) <= MaxOptions
MCLaunchLines ==
  {line \in {<<Word("app")>> \o l : l \in SeqOf(MCTokens, 4)} : Few(line)}
    \cup {<<Word("app"), Word(w)>> : w \in {"console", "batch", "loop", "far"}}
    \cup {<<Word("other"), Word("font")>>}
MCBootCommands == {<<>>, <<Word("console")>>, <<Word("app"), Word("far")>>}

Line(words) == [words |-> words, open |-> FALSE]
MCInputs ==
  {<<>>, <<Line(<<Word("font"), Word("x")>>), Line(<<Word("app"), Word("batch")>>),
           [words |-> <<Word("font")>>, open |-> TRUE]>>,
   <<Line(<<>>), Line(<<Word("font"), opt("size"), opt("v"), Word("x")>>),
     Line(<<Word("font"), opt("size"), Word("x")>>), Line(<<Word("loop")>>)>>}
MCBatch == <<Line(<<Word("font")>>), Line(<<Word("far")>>), Line(<<Word("font"), opt("z")>>)>>
=============================================================================
