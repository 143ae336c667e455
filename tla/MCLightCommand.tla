--------------------------- MODULE MCLightCommand ---------------------------
(* A small instance of LightCommand: an application "app" with or without a root command of *)
(* its own, a library's commands under whatever root there is, a second application linked  *)
(* in by mistake, and one command made at run time.                                         *)
EXTENDS LightCommand, TLC

CONSTANTS auto, other, hand, run, ui, focus, next, deep, back, made, verbose, quiet

MCDeclared ==
  auto :> Root @@ other :> Root @@ hand :> Root @@ run :> hand
    @@ ui :> AppRoot @@ focus :> ui @@ next :> focus @@ deep :> next @@ back :> AppRoot
    @@ made :> ui
MCName ==
  auto :> "app" @@ other :> "other" @@ hand :> "app" @@ run :> "run"
    @@ ui :> "ui" @@ focus :> "focus" @@ next :> "next" @@ deep :> "deep" @@ back :> "back"
    @@ made :> "made"
MCOwner == verbose :> ui @@ quiet :> ui
=============================================================================
