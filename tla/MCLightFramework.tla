-------------------------- MODULE MCLightFramework --------------------------
(* A small instance of LightFramework: an application on a module tree in which both the  *)
(* application and a library reach light_cli and light_core.                              *)
EXTENDS LightFramework, TLC

CONSTANTS app, ui, cli, core

MCDeps == app :> <<ui, cli>> @@ ui :> <<cli, core>> @@ cli :> <<core>> @@ core :> <<>>
MCRank == app :> 3 @@ ui :> 2 @@ cli :> 1 @@ core :> 0
=============================================================================
