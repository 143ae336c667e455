------------------------------- MODULE Platform -------------------------------
(***************************************************************************)
(* The chip a build of the framework is for.  The chip modules define the  *)
(* same functions each in its own way and the build links one of them, so  *)
(* the choice is made once, before anything runs, and never changes.       *)
(***************************************************************************)
CONSTANT Platforms      \* a subset of {"rp2", "h7", "f4", "host"}

ASSUME PlatformAssumption == Platforms \subseteq {"rp2", "h7", "f4", "host"}

VARIABLE platform       \* whose implementation is linked into this image

PlatformInit == platform \in Platforms
===============================================================================
