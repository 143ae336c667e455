---------------------------- MODULE MCLightObject ----------------------------
(* Small instances of LightObject: who makes which object. *)
EXTENDS LightObject

CONSTANTS t1, t2, command, module, device, stdout

MCMaker  == [o \in Objects |-> IF o \in Allocated THEN t1 ELSE t2]
=============================================================================
