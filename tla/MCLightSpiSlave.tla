--------------------------- MODULE MCLightSpiSlave ---------------------------
(* LightSpiSlave alone, for the F4: its peripheral has a single data register, and  *)
(* interrupts at every byte.                                                         *)
EXTENDS LightSpiSlave

MCDepth == [p \in Ports |-> 1]
MCThreshold == [p \in Ports |-> 1]
==============================================================================
