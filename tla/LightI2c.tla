------------------------------- MODULE LightI2c -------------------------------
(***************************************************************************)
(* I2C transfers of light_ioport: the display writes that carry a control  *)
(* byte, and the register reads and writes with 8 and 16 bit addresses.    *)
(*                                                                         *)
(* Only the RP2 port implements them; on STM32 and on the host they are    *)
(* stubs.  The RP2 port builds every operation from one or two calls of    *)
(* the pico-sdk, which keeps one flag per peripheral, restart_on_next: it  *)
(* is set by a call that leaves the START held (nostop), whether the call  *)
(* succeeded or not, and the next call on that peripheral opens with a     *)
(* repeated START if it is set.  The contexts of two devices on one        *)
(* peripheral share that flag.                                             *)
(*                                                                         *)
(* Every operation blocks its caller, so it is one action here; each call  *)
(* of the SDK in it succeeds or fails (no acknowledge, or its timeout).    *)
(***************************************************************************)
EXTENDS Integers, Sequences, Platform

CONSTANTS
    I2cContexts,        \* the io_contexts of the devices on I2C
    I2cPort,            \* I2cPort[c]: the peripheral context c names (port_id)
    MaxPayload          \* bound on the bytes of a burst or a register access

ASSUME I2cAssumption == MaxPayload \in Nat \ {0}

I2cPorts == {I2cPort[c] : c \in I2cContexts}

VARIABLES
    i2cOpen,            \* the contexts light_ioport_setup_io_i2c() has returned
    restartOnNext,      \* restartOnNext[p]: the SDK's flag of peripheral p
    i2cLast             \* the operation that has just returned, and its wire

i2cVars == <<i2cOpen, restartOnNext, i2cLast>>

(***************************************************************************)
(* What an operation puts on the wire: the transfers, each with how it     *)
(* opened ("start", or "restart" under a held START), its direction, what  *)
(* it carries, whether the device took it, and whether it ends with a STOP.*)
(***************************************************************************)
Transfer(how, dir, carries, ok, stop) ==
    [how |-> how, dir |-> dir, carries |-> carries, ok |-> ok, stop |-> stop]

\* A peripheral in the course of an operation: the flag and the wire so far.
Begin(p) == [restart |-> restartOnNext[p], wire |-> <<>>]

\* i2c_write_timeout_us() and i2c_read_timeout_us(): the flag decides how the
\* transfer opens and is then overwritten with nostop on every path; an
\* aborted transfer ends with the STOP the hardware generates.
I2cTransfer(s, dir, carries, nostop, ok) ==
    [restart |-> nostop,
     wire |-> Append(s.wire, Transfer(IF s.restart THEN "restart" ELSE "start",
                                      dir, carries, ok, ~(nostop /\ ok)))]

\* Mutant: a failed transfer returns with the flag still set.
LeaveRestart(s) == s

I2cClearRestart(s) == [s EXCEPT !.restart = FALSE]

\* The operation op of context c returns result and leaves its peripheral as s.
Return(c, op, len, s, result) ==
    /\ restartOnNext' = [restartOnNext EXCEPT ![I2cPort[c]] = s.restart]
    /\ i2cLast' = [ctx |-> c, op |-> op, len |-> len, wire |-> s.wire, result |-> result]
    /\ UNCHANGED i2cOpen

NoOperation == [ctx |-> "none", op |-> "none", len |-> 0, wire |-> <<>>, result |-> FALSE]

-------------------------------------------------------------------------------
\* The RP2 port.

\* A control byte under a held START, then the payload.  What the SDK answers
\* is not looked at: the payload is sent after a control byte that failed too.
Rp2I2cSend(c, control, len, first, second) ==
    LET s1 == I2cTransfer(Begin(I2cPort[c]), "write", <<control>>, TRUE, first)
        s2 == I2cTransfer(s1, "write", <<"payload", len>>, FALSE, second)
    IN  Return(c, control, len, s2, first /\ second)

\* The address under a held START, then the answer read with its own STOP.
Rp2ReadRegister(c, len, first, second) ==
    LET s1 == I2cTransfer(Begin(I2cPort[c]), "write", <<"reg">>, TRUE, first)
        s2 == I2cTransfer(s1, "read", <<"payload", len>>, FALSE, second)
    IN  IF ~first
        THEN Return(c, "read", len, I2cClearRestart(s1), FALSE)
        ELSE Return(c, "read", len, s2, second)

\* The same with a payload written; with none the held START is all there is.
Rp2WriteRegister(c, len, first, second) ==
    LET s1 == I2cTransfer(Begin(I2cPort[c]), "write", <<"reg">>, TRUE, first)
        s2 == I2cTransfer(s1, "write", <<"payload", len>>, FALSE, second)
    IN  CASE ~first            -> Return(c, "write", len, I2cClearRestart(s1), FALSE)
          [] first /\ len = 0  -> Return(c, "write", len, I2cClearRestart(s1), TRUE)
          [] OTHER             -> Return(c, "write", len, s2, second)

\* Address and value as one payload.
Rp2WriteRegisterByte(c, ok) ==
    LET s == I2cTransfer(Begin(I2cPort[c]), "write", <<"reg", "value">>, FALSE, ok)
    IN  Return(c, "writeByte", 1, s, ok)

Rp2ReadRegister16(c, len, first, second) ==
    LET s1 == I2cTransfer(Begin(I2cPort[c]), "write", <<"regHigh", "regLow">>, TRUE, first)
        s2 == I2cTransfer(s1, "read", <<"payload", len>>, FALSE, second)
    IN  IF ~first
        THEN Return(c, "read16", len, I2cClearRestart(s1), FALSE)
        ELSE Return(c, "read16", len, s2, second)

\* With no payload the address is a transaction of its own, STOP included.
Rp2WriteRegister16(c, len, first, second) ==
    LET address(nostop) ==
            I2cTransfer(Begin(I2cPort[c]), "write", <<"regHigh", "regLow">>, nostop, first)
        s2 == I2cTransfer(address(TRUE), "write", <<"payload", len>>, FALSE, second)
    IN  CASE len = 0            -> Return(c, "write16", len, address(FALSE), first)
          [] len # 0 /\ ~first  -> Return(c, "write16", len, I2cClearRestart(address(TRUE)), FALSE)
          [] OTHER              -> Return(c, "write16", len, s2, second)

\* The STM32 port: nothing reaches a wire, a register access answers FALSE.
StmI2cStub(c, op, len) == Return(c, op, len, Begin(I2cPort[c]), FALSE)

\* The host port: the same, without the complaint the STM32 port logs at setup.
HostI2cStub(c, op, len) == Return(c, op, len, Begin(I2cPort[c]), FALSE)

-------------------------------------------------------------------------------
\* The calls of light_ioport on a context of type IO_I2C.

I2cStub(c, op, len) ==
    \/ platform \in {"h7", "f4"} /\ StmI2cStub(c, op, len)
    \/ platform = "host" /\ HostI2cStub(c, op, len)

\* light_ioport_setup_io_i2c(): i2c_init() resets the peripheral, the flag too.
Rp2I2cPortInit(c) ==
    restartOnNext' = [restartOnNext EXCEPT ![I2cPort[c]] = FALSE]

SetupI2c(c) ==
    /\ c \notin i2cOpen
    /\ i2cOpen' = i2cOpen \union {c}
    /\ i2cLast' = NoOperation
    /\ IF platform = "rp2" THEN Rp2I2cPortInit(c) ELSE UNCHANGED restartOnNext

I2cSendByte(c) ==
    /\ c \in i2cOpen
    /\ \E control \in {"command", "data"} :
        \/ platform = "rp2"
           /\ \E first, second \in BOOLEAN : Rp2I2cSend(c, control, 1, first, second)
        \/ I2cStub(c, control, 1)

\* The asynchronous burst is the blocking one on this transport, and
\* light_ioport_burst_is_complete() answers TRUE whenever it is asked.
I2cSendBurst(c) ==
    /\ c \in i2cOpen
    /\ \E len \in 1..MaxPayload :
        \/ platform = "rp2"
           /\ \E first, second \in BOOLEAN : Rp2I2cSend(c, "data", len, first, second)
        \/ I2cStub(c, "data", len)

I2cReadRegister(c) ==
    /\ c \in i2cOpen
    /\ \E len \in 1..MaxPayload :
        \/ platform = "rp2"
           /\ \E first, second \in BOOLEAN : Rp2ReadRegister(c, len, first, second)
        \/ I2cStub(c, "read", len)

I2cWriteRegister(c) ==
    /\ c \in i2cOpen
    /\ \E len \in 0..MaxPayload :
        \/ platform = "rp2"
           /\ \E first, second \in BOOLEAN : Rp2WriteRegister(c, len, first, second)
        \/ I2cStub(c, "write", len)

I2cWriteRegisterByte(c) ==
    /\ c \in i2cOpen
    /\ \/ platform = "rp2" /\ \E ok \in BOOLEAN : Rp2WriteRegisterByte(c, ok)
       \/ I2cStub(c, "writeByte", 1)

I2cReadRegister16(c) ==
    /\ c \in i2cOpen
    /\ \E len \in 1..MaxPayload :
        \/ platform = "rp2"
           /\ \E first, second \in BOOLEAN : Rp2ReadRegister16(c, len, first, second)
        \/ I2cStub(c, "read16", len)

I2cWriteRegister16(c) ==
    /\ c \in i2cOpen
    /\ \E len \in 0..MaxPayload :
        \/ platform = "rp2"
           /\ \E first, second \in BOOLEAN : Rp2WriteRegister16(c, len, first, second)
        \/ I2cStub(c, "write16", len)

I2cInit ==
    /\ i2cOpen = {}
    /\ restartOnNext = [p \in I2cPorts |-> FALSE]
    /\ i2cLast = NoOperation

I2cNext ==
    \E c \in I2cContexts :
        \/ SetupI2c(c)
        \/ I2cSendByte(c)
        \/ I2cSendBurst(c)
        \/ I2cReadRegister(c)
        \/ I2cWriteRegister(c)
        \/ I2cWriteRegisterByte(c)
        \/ I2cReadRegister16(c)
        \/ I2cWriteRegister16(c)

I2cSpec == PlatformInit /\ I2cInit /\ [][I2cNext /\ UNCHANGED platform]_<<i2cVars, platform>>

-------------------------------------------------------------------------------
(***************************************************************************)
(* What light_ioport.h promises of the wire for an operation that reports  *)
(* success: which transfers, in which order, held together or not.         *)
(***************************************************************************)
Opening(carries, stop) == Transfer("start", "write", carries, TRUE, stop)
Joined(dir, len) == Transfer("restart", dir, <<"payload", len>>, TRUE, TRUE)

Promised(op, len) ==
    CASE op \in {"command", "data"}   -> <<Opening(<<op>>, FALSE), Joined("write", len)>>
      [] op = "read"                  -> <<Opening(<<"reg">>, FALSE), Joined("read", len)>>
      [] op = "write" /\ len = 0      -> <<Opening(<<"reg">>, FALSE)>>
      [] op = "write" /\ len # 0      -> <<Opening(<<"reg">>, FALSE), Joined("write", len)>>
      [] op = "writeByte"             -> <<Opening(<<"reg", "value">>, TRUE)>>
      [] op = "read16"                -> <<Opening(<<"regHigh", "regLow">>, FALSE),
                                           Joined("read", len)>>
      [] op = "write16" /\ len = 0    -> <<Opening(<<"regHigh", "regLow">>, TRUE)>>
      [] op = "write16" /\ len # 0    -> <<Opening(<<"regHigh", "regLow">>, FALSE),
                                           Joined("write", len)>>

I2cTypeOK ==
    /\ i2cOpen \subseteq I2cContexts
    /\ restartOnNext \in [I2cPorts -> BOOLEAN]

(***************************************************************************)
(* An operation on one device is never disturbed by what an earlier one,   *)
(* perhaps on another device of the same peripheral, failed to finish: it  *)
(* opens with a START, and when it reports success the device has seen     *)
(* exactly the transfers the header promises, so that a strictly framed    *)
(* register write is one transaction and the others hold their START.      *)
(* (The failure paths of rp2/platform.c that return with the SDK's flag    *)
(* set, and the two meanings of a write without payload.)                  *)
(***************************************************************************)
I2cWireAsPromised ==
    i2cLast.wire # <<>> =>
        /\ i2cLast.wire[1].how = "start"
        /\ i2cLast.result => i2cLast.wire = Promised(i2cLast.op, i2cLast.len)
===============================================================================
