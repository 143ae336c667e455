----------------------------- MODULE LightBusProofs -----------------------------
(***************************************************************************)
(* The promises of light_ioport to devices on I2C and on SPI, for any      *)
(* number of devices and peripherals, wired in any way.                    *)
(***************************************************************************)
EXTENDS LightI2c, LightSpiMaster, SequenceTheorems, TLAPS

-----------------------------------------------------------------------------
(* I2C.  An operation that starts with restart_on_next clear opens with a  *)
(* START, and on every path leaves the flag clear again: that is the       *)
(* invariant, and it is what a failure path that returns early must mind.  *)

\* What I2cWireAsPromised says of one operation that has returned.
AsPromised(o) ==
    o.wire # <<>> =>
        /\ o.wire[1].how = "start"
        /\ o.result => o.wire = Promised(o.op, o.len)

FlagsClear == restartOnNext = [p \in I2cPorts |-> FALSE]

I2cInv ==
    /\ i2cOpen \subseteq I2cContexts
    /\ FlagsClear
    /\ AsPromised(i2cLast)

\* What opens an operation, the flag being clear.
LEMMA FlagIs ==
    ASSUME FlagsClear, NEW c \in I2cContexts
    PROVE  Begin(I2cPort[c]).restart = FALSE /\ Begin(I2cPort[c]).wire = << >>
  BY DEF FlagsClear, I2cPorts, Begin

\* The first two entries on a wire.
LEMMA FirstEntry ==
    ASSUME NEW x
    PROVE  Append(<< >>, x) = <<x>>
  OBVIOUS

LEMMA SecondEntry ==
    ASSUME NEW t, NEW x
    PROVE  Append(<<t>>, x) = <<t, x>>
<1> DEFINE S == {t, x}
           u == Append(<<t>>, x)
           v == <<t, x>>
<1>1. <<t>> \in Seq(S) /\ x \in S /\ Len(<<t>>) = 1 /\ <<t>>[1] = t
  OBVIOUS
<1>2. v \in Seq(S) /\ Len(v) = 2 /\ v[1] = t /\ v[2] = x
  OBVIOUS
<1> HIDE DEF S, v
<1>3. u \in Seq(S) /\ Len(u) = 2 /\ u[1] = t /\ u[2] = x
  BY <1>1, AppendProperties
<1> HIDE DEF u
<1>4. \A i \in 1..Len(u) : u[i] = v[i]
  BY <1>2, <1>3
<1>5. u = v
  BY <1>2, <1>3, <1>4, SeqEqual
<1> QED
  BY <1>5 DEF u, v

\* An operation that leaves the flag clear and keeps the promise keeps the invariant.
LEMMA ReturnKeeps ==
    ASSUME I2cInv, NEW c \in I2cContexts, NEW op, NEW len, NEW s, NEW result,
           Return(c, op, len, s, result), s.restart = FALSE,
           s.wire # <<>> => s.wire[1].how = "start" /\ (result => s.wire = Promised(op, len))
    PROVE  I2cInv'
<1>1. restartOnNext' = restartOnNext
  BY DEF Return, I2cInv, FlagsClear, I2cPorts
<1>2. AsPromised(i2cLast)'
  BY DEF Return, AsPromised
<1> QED
  BY <1>1, <1>2 DEF Return, I2cInv, FlagsClear

\* An address under a held START, and what may follow it.
Held(c, carries, first) == I2cTransfer(Begin(I2cPort[c]), "write", carries, TRUE, first)
Both(c, carries, dir, payload, first, second) ==
    I2cTransfer(Held(c, carries, first), dir, payload, FALSE, second)

\* What the two are like.
AddressSent(s, carries, first) ==
    /\ I2cClearRestart(s).restart = FALSE /\ I2cClearRestart(s).wire = s.wire
    /\ s.wire[1].how = "start"
    /\ first => s.wire = <<Opening(carries, FALSE)>>
BothSent(s, carries, dir, payload, done) ==
    /\ s.restart = FALSE /\ s.wire[1].how = "start"
    /\ done => s.wire = <<Opening(carries, FALSE), Transfer("restart", dir, payload, TRUE, TRUE)>>

LEMMA HeldIs ==
    ASSUME FlagsClear, NEW c \in I2cContexts, NEW carries, NEW first \in BOOLEAN
    PROVE  AddressSent(Held(c, carries, first), carries, first)
<1> DEFINE b == Begin(I2cPort[c])
           t == Transfer("start", "write", carries, first, ~(TRUE /\ first))
           s == Held(c, carries, first)
<1>1. b.restart = FALSE /\ b.wire = << >>
  BY FlagIs
<1>2. s = I2cTransfer(b, "write", carries, TRUE, first)
  BY DEF Held
<1> HIDE DEF b, s
<1>3. s.restart = TRUE /\ s.wire = Append(<< >>, t)
  BY <1>1, <1>2 DEF I2cTransfer
<1>4. t.how = "start" /\ (first => t = Opening(carries, FALSE))
  BY DEF Transfer, Opening
<1> HIDE DEF t
<1>5. s.wire = <<t>>
  BY <1>3, FirstEntry
<1>6. s.wire[1].how = "start" /\ (first => s.wire = <<Opening(carries, FALSE)>>)
  <2>1. s.wire[1].how = "start"
    BY <1>4, <1>5
  <2>2. first => s.wire = <<Opening(carries, FALSE)>>
    BY <1>4, <1>5, Zenon
  <2> QED
    BY <2>1, <2>2
<1>7. I2cClearRestart(s).restart = FALSE /\ I2cClearRestart(s).wire = s.wire
  BY <1>2 DEF I2cClearRestart, I2cTransfer
<1> QED
  BY <1>6, <1>7 DEF AddressSent, s

LEMMA BothAre ==
    ASSUME FlagsClear, NEW c \in I2cContexts, NEW carries, NEW dir, NEW payload,
           NEW first \in BOOLEAN, NEW second \in BOOLEAN
    PROVE  BothSent(Both(c, carries, dir, payload, first, second), carries, dir, payload, first /\ second)
<1> DEFINE t == Transfer("start", "write", carries, first, ~(TRUE /\ first))
           u == Transfer("restart", dir, payload, second, ~(FALSE /\ second))
           b == Begin(I2cPort[c])
           a == Held(c, carries, first)
           s == Both(c, carries, dir, payload, first, second)
<1>1. b.restart = FALSE /\ b.wire = << >>
  BY FlagIs
<1>2. a = I2cTransfer(b, "write", carries, TRUE, first)
  BY DEF Held
<1>3. s = I2cTransfer(a, dir, payload, FALSE, second)
  BY DEF Both
<1> HIDE DEF a, b, s
<1>4. a.restart = TRUE /\ a.wire = Append(<< >>, t)
  BY <1>1, <1>2 DEF I2cTransfer
<1>5. s.restart = FALSE /\ s.wire = Append(a.wire, u)
  BY <1>3, <1>4 DEF I2cTransfer
<1>6. t.how = "start" /\ (first => t = Opening(carries, FALSE))
  BY DEF Transfer, Opening
<1>7. second => u = Transfer("restart", dir, payload, TRUE, TRUE)
  BY DEF Transfer
<1> HIDE DEF t, u
<1>8. s.wire = <<t, u>>
  BY <1>4, <1>5, FirstEntry, SecondEntry
<1>9. s.wire[1].how = "start"
  BY <1>6, <1>8
<1>10. first /\ second =>
         s.wire = <<Opening(carries, FALSE), Transfer("restart", dir, payload, TRUE, TRUE)>>
  BY <1>6, <1>7, <1>8, Zenon
<1> QED
  BY <1>5, <1>9, <1>10 DEF BothSent, s

\* A transfer that is an operation of its own.
Single(c, carries, ok) == I2cTransfer(Begin(I2cPort[c]), "write", carries, FALSE, ok)
SingleSent(s, carries, ok) ==
    /\ s.restart = FALSE /\ s.wire[1].how = "start"
    /\ ok => s.wire = <<Opening(carries, TRUE)>>

LEMMA SingleIs ==
    ASSUME FlagsClear, NEW c \in I2cContexts, NEW carries, NEW ok \in BOOLEAN
    PROVE  SingleSent(Single(c, carries, ok), carries, ok)
<1> DEFINE b == Begin(I2cPort[c])
           t == Transfer("start", "write", carries, ok, ~(FALSE /\ ok))
           s == Single(c, carries, ok)
<1>1. b.restart = FALSE /\ b.wire = << >>
  BY FlagIs
<1>2. s = I2cTransfer(b, "write", carries, FALSE, ok)
  BY DEF Single
<1> HIDE DEF b, s
<1>3. s.restart = FALSE /\ s.wire = Append(<< >>, t)
  BY <1>1, <1>2 DEF I2cTransfer
<1>4. t.how = "start" /\ (ok => t = Opening(carries, TRUE))
  BY DEF Transfer, Opening
<1> HIDE DEF t
<1>5. s.wire = <<t>>
  BY <1>3, FirstEntry
<1>6. s.wire[1].how = "start"
  BY <1>4, <1>5
<1>7. ok => s.wire = <<Opening(carries, TRUE)>>
  BY <1>4, <1>5, Zenon
<1> QED
  BY <1>3, <1>6, <1>7 DEF SingleSent, s

\* Display writes: rp2/platform.c sends the payload after a control byte that failed, too.
LEMMA SendKeeps ==
    ASSUME I2cInv, NEW c \in I2cContexts, NEW control \in {"command", "data"}, NEW len,
           NEW first \in BOOLEAN, NEW second \in BOOLEAN, Rp2I2cSend(c, control, len, first, second)
    PROVE  I2cInv'
<1> DEFINE s == Both(c, <<control>>, "write", <<"payload", len>>, first, second)
<1>1. Return(c, control, len, s, first /\ second)
  BY DEF Rp2I2cSend, Held, Both
<1>2. FlagsClear
  BY DEF I2cInv
<1>3. BothSent(s, <<control>>, "write", <<"payload", len>>, first /\ second)
  BY <1>2, BothAre
<1>4. Promised(control, len) = <<Opening(<<control>>, FALSE), Joined("write", len)>>
  BY DEF Promised
<1> HIDE DEF s
<1> QED
  BY <1>1, <1>3, <1>4, ReturnKeeps DEF BothSent, Joined

\* A register access whose address, and with it the START held, did or did not get through.
LEMMA HeldKeeps ==
    ASSUME I2cInv, NEW c \in I2cContexts, NEW carries, NEW op, NEW len, NEW first \in BOOLEAN,
           NEW result \in BOOLEAN,
           Return(c, op, len, I2cClearRestart(Held(c, carries, first)), result),
           result => first /\ Promised(op, len) = <<Opening(carries, FALSE)>>
    PROVE  I2cInv'
<1> DEFINE s == Held(c, carries, first)
           r == I2cClearRestart(s)
<1>1. FlagsClear
  BY DEF I2cInv
<1>2. AddressSent(s, carries, first)
  BY <1>1, HeldIs
<1> HIDE DEF s
<1>3. r.restart = FALSE /\ r.wire[1].how = "start" /\ (first => r.wire = <<Opening(carries, FALSE)>>)
  BY <1>2 DEF AddressSent
<1>4. Return(c, op, len, r, result)
  BY DEF s
<1> HIDE DEF r
<1> QED
  BY <1>3, <1>4, ReturnKeeps

LEMMA BothKeeps ==
    ASSUME I2cInv, NEW c \in I2cContexts, NEW carries, NEW dir, NEW op, NEW len,
           NEW second \in BOOLEAN,
           Return(c, op, len, Both(c, carries, dir, <<"payload", len>>, TRUE, second), second),
           Promised(op, len) = <<Opening(carries, FALSE), Joined(dir, len)>>
    PROVE  I2cInv'
<1> DEFINE s == Both(c, carries, dir, <<"payload", len>>, TRUE, second)
<1>1. FlagsClear
  BY DEF I2cInv
<1>2. PICK first \in BOOLEAN : first = TRUE
  OBVIOUS
<1>3. BothSent(s, carries, dir, <<"payload", len>>, first /\ second)
  BY <1>1, <1>2, BothAre
<1> HIDE DEF s
<1>4. s.restart = FALSE /\ s.wire[1].how = "start"
      /\ (second => s.wire = <<Opening(carries, FALSE), Joined(dir, len)>>)
  BY <1>2, <1>3 DEF BothSent, Joined
<1>5. Return(c, op, len, s, second)
  BY DEF s
<1> QED
  BY <1>4, <1>5, ReturnKeeps

LEMMA SingleKeeps ==
    ASSUME I2cInv, NEW c \in I2cContexts, NEW carries, NEW op, NEW len, NEW ok \in BOOLEAN,
           Return(c, op, len, Single(c, carries, ok), ok),
           Promised(op, len) = <<Opening(carries, TRUE)>>
    PROVE  I2cInv'
<1> DEFINE s == Single(c, carries, ok)
<1>1. FlagsClear
  BY DEF I2cInv
<1>2. SingleSent(s, carries, ok)
  BY <1>1, SingleIs
<1>3. Return(c, op, len, s, ok)
  OBVIOUS
<1> HIDE DEF s
<1> QED
  BY <1>2, <1>3, ReturnKeeps DEF SingleSent

\* Register accesses.
LEMMA ReadKeeps ==
    ASSUME I2cInv, NEW c \in I2cContexts, NEW len, NEW first \in BOOLEAN, NEW second \in BOOLEAN,
           Rp2ReadRegister(c, len, first, second)
    PROVE  I2cInv'
<1>1. CASE ~first
  <2>1. Return(c, "read", len, I2cClearRestart(Held(c, <<"reg">>, first)), FALSE)
    BY <1>1 DEF Rp2ReadRegister, Held
  <2> QED
    BY <2>1, HeldKeeps
<1>2. CASE first
  <2>1. Return(c, "read", len, Both(c, <<"reg">>, "read", <<"payload", len>>, TRUE, second), second)
    BY <1>2 DEF Rp2ReadRegister, Held, Both
  <2>2. Promised("read", len) = <<Opening(<<"reg">>, FALSE), Joined("read", len)>>
    BY DEF Promised
  <2> QED
    BY <2>1, <2>2, BothKeeps
<1> QED
  BY <1>1, <1>2

LEMMA WriteKeeps ==
    ASSUME I2cInv, NEW c \in I2cContexts, NEW len, NEW first \in BOOLEAN, NEW second \in BOOLEAN,
           Rp2WriteRegister(c, len, first, second)
    PROVE  I2cInv'
<1>1. CASE ~first
  <2>1. Return(c, "write", len, I2cClearRestart(Held(c, <<"reg">>, first)), FALSE)
    BY <1>1 DEF Rp2WriteRegister, Held
  <2> QED
    BY <2>1, HeldKeeps
<1>2. CASE first /\ len = 0
  <2>1. Return(c, "write", len, I2cClearRestart(Held(c, <<"reg">>, first)), TRUE)
    BY <1>2 DEF Rp2WriteRegister, Held
  <2>2. Promised("write", len) = <<Opening(<<"reg">>, FALSE)>>
    BY <1>2 DEF Promised
  <2> QED
    BY <1>2, <2>1, <2>2, HeldKeeps
<1>3. CASE first /\ len # 0
  <2>1. Return(c, "write", len, Both(c, <<"reg">>, "write", <<"payload", len>>, TRUE, second), second)
    BY <1>3 DEF Rp2WriteRegister, Held, Both
  <2>2. Promised("write", len) = <<Opening(<<"reg">>, FALSE), Joined("write", len)>>
    BY <1>3 DEF Promised
  <2> QED
    BY <2>1, <2>2, BothKeeps
<1> QED
  BY <1>1, <1>2, <1>3

LEMMA WriteByteKeeps ==
    ASSUME I2cInv, NEW c \in I2cContexts, NEW ok \in BOOLEAN, Rp2WriteRegisterByte(c, ok)
    PROVE  I2cInv'
<1>1. Return(c, "writeByte", 1, Single(c, <<"reg", "value">>, ok), ok)
  BY DEF Rp2WriteRegisterByte, Single
<1>2. Promised("writeByte", 1) = <<Opening(<<"reg", "value">>, TRUE)>>
  BY DEF Promised
<1> QED
  BY <1>1, <1>2, SingleKeeps

LEMMA Read16Keeps ==
    ASSUME I2cInv, NEW c \in I2cContexts, NEW len, NEW first \in BOOLEAN, NEW second \in BOOLEAN,
           Rp2ReadRegister16(c, len, first, second)
    PROVE  I2cInv'
<1> DEFINE address == <<"regHigh", "regLow">>
<1>1. CASE ~first
  <2>1. Return(c, "read16", len, I2cClearRestart(Held(c, address, first)), FALSE)
    BY <1>1 DEF Rp2ReadRegister16, Held
  <2> QED
    BY <2>1, HeldKeeps
<1>2. CASE first
  <2>1. Return(c, "read16", len, Both(c, address, "read", <<"payload", len>>, TRUE, second), second)
    BY <1>2 DEF Rp2ReadRegister16, Held, Both
  <2>2. Promised("read16", len) = <<Opening(address, FALSE), Joined("read", len)>>
    BY DEF Promised
  <2> HIDE DEF address
  <2> QED
    BY <2>1, <2>2, BothKeeps
<1> QED
  BY <1>1, <1>2

LEMMA Write16Keeps ==
    ASSUME I2cInv, NEW c \in I2cContexts, NEW len, NEW first \in BOOLEAN, NEW second \in BOOLEAN,
           Rp2WriteRegister16(c, len, first, second)
    PROVE  I2cInv'
<1> DEFINE address == <<"regHigh", "regLow">>
<1>1. CASE len = 0
  <2>1. Return(c, "write16", len, Single(c, address, first), first)
    BY <1>1 DEF Rp2WriteRegister16, Single
  <2>2. Promised("write16", len) = <<Opening(address, TRUE)>>
    BY <1>1 DEF Promised
  <2> HIDE DEF address
  <2> QED
    BY <2>1, <2>2, SingleKeeps
<1>2. CASE len # 0 /\ ~first
  <2>1. Return(c, "write16", len, I2cClearRestart(Held(c, address, first)), FALSE)
    BY <1>2 DEF Rp2WriteRegister16, Held
  <2> QED
    BY <2>1, HeldKeeps
<1>3. CASE len # 0 /\ first
  <2>1. Return(c, "write16", len, Both(c, address, "write", <<"payload", len>>, TRUE, second), second)
    BY <1>3 DEF Rp2WriteRegister16, Held, Both
  <2>2. Promised("write16", len) = <<Opening(address, FALSE), Joined("write", len)>>
    BY <1>3 DEF Promised
  <2> HIDE DEF address
  <2> QED
    BY <2>1, <2>2, BothKeeps
<1> QED
  BY <1>1, <1>2, <1>3

\* STM32 and host: nothing reaches a wire.
LEMMA StubKeeps ==
    ASSUME I2cInv, NEW c \in I2cContexts, NEW op, NEW len, I2cStub(c, op, len)
    PROVE  I2cInv'
<1> DEFINE s == Begin(I2cPort[c])
<1>1. Return(c, op, len, s, FALSE)
  BY DEF I2cStub, StmI2cStub, HostI2cStub
<1>2. s.restart = FALSE /\ s.wire = << >>
  BY FlagIs DEF I2cInv
<1> HIDE DEF s
<1> QED
  BY <1>1, <1>2, ReturnKeeps

LEMMA SetupI2cKeeps ==
    ASSUME I2cInv, NEW c \in I2cContexts, SetupI2c(c)
    PROVE  I2cInv'
<1>1. FlagsClear'
  BY DEF SetupI2c, Rp2I2cPortInit, I2cInv, FlagsClear, I2cPorts
<1>2. AsPromised(i2cLast)'
  BY DEF SetupI2c, NoOperation, AsPromised
<1> QED
  BY <1>1, <1>2 DEF SetupI2c, I2cInv

LEMMA I2cStepKeeps ==
    ASSUME I2cInv, I2cNext
    PROVE  I2cInv'
<1>1. PICK c \in I2cContexts :
        SetupI2c(c) \/ I2cSendByte(c) \/ I2cSendBurst(c) \/ I2cReadRegister(c) \/ I2cWriteRegister(c)
        \/ I2cWriteRegisterByte(c) \/ I2cReadRegister16(c) \/ I2cWriteRegister16(c)
  BY DEF I2cNext
<1>2. CASE SetupI2c(c)
  BY <1>2, SetupI2cKeeps
<1>3. CASE I2cSendByte(c)
  BY <1>3, SendKeeps, StubKeeps DEF I2cSendByte
<1>4. CASE I2cSendBurst(c)
  BY <1>4, SendKeeps, StubKeeps DEF I2cSendBurst
<1>5. CASE I2cReadRegister(c)
  BY <1>5, ReadKeeps, StubKeeps DEF I2cReadRegister
<1>6. CASE I2cWriteRegister(c)
  BY <1>6, WriteKeeps, StubKeeps DEF I2cWriteRegister
<1>7. CASE I2cWriteRegisterByte(c)
  BY <1>7, WriteByteKeeps, StubKeeps DEF I2cWriteRegisterByte
<1>8. CASE I2cReadRegister16(c)
  BY <1>8, Read16Keeps, StubKeeps DEF I2cReadRegister16
<1>9. CASE I2cWriteRegister16(c)
  BY <1>9, Write16Keeps, StubKeeps DEF I2cWriteRegister16
<1> QED
  BY <1>1, <1>2, <1>3, <1>4, <1>5, <1>6, <1>7, <1>8, <1>9

\* No operation on I2C finds the SDK's restart flag set, whatever failed before it on the
\* same peripheral.
THEOREM I2cInvariance == I2cSpec => []I2cInv
<1>1. I2cInit => I2cInv
  BY DEF I2cInit, I2cInv, FlagsClear, AsPromised, NoOperation
<1>2. I2cInv /\ [I2cNext /\ UNCHANGED platform]_<<i2cVars, platform>> => I2cInv'
  <2> SUFFICES ASSUME I2cInv, [I2cNext /\ UNCHANGED platform]_<<i2cVars, platform>>
               PROVE  I2cInv'
    OBVIOUS
  <2>1. CASE I2cNext
    BY <2>1, I2cStepKeeps
  <2>2. CASE UNCHANGED i2cVars
    BY <2>2 DEF i2cVars, I2cInv, FlagsClear, AsPromised
  <2> QED
    BY <2>1, <2>2
<1> QED
  BY <1>1, <1>2, PTL DEF I2cSpec

\* Contexts and flags are what they are in C.
THEOREM I2cTyping == I2cSpec => []I2cTypeOK
<1>1. I2cInv => I2cTypeOK
  BY DEF I2cInv, FlagsClear, I2cTypeOK
<1> QED
  BY <1>1, I2cInvariance, PTL

\* A display write or a register access opens with a START of its own, and when it reports
\* success the device has seen exactly the transfers light_ioport.h promises (rp2/platform.c,
\* every call of i2c_write_timeout_us() and i2c_read_timeout_us()).
THEOREM I2cKeepsPromises == I2cSpec => []I2cWireAsPromised
<1>1. I2cInv => I2cWireAsPromised
  BY DEF I2cInv, AsPromised, I2cWireAsPromised
<1> QED
  BY <1>1, I2cInvariance, PTL

-----------------------------------------------------------------------------
(* SPI.  A chip select that goes up closes the frame of its call.  For the *)
(* blocking sends the peripheral must have been empty when the call began; *)
(* for a burst, what its device has seen, what the peripheral holds and    *)
(* what the DMA channel still has are at all times the bytes it was to     *)
(* see, so that with the last two empty it has seen them all.              *)

Item == [from : SpiContexts, nth : Nat, dc : BOOLEAN]
DataItem == [from : SpiContexts, nth : Nat, dc : {TRUE}]      \* a byte of a burst
FlagsRow == [spe : BOOLEAN, eot : BOOLEAN]
Room == IF platform = "f4" THEN 2 ELSE FifoDepth

SpiTypes ==
    /\ platform \in {"rp2", "h7", "f4", "host"}
    /\ resetPin \in [SpiContexts -> {NotSetUp, "none", "own", "unknown"}]
    /\ held \subseteq SpiContexts /\ inFlight \subseteq SpiContexts
    /\ dc \in [SpiContexts -> BOOLEAN]
    /\ dma \in [SpiContexts -> Seq(DataItem)]
    /\ seen \in [SpiContexts -> Seq(DataItem)] /\ want \in [SpiContexts -> Seq(DataItem)]
    /\ fifo \in [SpiPorts -> Seq(Item)] /\ \A p \in SpiPorts : Len(fifo[p]) <= Room
    /\ stall \in [SpiPorts -> BOOLEAN]
    /\ flags \in [SpiPorts -> FlagsRow]

\* One burst on a peripheral, and selected are exactly the bursts the hardware carries.
OwnersInv ==
    /\ \A c, d \in inFlight : SpiPort[c] = SpiPort[d] => c = d
    /\ selected = {c \in inFlight : Backed(c)}
    /\ \A c \in SpiContexts \ selected : dma[c] = << >>
    /\ platform # "f4" =>
        \A p \in SpiPorts : fifo[p] # << >> => \E c \in selected : SpiPort[c] = p

\* A burst on its way: what has been seen, what the peripheral holds, what is to come.
OnItsWay(c) ==
    /\ dc[c] = TRUE
    /\ fifo[SpiPort[c]] \in Seq(DataItem)
    /\ seen[c] \o (fifo[SpiPort[c]] \o dma[c]) = want[c]

BurstsInv == \A c \in selected : OnItsWay(c)

\* Between the two looks of a poll the DMA channel stays done, and a machine that has
\* stalled since the first look has nothing left.
PollInv ==
    poll = "none" \/
        /\ poll \in selected /\ dma[poll] = << >>
        /\ SpiType[poll] = "pio4" => (stall[SpiPort[poll]] => fifo[SpiPort[poll]] = << >>)

\* No end of transfer is left over on the H7, and the F4 is on wherever it is to send.
FlagsInv ==
    /\ platform = "h7" => \A p \in SpiPorts : flags[p].eot = FALSE
    /\ platform = "f4" =>
        \A c \in SpiContexts :
            SetUp(c) /\ SpiType[c] \in {"spi3", "spi4"} => flags[SpiPort[c]].spe = TRUE

SpiInv == SpiTypes /\ OwnersInv /\ BurstsInv /\ PollInv /\ FlagsInv /\ SpiAsPromised

USE SpiAssumption

\* One step of the DMA channel or of the shift register moves the first byte of one
\* sequence to the end of the one before it.
LEMMA Moved ==
    ASSUME NEW S, NEW s \in Seq(S), NEW f \in Seq(S), f # << >>
    PROVE  /\ Append(s, Head(f)) \o Tail(f) = s \o f
           /\ Append(s, Head(f)) \in Seq(S) /\ Tail(f) \in Seq(S) /\ Head(f) \in S
<1> DEFINE a == Append(s, Head(f))
           u == a \o Tail(f)
           w == s \o f
<1>1. /\ Head(f) \in S /\ Head(f) = f[1] /\ Tail(f) \in Seq(S)
      /\ Len(f) \in Nat /\ Len(f) >= 1 /\ Len(s) \in Nat /\ Len(Tail(f)) = Len(f) - 1
      /\ \A i \in 1 .. (Len(f) - 1) : Tail(f)[i] = f[i + 1]
  BY HeadTailProperties, LenProperties, EmptySeq
<1>2. /\ a \in Seq(S) /\ Len(a) = Len(s) + 1 /\ a[Len(s) + 1] = f[1]
      /\ \A i \in 1 .. Len(s) : a[i] = s[i]
  BY <1>1, AppendProperties
<1> HIDE DEF a
<1>3. /\ u \in Seq(S) /\ Len(u) = Len(s) + Len(f)
      /\ \A i \in 1 .. (Len(s) + Len(f)) :
           u[i] = IF i <= Len(s) + 1 THEN a[i] ELSE Tail(f)[i - (Len(s) + 1)]
  <2>1. /\ u \in Seq(S) /\ Len(u) = Len(a) + Len(Tail(f))
        /\ \A i \in 1 .. Len(a) + Len(Tail(f)) :
             u[i] = IF i <= Len(a) THEN a[i] ELSE Tail(f)[i - Len(a)]
    <3>1. PICK b : b = Tail(f)
      OBVIOUS
    <3>2. a \in Seq(S) /\ b \in Seq(S)
      BY <1>1, <1>2, <3>1
    <3>3. /\ a \o b \in Seq(S) /\ Len(a \o b) = Len(a) + Len(b)
          /\ \A i \in 1 .. Len(a) + Len(b) :
               (a \o b)[i] = IF i <= Len(a) THEN a[i] ELSE b[i - Len(a)]
      BY <3>2, ConcatProperties
    <3> QED
      BY <3>1, <3>3
  <2>2. Len(a) = Len(s) + 1 /\ Len(a) + Len(Tail(f)) = Len(s) + Len(f)
    BY <1>1, <1>2
  <2> QED
    BY <2>1, <2>2
<1>4. /\ w \in Seq(S) /\ Len(w) = Len(s) + Len(f)
      /\ \A i \in 1 .. (Len(s) + Len(f)) : w[i] = IF i <= Len(s) THEN s[i] ELSE f[i - Len(s)]
  BY <1>1, ConcatProperties
<1> HIDE DEF u, w
<1>5. ASSUME NEW i \in 1 .. (Len(s) + Len(f))
      PROVE  u[i] = w[i]
  <2>1. CASE i <= Len(s)
    BY <1>1, <1>2, <1>3, <1>4, <2>1
  <2>2. CASE i = Len(s) + 1
    <3>1. u[i] = a[Len(s) + 1]
      BY <1>1, <1>3, <2>2
    <3>2. w[i] = f[i - Len(s)] /\ i - Len(s) = 1
      BY <1>1, <1>4, <2>2
    <3> QED
      BY <1>2, <3>1, <3>2
  <2>3. CASE i > Len(s) + 1
    <3> DEFINE j == i - (Len(s) + 1)
    <3>1. j \in 1 .. (Len(f) - 1) /\ j + 1 = i - Len(s)
      BY <1>1, <2>3
    <3>2. u[i] = Tail(f)[j]
      BY <1>1, <1>3, <2>3
    <3>3. w[i] = f[i - Len(s)]
      BY <1>1, <1>4, <2>3
    <3> HIDE DEF j
    <3>4. Tail(f)[j] = f[j + 1]
      BY <1>1, <3>1
    <3> QED
      BY <3>1, <3>2, <3>3, <3>4
  <2> QED
    BY <1>1, <2>1, <2>2, <2>3
<1>6. u = w
  BY <1>3, <1>4, <1>5, SeqEqual
<1> QED
  BY <1>1, <1>2, <1>6 DEF u, w, a

\* The same with a third sequence behind.
Regroups(x, y, z) == (x \o y) \o z = x \o (y \o z)

LEMMA Regrouped ==
    ASSUME NEW S, NEW x \in Seq(S), NEW y \in Seq(S), NEW z \in Seq(S)
    PROVE  Regroups(x, y, z)
  BY ConcatAssociative DEF Regroups

LEMMA MovedBefore ==
    ASSUME NEW S, NEW s \in Seq(S), NEW f \in Seq(S), NEW d \in Seq(S), f # << >>
    PROVE  Append(s, Head(f)) \o (Tail(f) \o d) = s \o (f \o d)
<1>1. PICK a \in Seq(S), b \in Seq(S) : a = Append(s, Head(f)) /\ b = Tail(f)
  BY Moved
<1>2. Regroups(a, b, d) /\ Regroups(s, f, d)
  BY Regrouped
<1>3. a \o b = s \o f
  BY <1>1, Moved
<1>4. a \o (b \o d) = s \o (f \o d)
  BY <1>2, <1>3, Zenon DEF Regroups
<1> QED
  BY <1>1, <1>4

\* What is sent, and what a device sees of it.
LEMMA BytesAre ==
    ASSUME NEW c \in SpiContexts, NEW n \in Nat, NEW level \in BOOLEAN
    PROVE  /\ Bytes(c, n, level) \in Seq(Item) /\ Len(Bytes(c, n, level)) = n
           /\ level = TRUE => Bytes(c, n, level) \in Seq(DataItem)
<1> DEFINE x(i) == [from |-> c, nth |-> i, dc |-> level]
<1>1. ASSUME NEW i \in 1..n
      PROVE  x(i) \in Item /\ (level = TRUE => x(i) \in DataItem)
  <2>1. i \in Nat
    OBVIOUS
  <2>2. x(i) \in Item
    BY <2>1 DEF Item
  <2>3. level = TRUE => x(i) \in DataItem
    BY <2>1 DEF DataItem
  <2> QED
    BY <2>2, <2>3
<1>2. Bytes(c, n, level) = [i \in 1..n |-> x(i)]
  BY DEF Bytes
<1> HIDE DEF x
<1>3. Bytes(c, n, level) \in Seq(Item) /\ Len(Bytes(c, n, level)) = n
  <2>1. \A i \in 1..n : x(i) \in Item
    BY <1>1
  <2>2. Bytes(c, n, level) \in Seq(Item)
    BY <1>2, <2>1
  <2>3. Len(Bytes(c, n, level)) = n
    BY <1>2, <2>2, LenProperties
  <2> QED
    BY <2>2, <2>3
<1>4. ASSUME level = TRUE PROVE Bytes(c, n, level) \in Seq(DataItem)
  <2>1. \A i \in 1..n : x(i) \in DataItem
    BY <1>1, <1>4
  <2> QED
    BY <1>2, <2>1
<1> QED
  BY <1>3, <1>4

LEMMA AsSeenIs ==
    ASSUME NEW items \in Seq(Item), NEW level \in BOOLEAN
    PROVE  /\ AsSeen(items, level) \in Seq(Item) /\ Len(AsSeen(items, level)) = Len(items)
           /\ \A i \in 1..Len(items) : AsSeen(items, level)[i] = [items[i] EXCEPT !.dc = level]
<1> DEFINE x(i) == [items[i] EXCEPT !.dc = level]
<1>1. Len(items) \in Nat /\ DOMAIN items = 1..Len(items) /\ \A i \in 1..Len(items) : items[i] \in Item
  BY LenProperties, ElementOfSeq
<1>2. \A i \in 1..Len(items) : x(i) \in Item
  BY <1>1 DEF Item
<1>3. AsSeen(items, level) = [i \in 1..Len(items) |-> x(i)]
  BY <1>1 DEF AsSeen
<1>4. \A i \in 1..Len(items) : x(i) = [items[i] EXCEPT !.dc = level]
  OBVIOUS
<1> HIDE DEF x
<1> QED
  BY <1>1, <1>2, <1>3, <1>4

\* A call cut short has shown its device a prefix.
LEMMA CutIsPrefix ==
    ASSUME NEW items \in Seq(Item), NEW level \in BOOLEAN, NEW k \in 0..Len(items)
    PROVE  /\ SubSeq(items, 1, k) \in Seq(Item) /\ Len(SubSeq(items, 1, k)) = k
           /\ IsPrefix(AsSeen(SubSeq(items, 1, k), level), AsSeen(items, level))
<1> DEFINE s == SubSeq(items, 1, k)
           u == AsSeen(s, level)
           v == AsSeen(items, level)
<1>1. Len(items) \in Nat /\ k \in Nat /\ k <= Len(items) /\ \A i \in 1..Len(items) : items[i] \in Item
  BY LenProperties, ElementOfSeq
<1>2. /\ s \in Seq(Item) /\ Len(s) = k /\ \A i \in 1..k : s[i] = items[i]
  <2>1. \A i \in 1..k : items[i] \in Item
    BY <1>1
  <2> QED
    BY <1>1, <2>1, SubSeqProperties
<1>3. /\ u \in Seq(Item) /\ Len(u) = k
      /\ \A i \in 1..k : u[i] = [s[i] EXCEPT !.dc = level]
  <2>1. s \in Seq(Item) /\ Len(s) = k
    BY <1>2
  <2> HIDE DEF s
  <2>2. /\ u \in Seq(Item) /\ Len(u) = Len(s)
        /\ \A i \in 1..Len(s) : u[i] = [s[i] EXCEPT !.dc = level]
    BY <2>1, AsSeenIs
  <2> QED
    BY <2>1, <2>2
<1>4. /\ v \in Seq(Item) /\ Len(v) = Len(items)
      /\ \A i \in 1..Len(items) : v[i] = [items[i] EXCEPT !.dc = level]
  BY AsSeenIs
<1>5. ASSUME NEW i \in 1..k
      PROVE  u[i] = v[i]
  <2>1. i \in 1..Len(items) /\ s[i] = items[i]
    BY <1>1, <1>2
  <2>2. v[i] = [items[i] EXCEPT !.dc = level]
    BY <1>4, <2>1
  <2>3. u[i] = [s[i] EXCEPT !.dc = level]
    BY <1>3
  <2> HIDE DEF s, u, v
  <2> QED
    BY <2>1, <2>2, <2>3
<1>6. /\ SubSeq(u, 1, k) \in Seq(Item) /\ Len(SubSeq(u, 1, k)) = k
      /\ \A i \in 1..k : SubSeq(u, 1, k)[i] = u[i]
  <2> HIDE DEF u
  <2>1. \A i \in 1..k : u[i] \in Item
    BY <1>3, ElementOfSeq
  <2> QED
    BY <1>1, <1>3, <2>1, SubSeqProperties
<1>7. /\ SubSeq(v, 1, k) \in Seq(Item) /\ Len(SubSeq(v, 1, k)) = k
      /\ \A i \in 1..k : SubSeq(v, 1, k)[i] = v[i]
  <2> HIDE DEF v
  <2>1. \A i \in 1..k : v[i] \in Item
    BY <1>1, <1>4, ElementOfSeq
  <2> QED
    BY <1>1, <1>4, <2>1, SubSeqProperties
<1> HIDE DEF u, v
<1>8. SubSeq(u, 1, k) = SubSeq(v, 1, k)
  <2> DEFINE a == SubSeq(u, 1, k)
             b == SubSeq(v, 1, k)
  <2>1. a \in Seq(Item) /\ b \in Seq(Item) /\ Len(a) = Len(b) /\ \A i \in 1..Len(a) : a[i] = b[i]
    BY <1>5, <1>6, <1>7
  <2> HIDE DEF a, b
  <2>2. a = b
    BY <2>1, SeqEqual
  <2> QED
    BY <2>2 DEF a, b
<1>9. IsPrefix(u, v)
  BY <1>1, <1>3, <1>4, <1>8 DEF IsPrefix
<1> QED
  BY <1>2, <1>9 DEF u, v

\* The divider that StmSetClock() programs.
LEMMA DividerIs ==
    ASSUME NEW source \in Nat, NEW hz \in Nat
    PROVE  LET rate == source \div 2^(Divider(source, hz) + 1)
           IN  rate > hz => rate = source \div 256
<1> DEFINE q(d) == source \div 2^(d + 1)
           P(d) == (d = 7 \/ q(d) <= hz) /\ \A e \in 0..(d - 1) : q(e) > hz
<1>1. \A d \in 0..7 : q(d) \in Nat
  <2>1. q(0) \in Nat /\ q(1) \in Nat /\ q(2) \in Nat /\ q(3) \in Nat
    OBVIOUS
  <2>2. q(4) \in Nat /\ q(5) \in Nat /\ q(6) \in Nat /\ q(7) \in Nat
    OBVIOUS
  <2>3. \A d \in 0..7 : d \in {0, 1, 2, 3, 4, 5, 6, 7}
    OBVIOUS
  <2> HIDE DEF q
  <2> QED
    BY <2>1, <2>2, <2>3
<1>2. q(7) = source \div 256
  OBVIOUS
<1>3. Divider(source, hz) = CHOOSE d \in 0..7 : P(d)
  BY DEF Divider
<1> HIDE DEF q
<1>4. \E d \in 0..7 : P(d)
  <2>1. CASE q(0) <= hz
    <3>1. P(0)
      BY <2>1
    <3> QED
      BY <3>1
  <2>2. CASE q(0) > hz
    BY <1>1, <2>2
  <2> QED
    BY <1>1, <2>1, <2>2
<1>5. PICK d \in 0..7 : d = Divider(source, hz) /\ P(d)
  BY <1>3, <1>4
<1>6. q(d) > hz => q(d) = source \div 256
  BY <1>1, <1>2, <1>5
<1> QED
  BY <1>5, <1>6 DEF q

-----------------------------------------------------------------------------
(* Blocking sends. *)

LEMMA WholeIs ==
    ASSUME NEW items \in Seq(Item)
    PROVE  SubSeq(items, 1, Len(items)) = items
<1> DEFINE k == Len(items)
           s == SubSeq(items, 1, k)
<1>1. k \in Nat /\ \A i \in 1..k : items[i] \in Item
  BY LenProperties, ElementOfSeq
<1>2. s \in Seq(Item) /\ Len(s) = k /\ \A i \in 1..k : s[i] = items[i]
  BY <1>1, SubSeqProperties
<1> HIDE DEF s
<1>3. s = items
  BY <1>2, SeqEqual
<1> QED
  BY <1>3 DEF s

\* What a transfer of an STM32 may leave behind.
Leaves(r, p, items, stuck, now) ==
    /\ r.left \in Seq(Item) /\ Len(r.left) <= Room
    /\ r.flags \in FlagsRow
    /\ platform = "h7" => r.left = << >> /\ r.flags.eot = FALSE
    /\ platform = "f4" => r.flags = flags[p]
    /\ r.got \in Seq(Item)
    /\ fifo[p] = << >> =>
        IF stuck THEN IsPrefix(AsSeen(r.got, now), AsSeen(items, now)) ELSE r.got = items

LEMMA H7Leaves ==
    ASSUME SpiTypes, NEW p \in SpiPorts, NEW items \in Seq(Item), NEW stuck \in BOOLEAN,
           NEW now \in BOOLEAN, platform = "h7", flags[p].eot = FALSE,
           NEW r \in H7Outcomes(p, items, stuck)
    PROVE  Leaves(r, p, items, stuck, now)
<1>1. PICK k \in 0..Len(items) :
        /\ r = [got |-> SubSeq(items, 1, k), left |-> << >>, flags |-> [spe |-> FALSE, eot |-> FALSE]]
        /\ stuck \/ k = Len(items)
  BY DEF H7Outcomes
<1>2. r.got = SubSeq(items, 1, k) /\ r.left = << >> /\ r.flags = [spe |-> FALSE, eot |-> FALSE]
  BY <1>1
<1>3. SubSeq(items, 1, k) \in Seq(Item) /\ IsPrefix(AsSeen(SubSeq(items, 1, k), now), AsSeen(items, now))
  BY CutIsPrefix
<1>4. r.flags \in FlagsRow /\ r.flags.eot = FALSE
  BY <1>2 DEF FlagsRow
<1>5. r.left \in Seq(Item) /\ Len(r.left) <= Room
  BY <1>2, EmptySeq DEF Room
<1>6. ~stuck => r.got = items
  BY <1>1, <1>2, WholeIs
<1> QED
  BY <1>2, <1>3, <1>4, <1>5, <1>6 DEF Leaves

LEMMA F4Leaves ==
    ASSUME SpiTypes, NEW p \in SpiPorts, NEW items \in Seq(Item), NEW stuck \in BOOLEAN,
           NEW now \in BOOLEAN, platform = "f4", flags[p].spe = TRUE,
           NEW r \in F4Outcomes(p, items, stuck)
    PROVE  Leaves(r, p, items, stuck, now)
<1> DEFINE line == fifo[p] \o items
<1>1. PICK k \in 0..Len(line) : \E a \in Len(fifo[p])..Len(line) :
        /\ r = [got |-> SubSeq(line, 1, k), left |-> SubSeq(line, k + 1, a), flags |-> flags[p]]
        /\ k <= a /\ a <= k + 2
        /\ stuck \/ k = Len(line)
  <2>1. fifo[p] \in Seq(Item)
    BY DEF SpiTypes
  <2>2. line \in Seq(Item) /\ Len(line) \in Nat
    BY <2>1, ConcatProperties, LenProperties
  <2> DEFINE clocked == IF stuck THEN 0..Len(line)
                        ELSE IF flags[p].spe THEN {Len(line)} ELSE {0}
             accepted(k) == {a \in Len(fifo[p])..Len(line) : k <= a /\ a <= k + 2}
             outcome(k, a) == [got |-> SubSeq(line, 1, k), left |-> SubSeq(line, k + 1, a),
                               flags |-> flags[p]]
  <2>3. r \in UNION {{outcome(k, a) : a \in accepted(k)} : k \in clocked}
    BY DEF F4Outcomes
  <2> HIDE DEF line, outcome
  <2>4. PICK k \in clocked : r \in {outcome(k, a) : a \in accepted(k)}
    BY <2>3
  <2>5. PICK a \in accepted(k) : r = outcome(k, a)
    BY <2>4
  <2>6. k \in 0..Len(line) /\ (stuck \/ k = Len(line))
    BY <2>2
  <2>7. a \in Len(fifo[p])..Len(line) /\ k <= a /\ a <= k + 2
    BY <2>5
  <2>8. r = [got |-> SubSeq(line, 1, k), left |-> SubSeq(line, k + 1, a), flags |-> flags[p]]
    BY <2>5 DEF outcome
  <2> QED
    BY <2>6, <2>7, <2>8
<1>2. PICK a \in Len(fifo[p])..Len(line) :
        /\ r = [got |-> SubSeq(line, 1, k), left |-> SubSeq(line, k + 1, a), flags |-> flags[p]]
        /\ k <= a /\ a <= k + 2
        /\ stuck \/ k = Len(line)
  BY <1>1
<1>3. fifo[p] \in Seq(Item) /\ flags[p] \in FlagsRow
  BY DEF SpiTypes
<1>4. line \in Seq(Item) /\ Len(line) \in Nat /\ Len(fifo[p]) \in Nat
      /\ \A i \in 1..Len(line) : line[i] \in Item
  <2>1. line \in Seq(Item)
    BY <1>3, ConcatProperties
  <2> HIDE DEF line
  <2> QED
    BY <1>3, <2>1, LenProperties, ElementOfSeq
<1>5. fifo[p] = << >> => line = items
  BY ConcatEmptySeq
<1> HIDE DEF line
<1>6. r.got = SubSeq(line, 1, k) /\ r.left = SubSeq(line, k + 1, a) /\ r.flags = flags[p]
  BY <1>2
<1>7. SubSeq(line, 1, k) \in Seq(Item) /\ IsPrefix(AsSeen(SubSeq(line, 1, k), now), AsSeen(line, now))
  BY <1>4, CutIsPrefix
<1>8. r.left \in Seq(Item) /\ Len(r.left) <= 2
  <2>1. k + 1 \in Nat /\ a \in Nat /\ \A i \in (k + 1)..a : line[i] \in Item
    BY <1>4
  <2>2. SubSeq(line, k + 1, a) \in Seq(Item)
        /\ Len(SubSeq(line, k + 1, a)) = IF k + 1 <= a THEN a - (k + 1) + 1 ELSE 0
    BY <1>4, <2>1, SubSeqProperties
  <2> QED
    BY <1>2, <1>6, <2>2
<1>9. ~stuck => r.got = line
  BY <1>2, <1>4, <1>6, WholeIs
<1> QED
  BY <1>3, <1>5, <1>6, <1>7, <1>8, <1>9 DEF Leaves, Room

\* While a context's peripheral is quiet no burst is on its wires.
LEMMA QuietPort ==
    ASSUME SpiInv, NEW c \in SpiContexts, PortQuiet(c)
    PROVE  /\ SpiPort[c] \in SpiPorts
           /\ \A d \in inFlight : SpiPort[d] # SpiPort[c]
           /\ \A d \in selected : SpiPort[d] # SpiPort[c]
           /\ platform # "f4" => fifo[SpiPort[c]] = << >>
<1>1. SpiPort[c] \in SpiPorts
  BY DEF SpiPorts
<1>2. \A d \in inFlight : d \in SpiContexts /\ SpiPort[d] # SpiPort[c]
  BY DEF SpiInv, SpiTypes, PortQuiet, OnPort
<1>3. selected \subseteq inFlight
  BY DEF SpiInv, OwnersInv
<1> QED
  BY <1>1, <1>2, <1>3 DEF SpiInv, OwnersInv

\* A step on a quiet peripheral: set-up, a blocking send, the clock, the mode.
QuietWires(c) ==
    /\ platform' = platform /\ poll = "none" /\ poll' = "none"
    /\ selected' = selected /\ dma' = dma /\ seen' = seen /\ want' = want
    /\ \E level \in BOOLEAN : dc' = [dc EXCEPT ![c] = level]
    /\ \E left \in Seq(Item) :
        /\ Len(left) <= Room /\ (platform # "f4" => left = << >>)
        /\ fifo' = [fifo EXCEPT ![SpiPort[c]] = left]
    /\ stall' \in [SpiPorts -> BOOLEAN]

QuietRest(c) ==
    /\ resetPin' \in [SpiContexts -> {NotSetUp, "none", "own", "unknown"}]
    /\ held' \subseteq SpiContexts
    /\ inFlight' = inFlight \/ (inFlight' = inFlight \union {c} /\ ~Backed(c))

QuietFlags ==
    /\ flags' \in [SpiPorts -> FlagsRow]
    /\ FlagsInv'
    /\ SpiAsPromised'

LEMMA QuietKeeps ==
    ASSUME SpiInv, NEW c \in SpiContexts, PortQuiet(c),
           QuietWires(c), QuietRest(c), QuietFlags
    PROVE  SpiInv'
<1> USE DEF QuietWires
<1>1. PICK level \in BOOLEAN : dc' = [dc EXCEPT ![c] = level]
  OBVIOUS
<1>2. PICK left \in Seq(Item) :
        /\ Len(left) <= Room /\ (platform # "f4" => left = << >>)
        /\ fifo' = [fifo EXCEPT ![SpiPort[c]] = left]
  OBVIOUS
<1>3. /\ SpiPort[c] \in SpiPorts
      /\ \A d \in inFlight : SpiPort[d] # SpiPort[c]
      /\ \A d \in selected : SpiPort[d] # SpiPort[c]
  BY QuietPort
<1>4. dc \in [SpiContexts -> BOOLEAN] /\ fifo \in [SpiPorts -> Seq(Item)] /\ selected \subseteq inFlight
      /\ inFlight \subseteq SpiContexts
  BY DEF SpiInv, SpiTypes, OwnersInv
<1>5. SpiTypes'
  <2>1. dc' \in [SpiContexts -> BOOLEAN] /\ fifo' \in [SpiPorts -> Seq(Item)]
    BY <1>1, <1>2, <1>3, <1>4
  <2>2. \A p \in SpiPorts : Len(fifo[p]) <= Room
    BY DEF SpiInv, SpiTypes
  <2>3. Room' = Room
    BY DEF Room
  <2>4. ASSUME NEW p \in SpiPorts PROVE Len(fifo'[p]) <= Room'
    BY <1>2, <1>3, <1>4, <2>2, <2>3
  <2>5. inFlight' \subseteq SpiContexts /\ held' \subseteq SpiContexts
        /\ resetPin' \in [SpiContexts -> {NotSetUp, "none", "own", "unknown"}]
    BY <1>4 DEF QuietRest
  <2>6. platform' \in {"rp2", "h7", "f4", "host"}
        /\ dma' \in [SpiContexts -> Seq(DataItem)] /\ seen' \in [SpiContexts -> Seq(DataItem)]
        /\ want' \in [SpiContexts -> Seq(DataItem)]
    BY DEF SpiInv, SpiTypes
  <2> QED
    BY <2>1, <2>4, <2>5, <2>6 DEF SpiTypes, QuietFlags
<1>6. OwnersInv'
  <2>1. \A d, e \in inFlight' : SpiPort[d] = SpiPort[e] => d = e
    BY <1>3 DEF SpiInv, OwnersInv, QuietRest
  <2>2. \A d \in SpiContexts : Backed(d)' <=> Backed(d)
    BY DEF Backed
  <2>3. selected' = {d \in inFlight' : Backed(d)'}
    <3>1. \A d \in selected : d \in inFlight /\ Backed(d)
      BY DEF SpiInv, OwnersInv
    <3>2. \A d \in inFlight : Backed(d) => d \in selected
      BY DEF SpiInv, OwnersInv
    <3> QED
      BY <1>4, <2>2, <3>1, <3>2 DEF QuietRest
  <2>4. \A d \in SpiContexts \ selected' : dma'[d] = << >>
    BY DEF SpiInv, OwnersInv
  <2>5. ASSUME platform' # "f4", NEW p \in SpiPorts, fifo'[p] # << >>
        PROVE  \E d \in selected' : SpiPort[d] = p
    <3>1. p # SpiPort[c]
      BY <1>2, <1>3, <1>4, <2>5
    <3>2. fifo[p] # << >>
      BY <1>2, <1>4, <2>5, <3>1
    <3> QED
      BY <2>5, <3>2 DEF SpiInv, OwnersInv
  <2> QED
    BY <2>1, <2>3, <2>4, <2>5 DEF OwnersInv
<1>7. BurstsInv'
  <2> SUFFICES ASSUME NEW d \in selected
               PROVE  OnItsWay(d)'
    BY DEF BurstsInv
  <2>1. d # c /\ SpiPort[d] # SpiPort[c] /\ d \in SpiContexts /\ SpiPort[d] \in SpiPorts
    BY <1>3, <1>4 DEF SpiPorts
  <2>2. dc'[d] = dc[d] /\ fifo'[SpiPort[d]] = fifo[SpiPort[d]]
    BY <1>1, <1>2, <1>4, <2>1
  <2> QED
    BY <2>2 DEF SpiInv, BurstsInv, OnItsWay
<1>8. PollInv'
  BY DEF PollInv
<1> QED
  BY <1>5, <1>6, <1>7, <1>8 DEF SpiInv, QuietFlags

\* A blocking send: the wires stay quiet, and its frame is the one promised.
Sent(c) == QuietWires(c) /\ QuietFlags

LEMMA LevelIs ==
    ASSUME SpiInv, NEW c \in SpiContexts, NEW level \in BOOLEAN
    PROVE  Level(c, level) \in BOOLEAN
  BY DEF SpiInv, SpiTypes, Level

LEMMA Rp2Sent ==
    ASSUME SpiInv, NEW c \in SpiContexts, PortQuiet(c), NEW n \in Nat, NEW level \in BOOLEAN,
           Rp2Send(c, n, level), poll = "none", UNCHANGED <<platform, resetPin, poll>>
    PROVE  Sent(c)
<1> DEFINE items == Bytes(c, n, level)
           now == Level(c, level)
           p == SpiPort[c]
<1>1. items \in Seq(Item) /\ now \in BOOLEAN /\ p \in SpiPorts /\ fifo[p] = << >>
  BY BytesAre, LevelIs, QuietPort DEF Rp2Send
<1>2. << >> \o items = items
  BY <1>1, ConcatEmptySeq
<1>3. /\ dc' = [dc EXCEPT ![c] = now] /\ stall' = [stall EXCEPT ![p] = TRUE]
      /\ fifo' = [fifo EXCEPT ![p] = << >>]
      /\ Closed(c, AsSeen(fifo[p] \o items, now), AsSeen(items, now), FALSE, FALSE)
      /\ platform = "rp2" /\ UNCHANGED <<selected, dma, flags, seen, want>>
  BY DEF Rp2Send
<1> HIDE DEF items, now
<1>4. QuietWires(c)
  <2>1. << >> \in Seq(Item) /\ Len(<< >>) <= Room
    BY EmptySeq DEF Room
  <2>2. stall' \in [SpiPorts -> BOOLEAN]
    BY <1>1, <1>3 DEF SpiInv, SpiTypes
  <2> QED
    BY <1>1, <1>3, <2>1, <2>2 DEF QuietWires
<1>5. SpiAsPromised'
  <2>1. Closed(c, AsSeen(items, now), AsSeen(items, now), FALSE, FALSE)
    BY <1>1, <1>2, <1>3
  <2> DEFINE x == AsSeen(items, now)
  <2>2. frame'.got = x /\ frame'.wanted = x /\ frame'.timedOut = FALSE /\ clock' = NoClock
    BY <2>1 DEF Closed
  <2> HIDE DEF x
  <2>3. FramesIntact'
    BY <2>2 DEF FramesIntact
  <2>4. NeverOverclocked'
    BY <2>2 DEF NeverOverclocked, NoClock
  <2> QED
    BY <2>3, <2>4 DEF SpiAsPromised
<1>6. flags' \in [SpiPorts -> FlagsRow] /\ FlagsInv'
  BY <1>3 DEF SpiInv, SpiTypes, FlagsInv
<1> QED
  BY <1>4, <1>5, <1>6 DEF Sent, QuietFlags

LEMMA StmSent ==
    ASSUME SpiInv, NEW c \in SpiContexts, PortQuiet(c), NEW n \in Nat, NEW level \in BOOLEAN,
           SetUp(c), platform \in {"h7", "f4"}, SpiType[c] \in {"spi3", "spi4"},
           StmSend(c, n, level), poll = "none", UNCHANGED <<platform, resetPin, poll>>
    PROVE  Sent(c)
<1> DEFINE items == Bytes(c, n, level)
           now == Level(c, level)
           p == SpiPort[c]
<1>1. items \in Seq(Item) /\ now \in BOOLEAN /\ p \in SpiPorts
      /\ (platform # "f4" => fifo[p] = << >>)
  BY BytesAre, LevelIs, QuietPort
<1>2. PICK stuck \in BOOLEAN : \E r \in StmOutcomes(p, items, stuck) :
            /\ dc' = [dc EXCEPT ![c] = now]
            /\ fifo' = [fifo EXCEPT ![p] = r.left]
            /\ flags' = [flags EXCEPT ![p] = r.flags]
            /\ Closed(c, AsSeen(r.got, now), AsSeen(items, now), stuck, fifo[p] # << >>)
            /\ UNCHANGED <<selected, dma, stall, seen, want>>
  BY DEF StmSend
<1> HIDE DEF items, now, p
<1>3. PICK r \in StmOutcomes(p, items, stuck) :
            /\ dc' = [dc EXCEPT ![c] = now]
            /\ fifo' = [fifo EXCEPT ![p] = r.left]
            /\ flags' = [flags EXCEPT ![p] = r.flags]
            /\ Closed(c, AsSeen(r.got, now), AsSeen(items, now), stuck, fifo[p] # << >>)
            /\ UNCHANGED <<selected, dma, stall, seen, want>>
  BY <1>2
<1>4. Leaves(r, p, items, stuck, now)
  <2>1. SpiTypes
    BY DEF SpiInv
  <2>2. ASSUME platform = "h7" PROVE Leaves(r, p, items, stuck, now)
    <3>1. flags[p].eot = FALSE
      BY <1>1, <2>2 DEF SpiInv, FlagsInv
    <3>2. r \in H7Outcomes(p, items, stuck)
      BY <1>3, <2>2 DEF StmOutcomes
    <3> QED
      BY <1>1, <2>1, <2>2, <3>1, <3>2, H7Leaves
  <2>3. ASSUME platform = "f4" PROVE Leaves(r, p, items, stuck, now)
    <3>1. flags[p].spe = TRUE
      BY <1>1, <2>3 DEF SpiInv, FlagsInv, p
    <3>2. r \in F4Outcomes(p, items, stuck)
      BY <1>3, <2>3 DEF StmOutcomes
    <3> QED
      BY <1>1, <2>1, <2>3, <3>1, <3>2, F4Leaves
  <2> QED
    BY <2>2, <2>3
<1>5. QuietWires(c)
  <2>1. r.left \in Seq(Item) /\ Len(r.left) <= Room /\ (platform # "f4" => r.left = << >>)
    BY <1>4 DEF Leaves
  <2>2. stall' \in [SpiPorts -> BOOLEAN]
    BY <1>3 DEF SpiInv, SpiTypes
  <2> QED
    BY <1>1, <1>3, <2>1, <2>2 DEF QuietWires, p
<1>6. SpiAsPromised'
  <2> DEFINE x == AsSeen(r.got, now)
             y == AsSeen(items, now)
  <2>1. fifo[p] = << >> => IF stuck THEN IsPrefix(x, y) ELSE x = y
    BY <1>4 DEF Leaves
  <2> HIDE DEF x, y
  <2>2. Closed(c, x, y, stuck, fifo[p] # << >>)
    BY <1>3 DEF x, y
  <2>3. frame'.got = x /\ frame'.wanted = y /\ frame'.timedOut = stuck
        /\ frame'.behind = (fifo[p] # << >>) /\ clock' = NoClock
    BY <2>2 DEF Closed
  <2>4. FramesIntact'
    <3>1. ASSUME fifo[p] = << >> PROVE FramesIntact'
      BY <2>1, <2>3, <3>1 DEF FramesIntact
    <3>2. ASSUME fifo[p] # << >> PROVE FramesIntact'
      BY <1>1, <2>3, <3>2 DEF FramesIntact
    <3> QED
      BY <3>1, <3>2
  <2>5. NeverOverclocked'
    BY <2>3 DEF NeverOverclocked, NoClock
  <2> QED
    BY <2>4, <2>5 DEF SpiAsPromised
<1>7. flags' \in [SpiPorts -> FlagsRow] /\ FlagsInv'
  <2>1. flags \in [SpiPorts -> FlagsRow] /\ r.flags \in FlagsRow
    BY <1>4 DEF SpiInv, SpiTypes, Leaves
  <2>2. flags' \in [SpiPorts -> FlagsRow]
    BY <1>1, <1>3, <2>1
  <2>3. ASSUME platform = "h7" PROVE FlagsInv'
    <3>1. r.flags.eot = FALSE
      BY <1>4, <2>3 DEF Leaves
    <3>2. \A q \in SpiPorts : flags[q].eot = FALSE
      BY <2>3 DEF SpiInv, FlagsInv
    <3>3. \A q \in SpiPorts : flags'[q].eot = FALSE
      BY <1>1, <1>3, <2>1, <3>1, <3>2
    <3> QED
      BY <2>3, <3>3 DEF FlagsInv
  <2>4. ASSUME platform = "f4" PROVE FlagsInv'
    <3>1. flags' = flags
      BY <1>1, <1>3, <1>4, <2>1, <2>4 DEF Leaves
    <3> QED
      BY <2>4, <3>1 DEF SpiInv, FlagsInv, SetUp
  <2> QED
    BY <2>2, <2>3, <2>4
<1> QED
  BY <1>5, <1>6, <1>7 DEF Sent, QuietFlags

LEMMA StubSent ==
    ASSUME SpiInv, NEW c \in SpiContexts, PortQuiet(c), UNCHANGED wires, NoReport,
           poll = "none", UNCHANGED <<platform, resetPin, poll>>
    PROVE  Sent(c)
<1>1. QuietWires(c)
  <2>1. /\ fifo \in [SpiPorts -> Seq(Item)] /\ SpiPort[c] \in SpiPorts /\ dc \in [SpiContexts -> BOOLEAN]
        /\ Len(fifo[SpiPort[c]]) <= Room /\ (platform # "f4" => fifo[SpiPort[c]] = << >>)
        /\ stall \in [SpiPorts -> BOOLEAN]
    BY QuietPort DEF SpiInv, SpiTypes
  <2>2. /\ fifo' = [fifo EXCEPT ![SpiPort[c]] = fifo[SpiPort[c]]] /\ fifo[SpiPort[c]] \in Seq(Item)
        /\ dc' = [dc EXCEPT ![c] = dc[c]] /\ dc[c] \in BOOLEAN
    BY <2>1 DEF wires
  <2>3. selected' = selected /\ dma' = dma /\ seen' = seen /\ want' = want /\ stall' = stall
    BY DEF wires
  <2> QED
    BY <2>1, <2>2, <2>3 DEF QuietWires
<1>2. flags' \in [SpiPorts -> FlagsRow] /\ FlagsInv'
  BY DEF wires, SpiInv, SpiTypes, FlagsInv, SetUp
<1>3. SpiAsPromised'
  BY DEF NoReport, NoFrame, NoClock, SpiAsPromised, FramesIntact, NeverOverclocked
<1> QED
  BY <1>1, <1>2, <1>3 DEF Sent, QuietFlags

LEMMA SpiSendKeeps ==
    ASSUME SpiInv, UNCHANGED platform, NEW c \in SpiContexts, Ready(c),
           NEW n \in Nat, NEW level \in BOOLEAN, Send(c, n, level)
    PROVE  SpiInv'
<1>1. PortQuiet(c) /\ SetUp(c) /\ poll = "none" /\ UNCHANGED <<resetPin, held, inFlight, poll>>
  BY DEF Ready, Send
<1>2. QuietRest(c)
  BY <1>1 DEF QuietRest, SpiInv, SpiTypes
<1>3. Sent(c)
  <2>1. ASSUME Rp2Send(c, n, level) PROVE Sent(c)
    BY <1>1, <2>1, Rp2Sent
  <2>2. ASSUME platform \in {"h7", "f4"}, SpiType[c] \in {"spi3", "spi4"}, StmSend(c, n, level)
        PROVE  Sent(c)
    BY <1>1, <2>2, StmSent
  <2>3. ASSUME UNCHANGED wires, NoReport PROVE Sent(c)
    BY <1>1, <2>3, StubSent
  <2> QED
    BY <2>1, <2>2, <2>3 DEF Send, Rp2Spi3Send, Rp2Spi4Send, Rp2PioSpi4Send, StmSpi3Send, StmSpi4Send,
       StmPioSpi4Send, HostSend
<1> QED
  BY <1>1, <1>2, <1>3, QuietKeeps DEF Sent

LEMMA SetupKeeps ==
    ASSUME SpiInv, UNCHANGED platform, NEW c \in SpiContexts, Setup(c)
    PROVE  SpiInv'
<1>1. PortQuiet(c) /\ poll = "none" /\ NoReport
      /\ UNCHANGED <<dma, fifo, stall, seen, want, inFlight, poll>>
  BY DEF Setup
<1>2. PICK pin \in {"own", "none", "unknown"} : Opened(c, pin)
  BY DEF Setup, SetupSpi4p, SetupSpi3p, SetupPioSpi4p, Stored, Unstored
<1>3. \/ UNCHANGED flags /\ (platform \in {"h7", "f4"} => SpiType[c] = "pio4")
      \/ flags' = [flags EXCEPT ![SpiPort[c]] = [spe |-> TRUE, eot |-> FALSE]]
  BY DEF Setup, SetupSpi4p, SetupSpi3p, SetupPioSpi4p, Rp2Spi4PortInit, StmSpi4PortInit, HostPortInit,
     Rp2Spi3PortInit, StmSpi3PortInit, Rp2PioSpi4PortInit, StmPioSpi4PortInit
<1>4. UNCHANGED selected /\ (UNCHANGED dc \/ dc' = [dc EXCEPT ![c] = FALSE])
  BY DEF Setup, SetupSpi4p, SetupSpi3p, SetupPioSpi4p, Rp2Spi4PortInit, StmSpi4PortInit, HostPortInit,
     Rp2Spi3PortInit, StmSpi3PortInit, Rp2PioSpi4PortInit, StmPioSpi4PortInit
<1>5. /\ fifo \in [SpiPorts -> Seq(Item)] /\ SpiPort[c] \in SpiPorts /\ dc \in [SpiContexts -> BOOLEAN]
      /\ Len(fifo[SpiPort[c]]) <= Room /\ (platform # "f4" => fifo[SpiPort[c]] = << >>)
      /\ stall \in [SpiPorts -> BOOLEAN] /\ flags \in [SpiPorts -> FlagsRow]
      /\ resetPin \in [SpiContexts -> {NotSetUp, "none", "own", "unknown"}]
  BY <1>1, QuietPort DEF SpiInv, SpiTypes
<1>6. QuietWires(c)
  <2>1. fifo' = [fifo EXCEPT ![SpiPort[c]] = fifo[SpiPort[c]]] /\ fifo[SpiPort[c]] \in Seq(Item)
    BY <1>1, <1>5
  <2>2. \E level \in BOOLEAN : dc' = [dc EXCEPT ![c] = level]
    <3>1. dc = [dc EXCEPT ![c] = dc[c]] /\ dc[c] \in BOOLEAN
      BY <1>5
    <3> QED
      BY <1>4, <3>1
  <2> QED
    BY <1>1, <1>4, <1>5, <2>1, <2>2 DEF QuietWires
<1>7. QuietRest(c)
  <2>1. resetPin' \in [SpiContexts -> {NotSetUp, "none", "own", "unknown"}]
    BY <1>2, <1>5 DEF Opened
  <2>2. held' \subseteq SpiContexts
    BY <1>2 DEF Opened, SpiInv, SpiTypes
  <2> QED
    BY <1>1, <2>1, <2>2 DEF QuietRest
<1>8. QuietFlags
  <2> DEFINE row == [spe |-> TRUE, eot |-> FALSE]
  <2>1. row \in FlagsRow /\ row.spe = TRUE /\ row.eot = FALSE
    BY DEF FlagsRow
  <2> HIDE DEF row
  <2>2. \/ UNCHANGED flags /\ (platform \in {"h7", "f4"} => SpiType[c] = "pio4")
        \/ flags' = [flags EXCEPT ![SpiPort[c]] = row]
    BY <1>3 DEF row
  <2>3. flags' \in [SpiPorts -> FlagsRow]
    BY <1>5, <2>1, <2>2
  <2>4. ASSUME platform = "h7", NEW p \in SpiPorts PROVE flags'[p].eot = FALSE
    <3>1. flags[p].eot = FALSE
      BY <2>4 DEF SpiInv, FlagsInv
    <3> QED
      BY <1>5, <2>1, <2>2, <3>1
  <2>5. ASSUME platform = "f4", NEW d \in SpiContexts, SetUp(d)', SpiType[d] \in {"spi3", "spi4"}
        PROVE  flags'[SpiPort[d]].spe = TRUE
    <3>1. SpiPort[d] \in SpiPorts
      BY DEF SpiPorts
    <3>2. ASSUME d # c PROVE flags[SpiPort[d]].spe = TRUE
      <4>1. SetUp(d)
        BY <1>2, <1>5, <2>5, <3>2 DEF SetUp, Opened
      <4> QED
        BY <2>5, <4>1 DEF SpiInv, FlagsInv
    <3>3. CASE SpiPort[d] = SpiPort[c] /\ flags' = [flags EXCEPT ![SpiPort[c]] = row]
      BY <1>5, <2>1, <3>3
    <3>4. CASE SpiPort[d] # SpiPort[c]
      BY <1>5, <2>2, <3>1, <3>2, <3>4
    <3>5. CASE UNCHANGED flags /\ SpiType[c] = "pio4"
      BY <2>5, <3>2, <3>5
    <3> QED
      BY <2>2, <2>5, <3>3, <3>4, <3>5
  <2>6. FlagsInv'
    BY <2>4, <2>5 DEF FlagsInv
  <2>7. SpiAsPromised'
    BY <1>1 DEF NoReport, NoFrame, NoClock, SpiAsPromised, FramesIntact, NeverOverclocked
  <2> QED
    BY <2>3, <2>6, <2>7 DEF QuietFlags
<1> QED
  BY <1>1, <1>6, <1>7, <1>8, QuietKeeps

-----------------------------------------------------------------------------
(* Asynchronous bursts. *)

LEMMA StartKeeps ==
    ASSUME SpiInv, UNCHANGED platform, NEW c \in SpiContexts, Ready(c), NEW n \in Nat,
           SpiType[c] \in {"spi4", "pio4"}, StartDma(c, n),
           inFlight' = inFlight \union {c}, UNCHANGED <<resetPin, held, poll>>
    PROVE  SpiInv'
<1> DEFINE items == Bytes(c, n, TRUE)
<1>1. items \in Seq(DataItem) /\ Backed(c) /\ PortQuiet(c) /\ poll = "none"
  BY BytesAre DEF Ready, StartDma, Backed
<1>2. /\ platform = "rp2"
      /\ dc' = [dc EXCEPT ![c] = TRUE]
      /\ selected' = selected \union {c}
      /\ dma' = [dma EXCEPT ![c] = items]
      /\ seen' = [seen EXCEPT ![c] = << >>]
      /\ want' = [want EXCEPT ![c] = items]
      /\ NoReport
      /\ UNCHANGED <<fifo, stall, flags>>
  BY DEF StartDma
<1> HIDE DEF items
<1>3. /\ SpiPort[c] \in SpiPorts /\ fifo[SpiPort[c]] = << >>
      /\ \A d \in inFlight : SpiPort[d] # SpiPort[c]
      /\ \A d \in selected : SpiPort[d] # SpiPort[c]
  BY <1>1, <1>2, QuietPort
<1>4. SpiTypes /\ OwnersInv /\ selected \subseteq SpiContexts
  BY DEF SpiInv, SpiTypes, OwnersInv
<1>5. SpiTypes'
  <2>1. << >> \in Seq(DataItem)
    BY EmptySeq
  <2>2. /\ dc' \in [SpiContexts -> BOOLEAN] /\ dma' \in [SpiContexts -> Seq(DataItem)]
        /\ seen' \in [SpiContexts -> Seq(DataItem)] /\ want' \in [SpiContexts -> Seq(DataItem)]
    BY <1>1, <1>2, <1>4, <2>1 DEF SpiTypes
  <2> QED
    BY <1>2, <1>4, <2>2 DEF SpiTypes, Room
<1>6. OwnersInv'
  <2>1. \A d, e \in inFlight' : SpiPort[d] = SpiPort[e] => d = e
    BY <1>3, <1>4 DEF OwnersInv
  <2>2. selected' = {d \in inFlight' : Backed(d)'}
    <3>1. \A d \in SpiContexts : Backed(d)' <=> Backed(d)
      BY DEF Backed
    <3> QED
      BY <1>1, <1>2, <1>4, <3>1 DEF OwnersInv, SpiTypes
  <2>3. ASSUME NEW d \in SpiContexts \ selected' PROVE dma'[d] = << >>
    BY <1>2, <1>4, <2>3 DEF OwnersInv, SpiTypes
  <2>4. platform' # "f4" => \A p \in SpiPorts : fifo'[p] # << >> => \E d \in selected' : SpiPort[d] = p
    BY <1>2, <1>4 DEF OwnersInv
  <2> QED
    BY <2>1, <2>2, <2>3, <2>4 DEF OwnersInv
<1>7. BurstsInv'
  <2> SUFFICES ASSUME NEW d \in selected'
               PROVE  OnItsWay(d)'
    BY DEF BurstsInv
  <2>1. CASE d = c
    <3>1. dc'[c] = TRUE /\ fifo'[SpiPort[c]] = << >> /\ seen'[c] = << >> /\ want'[c] = items /\ dma'[c] = items
      BY <1>2, <1>3, <1>4 DEF SpiTypes
    <3>2. << >> \o items = items /\ << >> \in Seq(DataItem)
      BY <1>1, ConcatEmptySeq, EmptySeq
    <3> QED
      BY <2>1, <3>1, <3>2 DEF OnItsWay
  <2>2. CASE d # c
    <3>1. d \in selected /\ d \in SpiContexts
      BY <1>2, <1>4, <2>2
    <3>2. dc'[d] = dc[d] /\ seen'[d] = seen[d] /\ want'[d] = want[d] /\ dma'[d] = dma[d]
          /\ fifo'[SpiPort[d]] = fifo[SpiPort[d]]
      BY <1>2, <1>4, <2>2, <3>1 DEF SpiTypes
    <3> QED
      BY <3>1, <3>2 DEF SpiInv, BurstsInv, OnItsWay
  <2> QED
    BY <2>1, <2>2
<1>8. PollInv'
  BY <1>1 DEF PollInv
<1>9. FlagsInv' /\ SpiAsPromised'
  BY <1>2 DEF SpiInv, FlagsInv, SetUp, NoReport, NoFrame, NoClock, SpiAsPromised, FramesIntact,
     NeverOverclocked
<1> QED
  BY <1>5, <1>6, <1>7, <1>8, <1>9 DEF SpiInv

LEMMA AsyncKeeps ==
    ASSUME SpiInv, UNCHANGED platform, NEW c \in SpiContexts, SpiSendDataBurstAsync(c)
    PROVE  SpiInv'
<1>1. PICK n \in 1..MaxBurst :
        Rp2Spi4SendAsync(c, n) \/ Rp2PioSpi4SendAsync(c, n) \/ SendAsyncBlocking(c, n)
  BY DEF SpiSendDataBurstAsync
<1>2. Ready(c) /\ inFlight' = inFlight \union {c} /\ UNCHANGED <<resetPin, held, poll>>
  BY DEF SpiSendDataBurstAsync
<1>3. PortQuiet(c) /\ SetUp(c) /\ poll = "none" /\ n \in Nat
  BY <1>2 DEF Ready
<1>4. CASE Rp2Spi4SendAsync(c, n) \/ Rp2PioSpi4SendAsync(c, n)
  BY <1>2, <1>3, <1>4, StartKeeps DEF Rp2Spi4SendAsync, Rp2PioSpi4SendAsync
<1>5. CASE SendAsyncBlocking(c, n)
  <2>1. Sent(c) /\ ~Backed(c)
    <3>1. ASSUME SpiType[c] = "spi3", Rp2Send(c, n, TRUE) PROVE Sent(c) /\ ~Backed(c)
      BY <1>2, <1>3, <3>1, Rp2Sent DEF Backed
    <3>2. ASSUME platform \in {"h7", "f4"}, SpiType[c] \in {"spi3", "spi4"}, StmSend(c, n, TRUE)
          PROVE  Sent(c) /\ ~Backed(c)
      BY <1>2, <1>3, <3>2, StmSent DEF Backed
    <3>3. ASSUME platform # "rp2", UNCHANGED wires, NoReport PROVE Sent(c) /\ ~Backed(c)
      BY <1>2, <1>3, <3>3, StubSent DEF Backed
    <3> QED
      BY <1>5, <3>1, <3>2, <3>3 DEF SendAsyncBlocking, Rp2Spi3Send, StmSpi3Send, StmSpi4Send,
         StmPioSpi4Send, HostSend
  <2>2. QuietRest(c)
    BY <1>2, <2>1 DEF QuietRest, SpiInv, SpiTypes
  <2> QED
    BY <1>3, <2>1, <2>2, QuietKeeps DEF Sent
<1> QED
  BY <1>1, <1>4, <1>5

\* A burst the DMA channel still feeds, or the peripheral still shifts, is one on the RP2.
LEMMA FeedKeeps ==
    ASSUME SpiInv, UNCHANGED platform, NEW c \in SpiContexts, DmaFeed(c)
    PROVE  SpiInv'
<1> DEFINE p == SpiPort[c]
           byte == Head(dma[c])
<1>1. /\ dma[c] # << >>
      /\ Len(fifo[p]) < FifoDepth
      /\ fifo' = [fifo EXCEPT ![p] = Append(fifo[p], byte)]
      /\ dma' = [dma EXCEPT ![c] = Tail(dma[c])]
      /\ NoReport
      /\ UNCHANGED <<resetPin, held, selected, dc, stall, flags, seen, want, inFlight, poll>>
  BY DEF DmaFeed
<1>2. SpiTypes /\ OwnersInv /\ BurstsInv /\ PollInv
  BY DEF SpiInv
<1>3. c \in selected /\ p \in SpiPorts /\ platform = "rp2" /\ selected \subseteq SpiContexts
      /\ selected \subseteq inFlight
  BY <1>1, <1>2 DEF OwnersInv, SpiPorts, Backed, SpiTypes
<1>4. /\ dma[c] \in Seq(DataItem) /\ seen[c] \in Seq(DataItem) /\ fifo[p] \in Seq(DataItem)
      /\ dc[c] = TRUE /\ seen[c] \o (fifo[p] \o dma[c]) = want[c]
  BY <1>2, <1>3 DEF SpiTypes, BurstsInv, OnItsWay
<1>5. /\ Append(fifo[p], byte) \o Tail(dma[c]) = fifo[p] \o dma[c]
      /\ Append(fifo[p], byte) \in Seq(DataItem) /\ Tail(dma[c]) \in Seq(DataItem) /\ byte \in DataItem
  BY <1>1, <1>4, Moved
<1>6. byte \in Item
  BY <1>5 DEF DataItem, Item
<1> HIDE DEF p, byte
<1>7. \A d \in inFlight : d # c => SpiPort[d] # p
  BY <1>2, <1>3 DEF OwnersInv, p
<1>8. SpiTypes'
  <2>1. fifo[p] \in Seq(Item) /\ fifo \in [SpiPorts -> Seq(Item)] /\ dma \in [SpiContexts -> Seq(DataItem)]
        /\ \A q \in SpiPorts : Len(fifo[q]) <= Room
    BY <1>2, <1>3 DEF SpiTypes
  <2>2. Append(fifo[p], byte) \in Seq(Item) /\ Len(Append(fifo[p], byte)) = Len(fifo[p]) + 1
        /\ Len(fifo[p]) \in Nat
    BY <1>6, <2>1, AppendProperties, LenProperties
  <2>3. Room = FifoDepth /\ Room' = FifoDepth /\ FifoDepth \in Nat
    BY <1>3 DEF Room
  <2>4. ASSUME NEW q \in SpiPorts PROVE Len(fifo'[q]) <= Room'
    <3>1. CASE q = p
      BY <1>1, <1>3, <2>1, <2>2, <2>3, <3>1
    <3>2. CASE q # p
      BY <1>1, <1>3, <2>1, <2>3, <3>2
    <3> QED
      BY <3>1, <3>2
  <2>5. fifo' \in [SpiPorts -> Seq(Item)] /\ dma' \in [SpiContexts -> Seq(DataItem)]
    BY <1>1, <1>3, <1>5, <2>1, <2>2
  <2> QED
    BY <1>1, <1>2, <2>4, <2>5 DEF SpiTypes
<1>9. OwnersInv'
  <2>1. \A d, e \in inFlight' : SpiPort[d] = SpiPort[e] => d = e
    BY <1>1, <1>2 DEF OwnersInv
  <2>2. selected' = {d \in inFlight' : Backed(d)'}
    BY <1>1, <1>2 DEF OwnersInv, Backed
  <2>3. ASSUME NEW d \in SpiContexts \ selected' PROVE dma'[d] = << >>
    <3>1. d # c /\ dma[d] = << >>
      BY <1>1, <1>2, <1>3, <2>3 DEF OwnersInv
    <3> QED
      BY <1>1, <1>2, <3>1 DEF SpiTypes
  <2>4. ASSUME NEW q \in SpiPorts, fifo'[q] # << >> PROVE \E d \in selected' : SpiPort[d] = q
    <3>1. CASE q = p
      BY <1>1, <1>3, <3>1 DEF p
    <3>2. CASE q # p
      <4>1. fifo[q] # << >>
        BY <1>1, <1>2, <2>4, <3>2 DEF SpiTypes
      <4> QED
        BY <1>1, <1>2, <1>3, <4>1 DEF OwnersInv
    <3> QED
      BY <3>1, <3>2
  <2> QED
    BY <2>1, <2>2, <2>3, <2>4 DEF OwnersInv
<1>10. BurstsInv'
  <2> SUFFICES ASSUME NEW d \in selected
               PROVE  OnItsWay(d)'
    BY <1>1 DEF BurstsInv
  <2>1. CASE d = c
    <3>1. dc'[c] = TRUE /\ fifo'[p] = Append(fifo[p], byte) /\ dma'[c] = Tail(dma[c])
          /\ seen'[c] = seen[c] /\ want'[c] = want[c]
      BY <1>1, <1>2, <1>3, <1>4 DEF SpiTypes
    <3> QED
      BY <1>4, <1>5, <2>1, <3>1 DEF OnItsWay, p
  <2>2. CASE d # c
    <3>1. SpiPort[d] # p /\ SpiPort[d] \in SpiPorts /\ d \in SpiContexts
      BY <1>3, <1>7, <2>2 DEF SpiPorts
    <3>2. dc'[d] = dc[d] /\ seen'[d] = seen[d] /\ want'[d] = want[d] /\ dma'[d] = dma[d]
          /\ fifo'[SpiPort[d]] = fifo[SpiPort[d]]
      BY <1>1, <1>2, <2>2, <3>1 DEF SpiTypes
    <3> QED
      BY <1>2, <3>2 DEF BurstsInv, OnItsWay
  <2> QED
    BY <2>1, <2>2
<1>11. PollInv'
  <2> SUFFICES ASSUME poll # "none"
               PROVE  PollInv'
    BY <1>1 DEF PollInv
  <2>1. poll \in selected /\ dma[poll] = << >> /\ poll # c
        /\ (SpiType[poll] = "pio4" => (stall[SpiPort[poll]] => fifo[SpiPort[poll]] = << >>))
    BY <1>1, <1>2 DEF PollInv
  <2>2. SpiPort[poll] # p /\ SpiPort[poll] \in SpiPorts /\ poll \in SpiContexts
    BY <1>3, <1>7, <2>1 DEF SpiPorts
  <2>3. dma'[poll] = dma[poll] /\ fifo'[SpiPort[poll]] = fifo[SpiPort[poll]]
    BY <1>1, <1>2, <2>1, <2>2 DEF SpiTypes
  <2> QED
    BY <1>1, <2>1, <2>3 DEF PollInv
<1>12. FlagsInv' /\ SpiAsPromised'
  BY <1>1 DEF SpiInv, FlagsInv, SetUp, NoReport, NoFrame, NoClock, SpiAsPromised, FramesIntact,
     NeverOverclocked
<1> QED
  BY <1>8, <1>9, <1>10, <1>11, <1>12 DEF SpiInv

\* The data/command line is high for the whole of a burst.
LEMMA SameByte ==
    ASSUME NEW x \in DataItem
    PROVE  [x EXCEPT !.dc = TRUE] = x
  BY DEF DataItem

LEMMA ShiftKeeps ==
    ASSUME SpiInv, UNCHANGED platform, NEW p \in SpiPorts, ShiftOut(p)
    PROVE  SpiInv'
<1> DEFINE byte(d) == [Head(fifo[p]) EXCEPT !.dc = dc[d]]
<1>1. /\ fifo[p] # << >>
      /\ fifo' = [fifo EXCEPT ![p] = Tail(fifo[p])]
      /\ seen' = [d \in SpiContexts |->
                    IF d \in selected /\ SpiPort[d] = p THEN Append(seen[d], byte(d)) ELSE seen[d]]
      /\ stall' = [stall EXCEPT ![p] = stall[p] \/ Len(fifo[p]) = 1]
      /\ NoReport
      /\ UNCHANGED <<resetPin, held, selected, dc, dma, flags, want, inFlight, poll>>
  BY DEF ShiftOut
<1>2. SpiTypes /\ OwnersInv /\ BurstsInv /\ PollInv
  BY DEF SpiInv
<1>3. selected \subseteq inFlight /\ inFlight \subseteq SpiContexts
  BY <1>2 DEF OwnersInv, SpiTypes
<1>4. fifo[p] \in Seq(Item) /\ Tail(fifo[p]) \in Seq(Item) /\ Len(fifo[p]) \in Nat
      /\ Len(fifo[p]) >= 1 /\ Len(Tail(fifo[p])) = Len(fifo[p]) - 1
      /\ fifo \in [SpiPorts -> Seq(Item)] /\ seen \in [SpiContexts -> Seq(DataItem)]
  <2>1. fifo \in [SpiPorts -> Seq(Item)] /\ seen \in [SpiContexts -> Seq(DataItem)]
    BY <1>2 DEF SpiTypes
  <2>2. fifo[p] \in Seq(Item)
    BY <2>1
  <2> QED
    BY <1>1, <2>1, <2>2, HeadTailProperties, LenProperties, EmptySeq
<1>5. ASSUME NEW d \in selected, SpiPort[d] = p
      PROVE  /\ seen[d] \in Seq(DataItem) /\ fifo[p] \in Seq(DataItem) /\ dma[d] \in Seq(DataItem)
             /\ byte(d) = Head(fifo[p]) /\ byte(d) \in DataItem
             /\ dc[d] = TRUE /\ seen[d] \o (fifo[p] \o dma[d]) = want[d]
  <2>1. seen[d] \in Seq(DataItem) /\ dma[d] \in Seq(DataItem)
    BY <1>2, <1>3 DEF SpiTypes
  <2>2. fifo[p] \in Seq(DataItem) /\ dc[d] = TRUE /\ seen[d] \o (fifo[p] \o dma[d]) = want[d]
    BY <1>2, <1>5 DEF BurstsInv, OnItsWay
  <2>3. Head(fifo[p]) \in DataItem
    BY <1>1, <2>2, HeadTailProperties
  <2>4. byte(d) = Head(fifo[p])
    BY <2>2, <2>3, SameByte
  <2> QED
    BY <2>1, <2>2, <2>3, <2>4
<1> HIDE DEF byte
<1>6. SpiTypes'
  <2>1. \A q \in SpiPorts : Len(fifo[q]) <= Room
    BY <1>2 DEF SpiTypes
  <2>2. Room' = Room /\ Room \in Nat
    BY DEF Room
  <2>3. ASSUME NEW q \in SpiPorts PROVE fifo'[q] \in Seq(Item) /\ Len(fifo'[q]) <= Room'
    <3>1. CASE q = p
      BY <1>1, <1>4, <2>1, <2>2, <3>1
    <3>2. CASE q # p
      BY <1>1, <1>4, <2>1, <2>2, <3>2
    <3> QED
      BY <3>1, <3>2
  <2>4. fifo' \in [SpiPorts -> Seq(Item)]
    BY <1>1, <1>4
  <2>5. seen' \in [SpiContexts -> Seq(DataItem)]
    <3>1. ASSUME NEW d \in SpiContexts PROVE seen'[d] \in Seq(DataItem)
      <4>1. CASE d \in selected /\ SpiPort[d] = p
        <5>1. Append(seen[d], byte(d)) \in Seq(DataItem)
          BY <1>5, <4>1, AppendProperties
        <5> QED
          BY <1>1, <4>1, <5>1
      <4>2. CASE ~(d \in selected /\ SpiPort[d] = p)
        BY <1>1, <1>4, <4>2
      <4> QED
        BY <4>1, <4>2
    <3> QED
      BY <1>1, <3>1
  <2>6. stall' \in [SpiPorts -> BOOLEAN]
    BY <1>1, <1>2 DEF SpiTypes
  <2> QED
    BY <1>1, <1>2, <2>3, <2>4, <2>5, <2>6 DEF SpiTypes
<1>7. OwnersInv'
  <2>1. /\ \A d, e \in inFlight' : SpiPort[d] = SpiPort[e] => d = e
        /\ selected' = {d \in inFlight' : Backed(d)'}
        /\ \A d \in SpiContexts \ selected' : dma'[d] = << >>
    BY <1>1, <1>2 DEF OwnersInv, Backed
  <2>2. ASSUME platform' # "f4", NEW q \in SpiPorts, fifo'[q] # << >>
        PROVE  \E d \in selected' : SpiPort[d] = q
    <3>1. fifo[q] # << >>
      BY <1>1, <1>4, <2>2
    <3> QED
      BY <1>1, <1>2, <2>2, <3>1 DEF OwnersInv
  <2> QED
    BY <2>1, <2>2 DEF OwnersInv
<1>8. BurstsInv'
  <2> SUFFICES ASSUME NEW d \in selected
               PROVE  OnItsWay(d)'
    BY <1>1 DEF BurstsInv
  <2>1. CASE SpiPort[d] = p
    <3>1. dc'[d] = TRUE /\ fifo'[p] = Tail(fifo[p]) /\ dma'[d] = dma[d] /\ want'[d] = want[d]
          /\ seen'[d] = Append(seen[d], Head(fifo[p]))
      BY <1>1, <1>3, <1>4, <1>5, <2>1
    <3>2. Append(seen[d], Head(fifo[p])) \o (Tail(fifo[p]) \o dma[d]) = seen[d] \o (fifo[p] \o dma[d])
      <4>1. PICK s \in Seq(DataItem), f \in Seq(DataItem), e \in Seq(DataItem) :
              s = seen[d] /\ f = fifo[p] /\ e = dma[d]
        BY <1>5, <2>1
      <4>2. f # << >>
        BY <1>1, <4>1
      <4>3. Append(s, Head(f)) \o (Tail(f) \o e) = s \o (f \o e)
        BY <4>2, MovedBefore
      <4> QED
        BY <4>1, <4>3
    <3>3. Tail(fifo[p]) \in Seq(DataItem)
      BY <1>1, <1>5, <2>1, HeadTailProperties
    <3> QED
      BY <1>5, <2>1, <3>1, <3>2, <3>3 DEF OnItsWay
  <2>2. CASE SpiPort[d] # p
    <3>1. SpiPort[d] \in SpiPorts /\ d \in SpiContexts
      BY <1>3 DEF SpiPorts
    <3>2. dc'[d] = dc[d] /\ seen'[d] = seen[d] /\ want'[d] = want[d] /\ dma'[d] = dma[d]
          /\ fifo'[SpiPort[d]] = fifo[SpiPort[d]]
      BY <1>1, <1>4, <2>2, <3>1
    <3> QED
      BY <1>2, <3>2 DEF BurstsInv, OnItsWay
  <2> QED
    BY <2>1, <2>2
<1>9. PollInv'
  <2> SUFFICES ASSUME poll # "none"
               PROVE  PollInv'
    BY <1>1 DEF PollInv
  <2>1. poll \in selected /\ dma[poll] = << >> /\ SpiPort[poll] \in SpiPorts
        /\ (SpiType[poll] = "pio4" => (stall[SpiPort[poll]] => fifo[SpiPort[poll]] = << >>))
    BY <1>2, <1>3 DEF PollInv, SpiPorts
  <2>2. ASSUME SpiType[poll] = "pio4", stall'[SpiPort[poll]] PROVE fifo'[SpiPort[poll]] = << >>
    <3>1. CASE SpiPort[poll] = p
      <4>1. stall[p] = FALSE
        BY <1>1, <1>2, <2>1, <2>2, <3>1 DEF SpiTypes
      <4>2. Len(fifo[p]) = 1
        BY <1>1, <1>2, <2>1, <2>2, <3>1, <4>1 DEF SpiTypes
      <4>3. Len(Tail(fifo[p])) = 0
        BY <1>4, <4>2
      <4>4. Tail(fifo[p]) = << >>
        BY <1>4, <4>3, EmptySeq
      <4> QED
        BY <1>1, <1>4, <3>1, <4>4
    <3>2. CASE SpiPort[poll] # p
      BY <1>1, <1>2, <1>4, <2>1, <2>2, <3>2 DEF SpiTypes
    <3> QED
      BY <3>1, <3>2
  <2> QED
    BY <1>1, <2>1, <2>2 DEF PollInv
<1>10. FlagsInv' /\ SpiAsPromised'
  BY <1>1 DEF SpiInv, FlagsInv, SetUp, NoReport, NoFrame, NoClock, SpiAsPromised, FramesIntact,
     NeverOverclocked
<1> QED
  BY <1>6, <1>7, <1>8, <1>9, <1>10 DEF SpiInv

\* The answer TRUE, when the hardware of the context has nothing left.
LEMMA CompleteKeeps ==
    ASSUME SpiInv, UNCHANGED <<platform, stall>>, NEW c \in SpiContexts, c \in inFlight, Complete(c),
           poll' = "none", c \in selected => fifo[SpiPort[c]] = << >> /\ dma[c] = << >>
    PROVE  SpiInv'
<1>1. /\ selected' = selected \ {c} /\ inFlight' = inFlight \ {c}
      /\ IF c \in selected THEN Closed(c, seen[c], want[c], FALSE, FALSE) ELSE NoReport
      /\ seen' = [seen EXCEPT ![c] = << >>] /\ want' = [want EXCEPT ![c] = << >>]
      /\ UNCHANGED <<resetPin, held, dc, dma, fifo, flags>>
  BY DEF Complete
<1>2. SpiTypes /\ OwnersInv /\ BurstsInv
  BY DEF SpiInv
<1>3. selected \subseteq inFlight /\ inFlight \subseteq SpiContexts
  BY <1>2 DEF OwnersInv, SpiTypes
<1>4. c \in selected => seen[c] = want[c]
  <2> SUFFICES ASSUME c \in selected
               PROVE  seen[c] = want[c]
    OBVIOUS
  <2>1. seen[c] \o (<< >> \o << >>) = want[c] /\ seen[c] \in Seq(DataItem)
    BY <1>2 DEF SpiTypes, BurstsInv, OnItsWay
  <2>2. << >> \o << >> = << >> /\ seen[c] \o << >> = seen[c]
    BY <2>1, EmptySeq, ConcatEmptySeq
  <2> QED
    BY <2>1, <2>2
<1>5. SpiTypes'
  <2>1. << >> \in Seq(DataItem)
    BY EmptySeq
  <2>2. seen' \in [SpiContexts -> Seq(DataItem)] /\ want' \in [SpiContexts -> Seq(DataItem)]
    BY <1>1, <1>2, <2>1 DEF SpiTypes
  <2> QED
    BY <1>1, <1>2, <2>2 DEF SpiTypes, Room
<1>6. OwnersInv'
  <2>1. \A d, e \in inFlight' : SpiPort[d] = SpiPort[e] => d = e
    BY <1>1, <1>2 DEF OwnersInv
  <2>2. selected' = {d \in inFlight' : Backed(d)'}
    <3>1. \A d \in SpiContexts : Backed(d)' <=> Backed(d)
      BY DEF Backed
    <3> QED
      BY <1>1, <1>2, <1>3, <3>1 DEF OwnersInv
  <2>3. \A d \in SpiContexts \ selected' : dma'[d] = << >>
    BY <1>1, <1>2 DEF OwnersInv
  <2>4. ASSUME platform' # "f4", NEW q \in SpiPorts, fifo'[q] # << >>
        PROVE  \E d \in selected' : SpiPort[d] = q
    <3>1. PICK d \in selected : SpiPort[d] = q
      BY <1>1, <1>2, <2>4 DEF OwnersInv
    <3>2. d # c
      BY <1>1, <2>4, <3>1
    <3> QED
      BY <1>1, <3>1, <3>2
  <2> QED
    BY <2>1, <2>2, <2>3, <2>4 DEF OwnersInv
<1>7. BurstsInv'
  <2> SUFFICES ASSUME NEW d \in selected, d # c
               PROVE  OnItsWay(d)'
    BY <1>1 DEF BurstsInv
  <2>1. seen'[d] = seen[d] /\ want'[d] = want[d]
    BY <1>1, <1>2, <1>3 DEF SpiTypes
  <2> QED
    BY <1>1, <1>2, <2>1 DEF BurstsInv, OnItsWay
<1>8. PollInv'
  BY DEF PollInv
<1>9. FlagsInv'
  BY <1>1 DEF SpiInv, FlagsInv, SetUp
<1>10. SpiAsPromised'
  <2>1. ASSUME c \in selected PROVE SpiAsPromised'
    <3>1. frame'.got = frame'.wanted /\ frame'.timedOut = FALSE /\ clock' = NoClock
      BY <1>1, <1>4, <2>1 DEF Closed
    <3> QED
      BY <3>1 DEF SpiAsPromised, FramesIntact, NeverOverclocked, NoClock
  <2>2. ASSUME NoReport PROVE SpiAsPromised'
    BY <2>2 DEF NoReport, NoFrame, NoClock, SpiAsPromised, FramesIntact, NeverOverclocked
  <2> QED
    BY <1>1, <2>1, <2>2
<1> QED
  BY <1>5, <1>6, <1>7, <1>8, <1>9, <1>10 DEF SpiInv

LEMMA PollsKeep ==
    ASSUME SpiInv, UNCHANGED platform, NEW c \in SpiContexts,
           BurstIsCompleteAtOnce(c) \/ Rp2Spi4BurstIsComplete(c) \/ Rp2PioSpi4BurstIsComplete(c)
    PROVE  SpiInv'
<1>1. OwnersInv /\ PollInv /\ c # "none"
  BY DEF SpiInv
<1>2. CASE BurstIsCompleteAtOnce(c)
  <2>1. c \notin selected /\ poll' = "none"
    BY <1>1, <1>2 DEF OwnersInv, BurstIsCompleteAtOnce
  <2> QED
    BY <1>2, <2>1, CompleteKeeps DEF BurstIsCompleteAtOnce
<1>3. ASSUME poll = c
      PROVE  c \in selected /\ c \in inFlight /\ dma[c] = << >>
             /\ (SpiType[c] = "pio4" => (stall[SpiPort[c]] => fifo[SpiPort[c]] = << >>))
  BY <1>1, <1>3 DEF PollInv, OwnersInv
<1>4. CASE Rp2Spi4BurstIsComplete(c)
  <2>1. poll = c /\ poll' = "none" /\ UNCHANGED stall
    BY <1>4 DEF Rp2Spi4BurstIsComplete
  <2>2. CASE fifo[SpiPort[c]] = << >>
    BY <1>3, <1>4, <2>1, <2>2, CompleteKeeps DEF Rp2Spi4BurstIsComplete
  <2>3. CASE fifo[SpiPort[c]] # << >>
    <3>1. NoReport /\ UNCHANGED <<resetPin, held, wires, inFlight>>
      BY <1>4, <2>3 DEF Rp2Spi4BurstIsComplete
    <3>2. SpiTypes' /\ OwnersInv' /\ BurstsInv'
      <4>1. SpiTypes'
        BY <3>1 DEF wires, SpiInv, SpiTypes, Room
      <4>2. OwnersInv'
        BY <3>1 DEF wires, SpiInv, OwnersInv, Backed
      <4>3. BurstsInv'
        BY <3>1 DEF wires, SpiInv, BurstsInv, OnItsWay
      <4> QED
        BY <4>1, <4>2, <4>3
    <3>3. PollInv' /\ FlagsInv'
      BY <2>1, <3>1 DEF wires, SpiInv, PollInv, FlagsInv, SetUp
    <3>4. SpiAsPromised'
      BY <3>1 DEF NoReport, NoFrame, NoClock, SpiAsPromised, FramesIntact, NeverOverclocked
    <3> QED
      BY <3>2, <3>3, <3>4 DEF SpiInv
  <2> QED
    BY <2>2, <2>3
<1>5. CASE Rp2PioSpi4BurstIsComplete(c)
  <2>1. poll = c /\ poll' = "none" /\ stall[SpiPort[c]] /\ SpiType[c] = "pio4" /\ UNCHANGED stall
        /\ Complete(c)
    BY <1>5 DEF Rp2PioSpi4BurstIsComplete
  <2> QED
    BY <1>3, <2>1, CompleteKeeps
<1> QED
  BY <1>2, <1>4, <1>5

LEMMA PollDmaKeeps ==
    ASSUME SpiInv, UNCHANGED platform, NEW c \in SpiContexts, PollDma(c)
    PROVE  SpiInv'
<1>1. /\ c \in inFlight /\ Backed(c) /\ NoReport
      /\ poll' = IF dma[c] # << >> THEN "none" ELSE c
      /\ stall' = IF SpiType[c] = "pio4" /\ dma[c] = << >>
                  THEN [stall EXCEPT ![SpiPort[c]] = (fifo[SpiPort[c]] = << >>)]
                  ELSE stall
      /\ UNCHANGED <<resetPin, held, selected, dc, dma, fifo, flags, seen, want, inFlight>>
  BY DEF PollDma
<1>2. c \in selected /\ SpiPort[c] \in SpiPorts /\ stall \in [SpiPorts -> BOOLEAN]
  BY <1>1 DEF SpiInv, SpiTypes, OwnersInv, SpiPorts
<1>3. SpiTypes'
  <2>1. stall' \in [SpiPorts -> BOOLEAN]
    BY <1>1, <1>2
  <2> QED
    BY <1>1, <2>1 DEF SpiInv, SpiTypes, Room
<1>4. OwnersInv' /\ BurstsInv' /\ FlagsInv'
  <2>1. OwnersInv'
    BY <1>1 DEF SpiInv, OwnersInv, Backed
  <2>2. BurstsInv'
    BY <1>1 DEF SpiInv, BurstsInv, OnItsWay
  <2>3. FlagsInv'
    BY <1>1 DEF SpiInv, FlagsInv, SetUp
  <2> QED
    BY <2>1, <2>2, <2>3
<1>5. PollInv'
  <2>1. ASSUME dma[c] = << >>, SpiType[c] = "pio4", stall'[SpiPort[c]] PROVE fifo[SpiPort[c]] = << >>
    BY <1>1, <1>2, <2>1
  <2> QED
    BY <1>1, <1>2, <2>1 DEF PollInv
<1>6. SpiAsPromised'
  BY <1>1 DEF NoReport, NoFrame, NoClock, SpiAsPromised, FramesIntact, NeverOverclocked
<1> QED
  BY <1>3, <1>4, <1>5, <1>6 DEF SpiInv

-----------------------------------------------------------------------------
(* Clock, mode and reset. *)

LEMMA ClockKeeps ==
    ASSUME SpiInv, UNCHANGED platform, NEW c \in SpiContexts, SetSpiClock(c)
    PROVE  SpiInv'
<1>1. PICK hz \in AskedRates :
        \/ \E source \in KernelRates : StmSetClock(c, hz, source)
        \/ clock' = NoClock /\ UNCHANGED flags
  BY DEF SetSpiClock, Rp2SetClock, HostSetClock
<1>2. /\ PortQuiet(c) /\ poll = "none" /\ frame' = NoFrame
      /\ UNCHANGED <<resetPin, held, selected, dc, dma, fifo, stall, seen, want, inFlight, poll>>
  BY DEF SetSpiClock, Ready
<1>3. /\ SpiPort[c] \in SpiPorts /\ flags \in [SpiPorts -> FlagsRow]
  BY <1>2, QuietPort DEF SpiInv, SpiTypes
<1>4. NeverOverclocked'
  <2>1. ASSUME NEW source \in KernelRates, StmSetClock(c, hz, source) PROVE NeverOverclocked'
    <3> DEFINE rate == source \div 2^(Divider(source, hz) + 1)
    <3>1. hz \in Nat /\ source \in Nat
      OBVIOUS
    <3>2. rate > hz => rate = source \div 256
      BY <3>1, DividerIs
    <3> HIDE DEF rate
    <3>3. clock'.asked = hz /\ clock'.source = source /\ clock'.got = IF source = 0 THEN 0 ELSE rate
      BY <2>1 DEF StmSetClock, rate
    <3>4. 0 > hz => FALSE
      BY <3>1
    <3> QED
      BY <3>2, <3>3, <3>4 DEF NeverOverclocked
  <2>2. ASSUME clock' = NoClock PROVE NeverOverclocked'
    BY <2>2 DEF NeverOverclocked, NoClock
  <2> QED
    BY <1>1, <2>1, <2>2
<1>5. UNCHANGED flags \/ flags' = [flags EXCEPT ![SpiPort[c]].spe = (platform = "f4")]
  BY <1>1 DEF StmSetClock
<1>6. flags' \in [SpiPorts -> FlagsRow] /\ FlagsInv'
  <2>1. UNCHANGED flags \/ flags' = [flags EXCEPT ![SpiPort[c]] = [flags[SpiPort[c]] EXCEPT !.spe = (platform = "f4")]]
    BY <1>5
  <2>2. PICK row : row = [flags[SpiPort[c]] EXCEPT !.spe = (platform = "f4")]
    OBVIOUS
  <2>3. row \in FlagsRow /\ row.spe = (platform = "f4") /\ row.eot = flags[SpiPort[c]].eot
    BY <1>3, <2>2 DEF FlagsRow
  <2>4. UNCHANGED flags \/ flags' = [flags EXCEPT ![SpiPort[c]] = row]
    BY <2>1, <2>2
  <2>5. flags' \in [SpiPorts -> FlagsRow]
    BY <1>3, <2>3, <2>4
  <2>6. ASSUME platform = "h7", NEW p \in SpiPorts PROVE flags'[p].eot = FALSE
    BY <1>3, <2>3, <2>4, <2>6 DEF SpiInv, FlagsInv
  <2>7. ASSUME platform = "f4", NEW d \in SpiContexts, SetUp(d), SpiType[d] \in {"spi3", "spi4"}
        PROVE  flags'[SpiPort[d]].spe = TRUE
    <3>1. flags[SpiPort[d]].spe = TRUE /\ SpiPort[d] \in SpiPorts
      BY <2>7 DEF SpiInv, FlagsInv, SpiPorts
    <3> QED
      BY <1>3, <2>3, <2>4, <2>7, <3>1
  <2> QED
    BY <1>2, <2>5, <2>6, <2>7 DEF FlagsInv, SetUp
<1>7. SpiTypes' /\ OwnersInv' /\ BurstsInv'
  <2>1. SpiTypes'
    BY <1>2, <1>6 DEF SpiInv, SpiTypes, Room
  <2>2. OwnersInv'
    BY <1>2 DEF SpiInv, OwnersInv, Backed
  <2>3. BurstsInv'
    BY <1>2 DEF SpiInv, BurstsInv, OnItsWay
  <2> QED
    BY <2>1, <2>2, <2>3
<1>8. PollInv' /\ FramesIntact'
  BY <1>2 DEF PollInv, FramesIntact, NoFrame
<1> QED
  BY <1>4, <1>6, <1>7, <1>8 DEF SpiInv, SpiAsPromised

\* The mode and the reset line touch nothing a frame depends on.
LEMMA LinesKeep ==
    ASSUME SpiInv, UNCHANGED platform, NEW c \in SpiContexts, SetSpiMode(c) \/ DriveReset(c)
    PROVE  SpiInv'
<1>1. UNCHANGED <<resetPin, selected, dc, dma, fifo, stall, flags, seen, want, inFlight, poll>> /\ NoReport
  <2>1. ASSUME SetSpiMode(c) PROVE flags' = flags
    <3>1. flags' = [flags EXCEPT ![SpiPort[c]].spe = flags[SpiPort[c]].spe]
      BY <2>1 DEF SetSpiMode, StmSetMode
    <3>2. SpiPort[c] \in SpiPorts /\ flags \in [SpiPorts -> FlagsRow]
      BY DEF SpiInv, SpiTypes, SpiPorts
    <3>3. PICK row : row = [flags[SpiPort[c]] EXCEPT !.spe = flags[SpiPort[c]].spe]
      OBVIOUS
    <3>4. row = flags[SpiPort[c]]
      BY <3>2, <3>3 DEF FlagsRow
    <3>5. flags' = [flags EXCEPT ![SpiPort[c]] = row]
      BY <3>1, <3>3
    <3> QED
      BY <3>2, <3>4, <3>5
  <2> QED
    BY <2>1 DEF SetSpiMode, DriveReset, wires
<1>2. held' \subseteq SpiContexts
  BY DEF SpiInv, SpiTypes, SetSpiMode, DriveReset, Rp2SetReset, StmSetReset, Rp2SignalReset, StmSignalReset
<1>3. SpiTypes' /\ OwnersInv' /\ BurstsInv'
  <2>1. SpiTypes'
    BY <1>1, <1>2 DEF SpiInv, SpiTypes, Room
  <2>2. OwnersInv'
    BY <1>1 DEF SpiInv, OwnersInv, Backed
  <2>3. BurstsInv'
    BY <1>1 DEF SpiInv, BurstsInv, OnItsWay
  <2> QED
    BY <2>1, <2>2, <2>3
<1>4. PollInv' /\ FlagsInv'
  BY <1>1 DEF SpiInv, PollInv, FlagsInv, SetUp
<1>5. SpiAsPromised'
  BY <1>1 DEF NoReport, NoFrame, NoClock, SpiAsPromised, FramesIntact, NeverOverclocked
<1> QED
  BY <1>3, <1>4, <1>5 DEF SpiInv

LEMMA SpiStepKeeps ==
    ASSUME SpiInv, SpiNext, UNCHANGED platform
    PROVE  SpiInv'
<1>1. ASSUME NEW p \in SpiPorts, ShiftOut(p) PROVE SpiInv'
  BY <1>1, ShiftKeeps
<1>2. ASSUME NEW c \in SpiContexts, Setup(c) PROVE SpiInv'
  BY <1>2, SetupKeeps
<1>3. ASSUME NEW c \in SpiContexts, SpiSendCommandByte(c) \/ SpiSendDataByte(c) \/ SpiSendDataBurst(c)
      PROVE  SpiInv'
  <2>1. PICK n \in Nat, level \in BOOLEAN : Send(c, n, level)
    <3>1. ASSUME NEW n \in 1..MaxBurst PROVE n \in Nat
      OBVIOUS
    <3> QED
      BY <1>3, <3>1 DEF SpiSendCommandByte, SpiSendDataByte, SpiSendDataBurst
  <2>2. Ready(c)
    BY <1>3 DEF SpiSendCommandByte, SpiSendDataByte, SpiSendDataBurst
  <2> QED
    BY <2>1, <2>2, SpiSendKeeps
<1>4. ASSUME NEW c \in SpiContexts, SpiSendDataBurstAsync(c) PROVE SpiInv'
  BY <1>4, AsyncKeeps
<1>5. ASSUME NEW c \in SpiContexts, DmaFeed(c) PROVE SpiInv'
  BY <1>5, FeedKeeps
<1>6. ASSUME NEW c \in SpiContexts,
             BurstIsCompleteAtOnce(c) \/ Rp2Spi4BurstIsComplete(c) \/ Rp2PioSpi4BurstIsComplete(c)
      PROVE  SpiInv'
  BY <1>6, PollsKeep
<1>7. ASSUME NEW c \in SpiContexts, PollDma(c) PROVE SpiInv'
  BY <1>7, PollDmaKeeps
<1>8. ASSUME NEW c \in SpiContexts, SetSpiClock(c) PROVE SpiInv'
  BY <1>8, ClockKeeps
<1>9. ASSUME NEW c \in SpiContexts, SetSpiMode(c) \/ DriveReset(c) PROVE SpiInv'
  BY <1>9, LinesKeep
<1> QED
  BY <1>1, <1>2, <1>3, <1>4, <1>5, <1>6, <1>7, <1>8, <1>9 DEF SpiNext

\* A burst is in its device, in the peripheral or with the DMA channel, and nothing else is on
\* its wires until the answer that it is complete.
THEOREM SpiInvariance == SpiSpec => []SpiInv
<1>1. PlatformInit /\ SpiInit => SpiInv
  <2> SUFFICES ASSUME PlatformInit, SpiInit
               PROVE  SpiInv
    OBVIOUS
  <2>1. << >> \in Seq(DataItem) /\ << >> \in Seq(Item) /\ Len(<< >>) = 0
    BY EmptySeq
  <2>2. [spe |-> FALSE, eot |-> FALSE] \in FlagsRow
    BY DEF FlagsRow
  <2>3. platform \in {"rp2", "h7", "f4", "host"}
    BY PlatformAssumption DEF PlatformInit
  <2>4. SpiTypes
    <3>1. Room \in Nat
      BY DEF Room
    <3>2. \A p \in SpiPorts : fifo[p] = << >>
      BY DEF SpiInit
    <3> QED
      BY <2>1, <2>2, <2>3, <3>1, <3>2 DEF SpiInit, SpiTypes
  <2>5. OwnersInv /\ BurstsInv /\ PollInv
    BY DEF SpiInit, OwnersInv, BurstsInv, PollInv
  <2>6. FlagsInv
    BY DEF SpiInit, FlagsInv, SetUp, NotSetUp
  <2>7. SpiAsPromised
    BY DEF SpiInit, NoFrame, NoClock, SpiAsPromised, FramesIntact, NeverOverclocked
  <2> QED
    BY <2>4, <2>5, <2>6, <2>7 DEF SpiInv
<1>2. SpiInv /\ [SpiNext /\ UNCHANGED platform]_<<spiVars, platform>> => SpiInv'
  <2> SUFFICES ASSUME SpiInv, [SpiNext /\ UNCHANGED platform]_<<spiVars, platform>>
               PROVE  SpiInv'
    OBVIOUS
  <2>1. CASE SpiNext /\ UNCHANGED platform
    BY <2>1, SpiStepKeeps
  <2>2. CASE UNCHANGED <<spiVars, platform>>
    <3>1. SpiTypes' /\ OwnersInv' /\ BurstsInv'
      <4>1. SpiTypes'
        BY <2>2 DEF spiVars, wires, SpiInv, SpiTypes, Room
      <4>2. OwnersInv'
        BY <2>2 DEF spiVars, wires, SpiInv, OwnersInv, Backed
      <4>3. BurstsInv'
        BY <2>2 DEF spiVars, wires, SpiInv, BurstsInv, OnItsWay
      <4> QED
        BY <4>1, <4>2, <4>3
    <3>2. PollInv' /\ FlagsInv' /\ SpiAsPromised'
      BY <2>2 DEF spiVars, wires, SpiInv, PollInv, FlagsInv, SetUp, SpiAsPromised, FramesIntact,
         NeverOverclocked
    <3> QED
      BY <3>1, <3>2 DEF SpiInv
  <2> QED
    BY <2>1, <2>2
<1> QED
  BY <1>1, <1>2, PTL DEF SpiSpec

\* Contexts are contexts, no peripheral holds more than it has room for, and the DMA channel
\* works only for a context whose chip select is low and whose burst is outstanding.
THEOREM SpiTyping == SpiSpec => []SpiTypeOK
<1>1. SpiInv => SpiTypeOK
  BY DEF SpiInv, SpiTypes, OwnersInv, PollInv, Room, SpiTypeOK
<1> QED
  BY <1>1, SpiInvariance, PTL

\* Whenever a chip select goes up its device has been clocked exactly the bytes of the one call
\* it framed, or a prefix of them where an STM32 wait timed out, and a panel is never clocked
\* faster than asked for while a divider is left (platform.c of the RP2 and STM32 ports: the
\* sends, light_ioport_burst_is_complete() and light_ioport_set_spi_clock()).
THEOREM SpiKeepsPromises == SpiSpec => []SpiAsPromised
<1>1. SpiInv => SpiAsPromised
  BY DEF SpiInv
<1> QED
  BY <1>1, SpiInvariance, PTL
================================================================================
