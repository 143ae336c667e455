----------------------------- MODULE MCPeripherals -----------------------------
(***************************************************************************)
(* The drivers that have nothing in common but the chip they are built     *)
(* for, each explored with the others at rest.                             *)
(***************************************************************************)
EXTENDS LightI2c, LightSpiSlave, LightSpiMaster, LightTimer, LightPwm, LightUsbWorker

VARIABLE exercised      \* the driver this behaviour is about

\* Two devices on one I2C peripheral.
MCI2cPort == [c \in I2cContexts |-> "i2c0"]

\* A panel and a link on one SPI peripheral, a second panel on the PIO.
MCSpiType == [panel |-> "spi4", link |-> "spi3", pio |-> "pio4"]
MCSpiPort == [panel |-> "spi0", link |-> "spi0", pio |-> "pio0"]

\* Two pins on the two channels of one block.
MCBlock == [p \in PwmPins |-> 1]
MCChannel == [pinA |-> 1, pinB |-> 2]

\* The RP2's receive interrupt waits for part of a FIFO, the STM32's for one byte.
MCDepth == [p \in Ports |-> 2]
MCThreshold == [p \in Ports |-> IF p = "rp2" THEN 2 ELSE 1]

drivers == <<i2cVars, rxVars, spiVars, timerVars, pwmVars, usbVars>>

Init ==
    /\ exercised \in {"i2c", "rx", "spi", "timer", "pwm", "usb"}
    /\ PlatformInit
    /\ exercised = "usb" => platform = "rp2"
    /\ exercised \in {"timer", "pwm"} => platform # "f4"   \* the H7's, line for line
    /\ I2cInit /\ SpiInit /\ PwmInit /\ UsbInit
    /\ RxInit /\ port = (IF exercised = "rx" THEN platform ELSE "rp2")
    /\ IF exercised = "timer" THEN TimerInit ELSE TimerInit /\ clockMs = 0

Next ==
    /\ UNCHANGED <<exercised, platform>>
    /\ \/ exercised = "i2c" /\ I2cNext /\ UNCHANGED <<rxVars, spiVars, timerVars, pwmVars, usbVars>>
       \/ exercised = "rx" /\ RxNext /\ UNCHANGED <<i2cVars, spiVars, timerVars, pwmVars, usbVars>>
       \/ exercised = "spi" /\ SpiNext /\ UNCHANGED <<i2cVars, rxVars, timerVars, pwmVars, usbVars>>
       \/ exercised = "timer" /\ TimerNext /\ UNCHANGED <<i2cVars, rxVars, spiVars, pwmVars, usbVars>>
       \/ exercised = "pwm" /\ PwmNext /\ UNCHANGED <<i2cVars, rxVars, spiVars, timerVars, usbVars>>
       \/ exercised = "usb" /\ UsbNext /\ UNCHANGED <<i2cVars, rxVars, spiVars, timerVars, pwmVars>>

\* UsbFairness; with the other drivers core 1 rests and it asks for nothing.
Usb(step) == exercised = "usb" /\ step
Rx(step) == exercised = "rx" /\ step

Fairness ==
    /\ WF_usbVars(Usb(Core0Steps))
    /\ WF_usbVars(Usb(Core1Steps))
    /\ WF_usbVars(Usb(Tick))
    /\ SF_usbVars(Usb(ConsoleIdle))
    /\ WF_rxVars(Rx(Isr)) /\ WF_rxVars(Rx(Poll)) /\ WF_rxVars(Rx(StartRx))

Spec == Init /\ [][Next]_<<drivers, exercised, platform>> /\ Fairness
===============================================================================
