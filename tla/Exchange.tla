------------------------------ MODULE Exchange ------------------------------
(***************************************************************************)
(* The six buffers through which the tasks, the cores, the interrupts      *)
(* and the host hand data to each other, checked in one run.  They share   *)
(* no state, so a behaviour is one of a single buffer and the others stay  *)
(* in one initial state.                                                   *)
(***************************************************************************)
EXTENDS SeqlockTopic, SystemEventBus, ControlSettings, ServoOutput, Blackbox, UsbCdcTx, TLC

VARIABLE buffer

exchangeVars ==
    <<buffer, vars, busVars, settingsVars, outputVars, blackboxVars, usbVars>>

ExchangeInit ==
    /\ buffer \in {"topic", "events", "settings", "servos", "log", "usb"}
    /\ Init /\ BusInit /\ SettingsInit /\ OutputInit
    /\ BlackboxInit /\ (buffer # "log" => outputMode = "telemetry")
    /\ UsbInit /\ (buffer # "usb" => ~attached)

ExchangeNext ==
    \/ /\ buffer = "topic" /\ Next
       /\ UNCHANGED <<buffer, busVars, settingsVars, outputVars, blackboxVars, usbVars>>
    \/ /\ buffer = "events" /\ BusNext
       /\ UNCHANGED <<buffer, vars, settingsVars, outputVars, blackboxVars, usbVars>>
    \/ /\ buffer = "settings" /\ SettingsNext
       /\ UNCHANGED <<buffer, vars, busVars, outputVars, blackboxVars, usbVars>>
    \/ /\ buffer = "servos" /\ OutputNext
       /\ UNCHANGED <<buffer, vars, busVars, settingsVars, blackboxVars, usbVars>>
    \/ /\ buffer = "log" /\ BlackboxNext
       /\ UNCHANGED <<buffer, vars, busVars, settingsVars, outputVars, usbVars>>
    \/ /\ buffer = "usb" /\ UsbNext
       /\ UNCHANGED <<buffer, vars, busVars, settingsVars, outputVars, blackboxVars>>

\* The fairness conditions of the six.
ExchangeFairness ==
    /\ \A r \in Readers : WF_vars(buffer = "topic" /\ InRead(r))
    /\ WF_busVars(buffer = "events" /\ drainEvents)
    /\ WF_busVars(buffer = "events" /\ (checkFull \/ writeEvent \/ storeHead))
    /\ WF_settingsVars(buffer = "settings" /\ applySettings)
    /\ WF_settingsVars(buffer = "settings" /\ (storeSetting \/ endSettings))
    /\ WF_outputVars(buffer = "servos" /\ storeChannel)
    /\ WF_outputVars(buffer = "servos" /\ latchChannel)
    /\ WF_outputVars(buffer = "servos" /\ framePeriod)
    /\ WF_outputVars(buffer = "servos" /\ beginFrame)
    /\ WF_blackboxVars(buffer = "log" /\ (drain \/ writeByte \/ endWrite))
    /\ WF_blackboxVars(buffer = "log" /\ txIrq /\ serviceTx)
    /\ SF_blackboxVars(buffer = "log" /\ textGoesOn)
    /\ WF_usbVars(buffer = "usb" /\ CallGoesOn)
    /\ SF_usbVars(buffer = "usb" /\ beginService)
    /\ SF_usbVars(buffer = "usb" /\ ServiceTakes)

ExchangeSpec == ExchangeInit /\ [][ExchangeNext]_exchangeVars /\ ExchangeFairness

-----------------------------------------------------------------------------
\* The types of the six. The topic has its own, which its proofs use.
BuffersTypeOK == BusTypeOK /\ SettingsTypeOK /\ OutputTypeOK /\ BlackboxTypeOK /\ UsbTypeOK

\* What a buffer refuses it counts, and what it takes stays whole and in order.
NothingIsLost ==
    /\ AcceptedIsDelivered /\ PublishedIsAccounted
    /\ LossIsCounted /\ BytesAreServed
    /\ RefusalsAreCounted /\ BytesInOrder

\* What the flight loop and the servos use is of one publication, or of two
\* neighbouring frames with the throttle in the lead; a reader that keeps the
\* writer from running copies from one publication only.
NothingIsMixed ==
    SettingsAreWhole /\ ThrottleLeads /\ PulsesStayInStep /\ PreemptingReadIsStable

\* What was put into a buffer comes out of it.
EverythingArrives ==
    /\ EventsArrive /\ SettingsArrive /\ LogDrains /\ UsbDrains
    /\ buffer = "servos" => FrameIsPlayed
=============================================================================
