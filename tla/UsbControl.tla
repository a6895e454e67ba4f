----------------------------- MODULE UsbControl -----------------------------
(***************************************************************************)
(* The device side of USB in LUFA as the panel MCU builds it: the state    *)
(* machine of the general interrupt (USB_GEN_vect) and the control         *)
(* requests, which INTERRUPT_CONTROL_ENDPOINT has processed in a second    *)
(* interrupt (USB_COM_vect), with interrupts enabled.                      *)
(*                                                                         *)
(* A request is thus served in steps that the general interrupt may        *)
(* preempt; a bus reset enables the control interrupt again, so that a     *)
(* request may be served on top of one that never ended.  `stack` holds    *)
(* the activations, the running one last.  The main program runs when the  *)
(* stack is empty; here it only enters and leaves the routines of the      *)
(* class driver, which UsbCdc models over the interface UsbSession.        *)
(***************************************************************************)
EXTENDS Naturals, Sequences

CONSTANTS
  Requests,     \* the requests the host makes
  DataEndpoints,  \* the endpoints but the control endpoint
  SetUps,       \* the data endpoints in the order a configuration sets them
                \* up in, those it moves in the memory for others included
  MaxAbandoned, \* bound: control transfers broken off
  MaxNest       \* bound: activations of the request handling, stacked

(***************************************************************************)
(* The requests, by the way they are served.  GetStatus stands for         *)
(* GetConfiguration too, Notice for the requests without data that change  *)
(* nothing kept here (SetControlLineState, SendBreak, the features),       *)
(* Unconfigure for SetConfiguration(0), Unknown for all that are refused.  *)
(* A descriptor is one packet.                                             *)
(***************************************************************************)
ReadRequests  == {"GetDescriptor", "GetStatus", "GetLineEncoding"}
PlainRequests == {"SetAddress", "SetConfiguration", "Unconfigure", "Notice"}
KnownRequests == ReadRequests \cup PlainRequests \cup {"SetLineEncoding"}
AllRequests   == KnownRequests \cup {"Unknown"}
NoRequest     == "none"

ASSUME ControlAssumption ==
  /\ Requests \subseteq AllRequests
  /\ "control" \notin DataEndpoints /\ DataEndpoints # {}
  /\ SetUps \in Seq(DataEndpoints)
  /\ \A e \in DataEndpoints : \E i \in 1 .. Len(SetUps) : SetUps[i] = e
  /\ MaxAbandoned \in Nat
  /\ MaxNest \in Nat /\ MaxNest >= 2

VARIABLES
  deviceState,    \* USB_DeviceState
  configuration,  \* USB_Device_ConfigurationNumber
  addressed,      \* ADDEN: the device address is in force
  lineEncoding,   \* LineEncoding.BaudRateBPS is not 0
  selected,       \* the endpoint the register accesses go to (UENUM)
  enabled,        \* the data endpoints that are set up
  ep0,            \* endpoint 0 is set up, and as the control endpoint
  awaits,         \* the interrupt enabled of "suspend" and "wakeup"
  rxstpi,         \* the SETUP interrupt is enabled
  setup,          \* a SETUP packet not cleared yet, or NoRequest
  inBusy,         \* the control endpoint's bank holds a packet for the host
  outFull,        \* ... or one from it
  request,        \* USB_ControlRequest
  stack,          \* activations of USB_Device_ProcessControlRequest
  routine,        \* the main program is in a routine of the class driver
  bus,            \* "off", "attached" (no reset yet), "active", "suspended"
  transfer,       \* what the host waits for in its control transfer
  abandoned       \* history: control transfers and requests broken off

States == {"Unattached", "Powered", "Default", "Addressed", "Configured",
           "Suspended"}

(* What the main program sees of all this. *)
LinkOf(state) == CASE state = "Configured" -> "configured"
                   [] state \in {"Unattached", "Suspended"} -> "gone"
                   [] OTHER -> "other"

Session == INSTANCE UsbSession
  WITH link      <- LinkOf(deviceState),
       enabled   <- enabled = DataEndpoints,
       selection <- IF stack = << >> THEN selected ELSE stack[1].back,
       inside    <- stack # << >>

Endpoints == Session!Endpoints

stateVars == <<deviceState, configuration, addressed, lineEncoding, enabled>>
irqVars   == <<awaits, rxstpi>>
epVars    == <<ep0, setup, inBusy, outFull>>
hostVars  == <<bus, transfer, abandoned>>
vars == <<stateVars, irqVars, epVars, hostVars, selected, request, stack, routine>>

(* USB_Init, up to the reset the host begins with. *)
Init ==
  /\ deviceState = "Unattached"
  /\ configuration = 0
  /\ addressed = FALSE /\ lineEncoding = FALSE /\ enabled = {}
  /\ selected = "control"
  /\ awaits = "suspend" /\ rxstpi = FALSE
  /\ ep0 = FALSE /\ setup = NoRequest /\ inBusy = FALSE /\ outFull = FALSE
  /\ request = NoRequest
  /\ stack = << >>
  /\ routine = FALSE
  /\ bus = "off" /\ transfer = "none" /\ abandoned = 0

(* A step that breaks a transfer off, if b. *)
BreakOff(b) == /\ b => abandoned < MaxAbandoned
               /\ abandoned' = IF b THEN abandoned + 1 ELSE abandoned

-----------------------------------------------------------------------------
(* The general interrupt. *)

(* VBUS comes; the PLL is started. *)
Attach ==
  /\ bus = "off"
  /\ bus' = "attached"
  /\ deviceState' = "Powered"
  /\ BreakOff(setup # NoRequest \/ stack # << >>)
  /\ UNCHANGED <<configuration, addressed, lineEncoding, enabled, irqVars,
                 epVars, transfer, selected, request, stack, routine>>

(* VBUS goes.  Configuration and endpoints stay as they are. *)
Detach ==
  /\ bus # "off"
  /\ bus' = "off"
  /\ deviceState' = "Unattached"
  /\ transfer' = "none"
  /\ UNCHANGED <<configuration, addressed, lineEncoding, enabled, irqVars,
                 epVars, abandoned, selected, request, stack, routine>>

(* The host stops the bus, between transfers. *)
Suspend ==
  /\ bus = "active" /\ transfer = "none"
  /\ awaits = "suspend"
  /\ bus' = "suspended"
  /\ awaits' = "wakeup"
  /\ deviceState' = "Suspended"
  /\ UNCHANGED <<configuration, addressed, lineEncoding, enabled, rxstpi,
                 epVars, transfer, abandoned, selected, request, stack, routine>>

Resume ==
  /\ bus = "suspended"
  /\ bus' = "active"
  /\ UNCHANGED <<stateVars, irqVars, epVars, transfer, abandoned, selected,
                 request, stack, routine>>

(* Any traffic wakes, that of a reset included. *)
WakeUp ==
  /\ bus \in {"attached", "active"}
  /\ awaits = "wakeup"
  /\ awaits' = "suspend"
  /\ deviceState' = IF configuration # 0 THEN "Configured"
                    ELSE IF addressed THEN "Addressed" ELSE "Powered"
  /\ UNCHANGED <<configuration, addressed, lineEncoding, enabled, rxstpi,
                 epVars, hostVars, selected, request, stack, routine>>

(* Mutant: the reset forgets the configuration's number. *)
NumberKept == UNCHANGED configuration

ClearNumber == configuration' = 0

(***************************************************************************)
(* The end of a bus reset.  The controller has disabled the data endpoints *)
(* and dropped the address; the interrupt sets the control endpoint up and *)
(* leaves it selected, whatever it preempted.                              *)
(***************************************************************************)
EndOfReset ==
  /\ bus # "off"
  /\ Len(stack) < MaxNest
  /\ bus' = "active"
  /\ deviceState' = "Default"
  /\ ClearNumber
  /\ addressed' = FALSE /\ enabled' = {}
  /\ awaits' = "wakeup" /\ rxstpi' = TRUE
  /\ ep0' = TRUE
  /\ setup' = NoRequest /\ inBusy' = FALSE /\ outFull' = FALSE
  /\ selected' = "control"
  /\ transfer' = "none"
  /\ BreakOff(transfer # "none" \/ stack # << >>)
  /\ UNCHANGED <<lineEncoding, request, stack, routine>>

-----------------------------------------------------------------------------
(* The control interrupt and the handling of a request. *)

(* An interrupt waits: no instruction of what it preempts is executed. *)
Pending == setup # NoRequest /\ rxstpi

(* Endpoint_IsSETUPReceived reads the flag of the selected endpoint. *)
SetupReceived == selected = "control" /\ setup # NoRequest

Activation(isr, back) ==
  [at |-> "header", after |-> "tail", isr |-> isr, back |-> back,
   done |-> 0]

Top      == stack[Len(stack)]
At(p)    == stack # << >> /\ Top.at = p
Goto(p)  == stack' = [stack EXCEPT ![Len(stack)].at = p]
Running(p) == At(p) /\ ~Pending

(* Mutant: the interrupt does not select the endpoint it is about. *)
SelectionLeft == UNCHANGED selected

SelectControl == selected' = "control"

(* Mutant: the interrupt stays enabled in itself. *)
RequestsLeftOn == UNCHANGED rxstpi

RequestsOff == rxstpi' = FALSE

(* The entry of USB_COM_vect. *)
ComInterrupt ==
  /\ Pending
  /\ stack' = Append(stack, Activation(TRUE, selected))
  /\ SelectControl
  /\ RequestsOff
  /\ UNCHANGED <<stateVars, awaits, epVars, hostVars, request, routine>>

(* The eight bytes of the request.  Without a SETUP they mean nothing. *)
ReadHeader ==
  /\ Running("header")
  /\ request' = IF setup # NoRequest THEN setup ELSE "Unknown"
  /\ Goto("test")
  /\ UNCHANGED <<stateVars, irqVars, epVars, hostVars, selected, routine>>

(***************************************************************************)
(* The tests of the SETUP flag may read it just before the interrupt it    *)
(* raises is taken.                                                        *)
(***************************************************************************)
TestSetup ==
  /\ At("test")
  /\ Goto(IF SetupReceived THEN "begin" ELSE "tail")
  /\ UNCHANGED <<stateVars, irqVars, epVars, hostVars, selected, request, routine>>

(* What a handler does after its status stage. *)
AfterStatus(r) == CASE r = "SetAddress" -> "address"
                    [] r \in {"SetConfiguration", "Unconfigure"} -> "state"
                    [] OTHER -> "tail"

(* Serve what USB_ControlRequest says now, which an interrupt may have set. *)
Begin(r, p) ==
  /\ Running("begin")
  /\ request = r
  /\ stack' = [stack EXCEPT ![Len(stack)].at = p,
                            ![Len(stack)].after = AfterStatus(r)]
  /\ setup' = NoRequest
  /\ UNCHANGED <<deviceState, addressed, lineEncoding, enabled, irqVars,
                 ep0, outFull, hostVars, selected, request, routine>>

BeginPlain ==
  \E r \in PlainRequests :
    /\ Begin(r, "statusIn")
    /\ configuration' = CASE r = "SetConfiguration" -> 1
                          [] r = "Unconfigure"      -> 0
                          [] OTHER                  -> configuration
    /\ UNCHANGED inBusy

BeginSetLine ==
  /\ Begin("SetLineEncoding", "data")
  /\ UNCHANGED <<configuration, inBusy>>

BeginDescriptor ==
  /\ Begin("GetDescriptor", "stream")
  /\ UNCHANGED <<configuration, inBusy>>

BeginGetLine ==
  /\ Begin("GetLineEncoding", "answer")
  /\ UNCHANGED <<configuration, inBusy>>

(* The answer goes into the bank without a wait for it. *)
BeginGetStatus ==
  /\ Begin("GetStatus", "statusOut")
  /\ inBusy' = TRUE
  /\ UNCHANGED configuration

BeginUnknown ==
  /\ Running("begin")
  /\ request \notin KnownRequests
  /\ Goto("tail")
  /\ UNCHANGED <<stateVars, irqVars, epVars, hostVars, selected, request, routine>>

(* Mutant: the status stage goes the way the data went. *)
StatusReversed(r) == IF r \in ReadRequests THEN "statusIn" ELSE "statusOut"

(* Endpoint_ClearStatusStage goes by the request that is current by then. *)
StatusOf(r) == IF r \in ReadRequests THEN "statusOut" ELSE "statusIn"

(* The seven bytes of the line encoding; the host sends a rate. *)
ReadLineEncoding ==
  /\ Running("data")
  /\ \/ /\ outFull
        /\ lineEncoding' = TRUE
        /\ outFull' = FALSE
        /\ Goto(StatusOf(request))
     \/ /\ ~outFull /\ deviceState = "Unattached"
        /\ Goto("tail")
        /\ UNCHANGED <<lineEncoding, outFull>>
  /\ UNCHANGED <<deviceState, configuration, addressed, enabled, irqVars,
                 ep0, setup, inBusy, hostVars, selected, request, routine>>

(* This wait knows no end but a free bank. *)
WriteLineEncoding ==
  /\ Running("answer") /\ ~inBusy
  /\ inBusy' = TRUE
  /\ Goto(StatusOf(request))
  /\ UNCHANGED <<stateVars, irqVars, ep0, setup, outFull, hostVars, selected,
                 request, routine>>

(* Endpoint_Write_Control_PStream, and the ClearOUT after it. *)
StreamEnds ==
  \/ deviceState \in {"Unattached", "Suspended"}
  \/ At("stream") /\ SetupReceived
  \/ outFull

StreamDescriptor ==
  /\ Running("stream")
  /\ ~StreamEnds /\ ~inBusy
  /\ inBusy' = TRUE
  /\ Goto("streamed")
  /\ UNCHANGED <<stateVars, irqVars, ep0, setup, outFull, hostVars, selected,
                 request, routine>>

StreamDone ==
  /\ Running("stream") \/ Running("streamed")
  /\ StreamEnds
  /\ outFull' = FALSE
  /\ Goto("tail")
  /\ UNCHANGED <<stateVars, irqVars, ep0, setup, inBusy, hostVars, selected,
                 request, routine>>

(* Mutant: the status stage is awaited on a detached bus too. *)
StatusEndsNever == FALSE

StatusEnds == deviceState = "Unattached"

StatusIn ==
  /\ Running("statusIn")
  /\ \/ ~inBusy /\ inBusy' = TRUE
     \/ inBusy /\ StatusEnds /\ UNCHANGED inBusy
  /\ Goto(Top.after)
  /\ UNCHANGED <<stateVars, irqVars, ep0, setup, outFull, hostVars, selected,
                 request, routine>>

StatusOut ==
  /\ Running("statusOut")
  /\ \/ outFull /\ outFull' = FALSE
     \/ ~outFull /\ StatusEnds /\ UNCHANGED outFull
  /\ Goto(Top.after)
  /\ UNCHANGED <<stateVars, irqVars, ep0, setup, inBusy, hostVars, selected,
                 request, routine>>

(* USB_Device_SetAddress once the host has its answer: no detach ends this. *)
EnableAddress ==
  /\ Running("address") /\ ~inBusy
  /\ addressed' = TRUE
  /\ deviceState' = "Addressed"
  /\ Goto("tail")
  /\ UNCHANGED <<configuration, lineEncoding, enabled, irqVars, epVars,
                 hostVars, selected, request, routine>>

(* The end of USB_Device_SetConfiguration, and its event. *)
ConfigurationState ==
  /\ Running("state")
  /\ deviceState' = IF configuration # 0 \/ addressed THEN "Configured"
                                                      ELSE "Powered"
  /\ Goto("endpoints")
  /\ UNCHANGED <<configuration, addressed, lineEncoding, enabled, irqVars,
                 epVars, hostVars, selected, request, routine>>

(***************************************************************************)
(* CDC_Device_ConfigureEndpoints, with interrupts on.  It selects one      *)
(* endpoint after the other and writes its registers; `done` counts those  *)
(* of SetUps that are behind it.                                           *)
(***************************************************************************)
BeginEndpoints ==
  /\ Running("endpoints")
  /\ lineEncoding' = FALSE
  /\ stack' = [stack EXCEPT ![Len(stack)].at = "select",
                            ![Len(stack)].done = 0]
  /\ UNCHANGED <<deviceState, configuration, addressed, enabled, irqVars, epVars,
                 hostVars, selected, request, routine>>

SetUpsLeft == Running("select") /\ Top.done < Len(SetUps)
NextSetUp  == SetUps[Top.done + 1]

Advance == stack' = [stack EXCEPT ![Len(stack)].at = "select",
                                  ![Len(stack)].done = @ + 1]

(* What is set up anew is disabled first. *)
SelectEndpoint ==
  /\ SetUpsLeft
  /\ selected' = NextSetUp
  /\ enabled' = enabled \ {NextSetUp}
  /\ Goto("write")
  /\ UNCHANGED <<deviceState, configuration, addressed, lineEncoding, irqVars,
                 epVars, hostVars, request, routine>>

(* An endpoint that has no memory yet is not moved; its turn comes. *)
SkipEndpoint ==
  /\ SetUpsLeft
  /\ NextSetUp \notin enabled
  /\ \E i \in Top.done + 2 .. Len(SetUps) : SetUps[i] = NextSetUp
  /\ selected' = NextSetUp
  /\ Advance
  /\ UNCHANGED <<stateVars, irqVars, epVars, hostVars, request, routine>>

WriteEndpoint ==
  /\ Running("write") /\ selected # "control"
  /\ enabled' = enabled \cup {selected}
  /\ Advance
  /\ UNCHANGED <<deviceState, configuration, addressed, lineEncoding, irqVars,
                 epVars, hostVars, selected, request, routine>>

(***************************************************************************)
(* A reset fell in after the selection: what is left of the writes goes to *)
(* endpoint 0, which may lose its type, its packets and its interrupt, and *)
(* whose state decides whether the routine goes on.                        *)
(***************************************************************************)
WriteStray ==
  /\ Running("write") /\ selected = "control"
  /\ ep0' \in {ep0, FALSE}
  /\ rxstpi' \in {rxstpi, FALSE}
  /\ setup' \in {setup, NoRequest}
  /\ inBusy' \in {inBusy, FALSE} /\ outFull' \in {outFull, FALSE}
  /\ Advance \/ Goto("tail")
  /\ UNCHANGED <<stateVars, awaits, hostVars, selected, request, routine>>

(* The endpoint set up last is left selected. *)
EndpointsDone ==
  /\ Running("select") /\ Top.done = Len(SetUps)
  /\ selected' \in DataEndpoints
  /\ Goto("tail")
  /\ UNCHANGED <<stateVars, irqVars, epVars, hostVars, request, routine>>

ConfigureEndpoints ==
  \/ BeginEndpoints \/ SelectEndpoint \/ SkipEndpoint
  \/ WriteEndpoint \/ WriteStray \/ EndpointsDone

(* Mutant: the interrupt leaves the control endpoint selected. *)
RestoredNot == "control"

Restored == Top.back

Return ==
  /\ selected' = Restored
  /\ stack' = SubSeq(stack, 1, Len(stack) - 1)
  /\ rxstpi' = (rxstpi \/ Top.isr)

(* A SETUP that is still there is refused; the activation ends. *)
Leave ==
  /\ Running("tail")
  /\ ~SetupReceived
  /\ Return
  /\ UNCHANGED <<stateVars, awaits, epVars, hostVars, request, routine>>

Refuse ==
  /\ Running("tail")
  /\ SetupReceived
  /\ setup' = NoRequest
  /\ transfer' = "none"
  /\ Return
  /\ UNCHANGED <<stateVars, awaits, ep0, inBusy, outFull, bus, abandoned,
                 request, routine>>

-----------------------------------------------------------------------------
(* The main program, between two interrupts. *)
MainRuns == stack = << >> /\ ~Pending

(* A routine of the class driver finds the link ready and selects its     *)
(* endpoint, when the link may not be ready any more.                      *)
MainSelect ==
  /\ ~routine /\ MainRuns
  /\ selected' \in DataEndpoints
  /\ routine' = TRUE
  /\ UNCHANGED <<stateVars, irqVars, epVars, hostVars, request, stack>>

(* The end of a routine, also of one that gives up a wait. *)
MainLeave ==
  /\ routine /\ MainRuns
  /\ routine' = FALSE
  /\ UNCHANGED <<stateVars, irqVars, epVars, hostVars, selected, request, stack>>

(* A routine a reset fell into goes on, on the control endpoint. *)
Stray == routine /\ stack = << >> /\ selected = "control"

MainStray ==
  /\ Stray /\ ~Pending
  /\ \/ inBusy' = TRUE /\ UNCHANGED outFull
     \/ outFull' = FALSE /\ UNCHANGED inBusy
  /\ UNCHANGED <<stateVars, irqVars, ep0, setup, hostVars, selected, request, stack,
                 routine>>

(***************************************************************************)
(* USB_DeviceTask.  It may read the flag of a SETUP just before the        *)
(* interrupt that the SETUP raises is taken.                               *)
(***************************************************************************)
DeviceTask ==
  /\ ~routine /\ stack = << >>
  /\ deviceState # "Unattached" /\ setup # NoRequest
  /\ stack' = Append(stack, Activation(FALSE, selected))
  /\ SelectControl
  /\ UNCHANGED <<stateVars, irqVars, epVars, hostVars, request, routine>>

Handler ==
  \/ ComInterrupt \/ ReadHeader \/ TestSetup
  \/ BeginPlain \/ BeginSetLine \/ BeginDescriptor \/ BeginGetLine
  \/ BeginGetStatus \/ BeginUnknown
  \/ ReadLineEncoding \/ WriteLineEncoding \/ StreamDescriptor \/ StreamDone
  \/ StatusIn \/ StatusOut \/ EnableAddress \/ ConfigurationState
  \/ Leave \/ Refuse

-----------------------------------------------------------------------------
(* The host and the controller: control transfers. *)

(* The stage after the SETUP. *)
FirstStage(r) == IF r \in ReadRequests THEN "in"
                 ELSE IF r = "SetLineEncoding" THEN "out" ELSE "statusIn"

(* A SETUP is always taken, one that breaks a transfer off included; what  *)
(* the bank held for the host may be gone then.                            *)
HostSetup ==
  /\ bus = "active" /\ ep0
  /\ \E r \in Requests :
       /\ setup' = r
       /\ transfer' = FirstStage(r)
  /\ inBusy' \in {inBusy, inBusy /\ transfer = "none"}
  /\ BreakOff(transfer # "none")
  /\ UNCHANGED <<stateVars, irqVars, ep0, outFull, bus, selected, request,
                 stack, routine>>

HostTakesIn ==
  /\ bus = "active" /\ ep0 /\ setup = NoRequest
  /\ inBusy
  /\ transfer \in {"in", "statusIn"}
  /\ inBusy' = FALSE
  /\ transfer' = IF transfer = "in" THEN "statusOut" ELSE "none"
  /\ UNCHANGED <<stateVars, irqVars, ep0, setup, outFull, bus, abandoned, selected,
                 request, stack, routine>>

HostSendsOut ==
  /\ bus = "active" /\ ep0 /\ setup = NoRequest
  /\ ~outFull
  /\ transfer \in {"out", "statusOut"}
  /\ outFull' = TRUE
  /\ transfer' = IF transfer = "out" THEN "statusIn" ELSE "none"
  /\ UNCHANGED <<stateVars, irqVars, ep0, setup, inBusy, bus, abandoned, selected,
                 request, stack, routine>>

(* What a host does with a transfer it does not give up. *)
HostProceeds == HostTakesIn \/ HostSendsOut
Cable == Attach \/ Detach

-----------------------------------------------------------------------------
MainStep == MainSelect \/ MainLeave \/ MainStray \/ DeviceTask

Next ==
  \/ Cable \/ Suspend \/ Resume \/ WakeUp \/ EndOfReset
  \/ Handler \/ ConfigureEndpoints
  \/ MainStep
  \/ HostSetup \/ HostProceeds

Spec == Init /\ [][Next]_vars

(***************************************************************************)
(* The processor goes on with what it is in, as long as nothing preempts   *)
(* it; a host resets a device it has found, and goes on with a transfer as *)
(* long as it has not given it up.                                         *)
(***************************************************************************)
FairSpec ==
  /\ Spec
  /\ WF_vars(Handler \/ ConfigureEndpoints)
  /\ WF_vars(WakeUp)
  /\ WF_vars(bus = "attached" /\ EndOfReset)
  /\ WF_vars(HostProceeds)

-----------------------------------------------------------------------------
(* Every variable has its type. *)
Places == {"header", "test", "begin", "data", "answer", "stream", "streamed",
           "statusIn", "statusOut", "address", "state", "endpoints", "select",
           "write", "tail"}

Activations ==
  {f \in [at : Places, after : {"address", "state", "tail"}, isr : BOOLEAN,
          back : Endpoints, done : 0 .. Len(SetUps)] :
     f.at = "write" => f.done < Len(SetUps)}

TypeOK ==
  /\ deviceState \in States /\ configuration \in {0, 1}
  /\ addressed \in BOOLEAN /\ lineEncoding \in BOOLEAN
  /\ enabled \subseteq DataEndpoints
  /\ selected \in Endpoints
  /\ awaits \in {"suspend", "wakeup"} /\ rxstpi \in BOOLEAN
  /\ ep0 \in BOOLEAN /\ setup \in Requests \cup {NoRequest}
  /\ inBusy \in BOOLEAN /\ outFull \in BOOLEAN
  /\ request \in AllRequests \cup {NoRequest}
  /\ stack \in Seq(Activations)
  /\ Len(stack) <= MaxNest
  /\ routine \in BOOLEAN
  /\ bus \in {"off", "attached", "active", "suspended"}
  /\ transfer \in {"none", "in", "out", "statusIn", "statusOut"}
  /\ abandoned \in 0 .. MaxAbandoned

(***************************************************************************)
(* A request handler that waits for a flag waits for the control           *)
(* endpoint's, however deep it lies under resets and later requests.       *)
(***************************************************************************)
Elsewhere == {"select", "write", "tail"}

HandlerOnControl ==
  stack # << >> /\ Top.at \notin Elsewhere => selected = "control"

(***************************************************************************)
(* Whenever the main program sees the device configured, its data          *)
(* endpoints are set up, although a reset takes them away at any step of a *)
(* request and the request then goes on.                                   *)
(***************************************************************************)
ConfiguredReady ==
  deviceState = "Configured" /\ stack = << >> => enabled = DataEndpoints

(***************************************************************************)
(* To the main program, all this is the session UsbSession promises: a     *)
(* request leaves its endpoint selection alone, whatever it preempts, and  *)
(* shows it a configured device only with its endpoints set up.            *)
(***************************************************************************)
ImplementsSession == Session!SessionSpec

(***************************************************************************)
(* As long as the host finishes its control transfers, no reset falls into *)
(* a routine of the class driver and the main program never serves a       *)
(* request itself, every control interrupt ends: none of the waits of the  *)
(* handlers is without end, whether the bus is suspended or detached.      *)
(* Excepted are two waits no detach ends (SetAddress, GetLineEncoding) and *)
(* a handler that writes the device state just after a detach.             *)
(***************************************************************************)
Interrupted  == \E i \in 1 .. Len(stack) : stack[i].isr
ServedByMain == \E i \in 1 .. Len(stack) :
                  ~stack[i].isr /\ stack[i].at \notin {"header", "test", "tail"}
Unplugged    == bus = "off" /\ \/ At("address") \/ At("answer")
                               \/ deviceState # "Unattached"
Undisturbed  == abandoned = 0 /\ ~Stray /\ ~ServedByMain /\ ~Unplugged
InterruptsEnd == []Undisturbed => []<>~Interrupted

(***************************************************************************)
(* Under the same conditions no handler waits for a host that waits for    *)
(* it: where a stage of its request keeps the running handler, for a       *)
(* packet from the host or for the bank to be free, the host has the       *)
(* packet to send or to take.  The device chooses its stages by the        *)
(* request it has read (Endpoint_AVR8.c:131), the host by its own.         *)
(***************************************************************************)
Waits ==
  \/ At("data") /\ ~outFull /\ deviceState # "Unattached"
  \/ At("answer") /\ inBusy
  \/ At("stream") /\ ~StreamEnds /\ inBusy
  \/ At("streamed") /\ ~StreamEnds
  \/ At("statusIn") /\ inBusy /\ ~StatusEnds
  \/ At("statusOut") /\ ~outFull /\ ~StatusEnds
  \/ At("address") /\ inBusy

HostMoves ==
  /\ bus = "active" /\ ep0 /\ setup = NoRequest
  /\ \/ inBusy /\ transfer \in {"in", "statusIn"}
     \/ ~outFull /\ transfer \in {"out", "statusOut"}

NoMutualWait == []Undisturbed => [](Waits => HostMoves)
=============================================================================
