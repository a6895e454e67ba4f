-------------------------- MODULE UsbServedProofs --------------------------
(***************************************************************************)
(* That device and host never wait for each other in a control transfer    *)
(* of UsbControl, for every set of requests and endpoints and any depth of *)
(* nesting: the place of the handler and the stage of the host agree.      *)
(***************************************************************************)
EXTENDS UsbControlProofs

(* The place of the running handler in its request; as good as at its end  *)
(* when the control interrupt is not running.                              *)
Place == IF stack # << >> /\ Top.isr THEN Top.at ELSE "tail"

(* The stages of a transfer, as the host and the control endpoint see it.  *)
Stage(t) == setup = NoRequest /\ transfer = t
Quiet    == ~inBusy /\ ~outFull
Fresh    == setup # NoRequest /\ transfer = FirstStage(setup) /\ Quiet

(* Between two transfers; the next may have begun already. *)
Between == \/ Stage("none")
           \/ setup # NoRequest /\ transfer = FirstStage(setup)

(* A handler has answered and waits for the host's status stage. *)
Fetching == ~outFull /\ (IF inBusy THEN Stage("in") ELSE Stage("statusOut"))
Fetched  == ~inBusy /\ outFull /\ Between

(* A request is done when the host has its status, or will take it. *)
Done == ~outFull /\ (IF inBusy THEN Stage("statusIn") ELSE Between)

(* The host waits for an answer, which a suspended bus may have cost it.   *)
Unanswered == Stage("in") /\ Quiet

Exchange(p) ==
  /\ p = "header" => Fresh
  /\ p \in {"test", "begin"} => Fresh /\ request = setup
  /\ p = "data" => /\ request = "SetLineEncoding" /\ ~inBusy
                   /\ IF outFull THEN Stage("statusIn") ELSE Stage("out")
  /\ p = "answer" => Unanswered /\ request = "GetLineEncoding"
  /\ p = "stream" => Unanswered
  /\ p = "streamed" => Fetched \/ (Fetching /\ deviceState # "Suspended")
  /\ p = "statusOut" => Fetched \/ Fetching
  /\ p = "statusIn" => Stage("statusIn") /\ Quiet
  /\ p \in {"address", "state", "endpoints", "select", "write"} => Done
  /\ p = "tail" => Done \/ Unanswered

Serving == bus \in {"active", "suspended"}

(* The control interrupt does not nest, and lies on top. *)
NestInv == \A i \in 1 .. Len(stack) : stack[i].isr => i = Len(stack) /\ ~rxstpi

(* Transfers need an active bus.  Before the first reset nothing is asked; *)
(* after it endpoint 0 stays the control endpoint, ...                     *)
BusInv == /\ Serving => ep0
          /\ transfer # "none" => bus = "active"
          /\ bus # "off" => deviceState # "Unattached"
          /\ bus = "attached" => stack = << >> /\ setup = NoRequest

(* ... because a configuration writes to the endpoints it has selected.    *)
SelectedInv == At("write") => selected # "control"

ExchangeInv == Serving => Exchange(Place)

ServedInv == NestInv /\ BusInv /\ SelectedInv /\ ExchangeInv

-----------------------------------------------------------------------------
(* The place, as a step changes it. *)

(* The main program's activations are not let into a request. *)
LEMMA MainPlaces ==
  ASSUME TypeOK, Undisturbed, stack # << >>, ~Top.isr
  PROVE  Top.at \in {"header", "test", "tail"} /\ Place = "tail"
<1>1. Len(stack) \in 1 .. Len(stack)
  BY TopType DEF TypeOK
<1>2. QED BY <1>1 DEF Undisturbed, ServedByMain, Top, Place

LEMMA PlaceMove ==
  ASSUME TypeOK, NestInv, rxstpi' => rxstpi, stack # << >>,
         NEW f \in Activations, f.isr = Top.isr,
         stack' = [stack EXCEPT ![Len(stack)] = f]
  PROVE  /\ stack' # << >> /\ Place' = IF Top.isr THEN f.at ELSE "tail"
         /\ NestInv'
<1>1. stack \in Seq(Activations)
  BY DEF TypeOK
<1>3. PICK n \in Nat \ {0} : n = Len(stack)
  BY <1>1, TopType
<1>4. /\ Len(stack') = n /\ stack' # << >> /\ stack'[n] = f
      /\ \A i \in 1 .. n - 1 : stack'[i] = stack[i]
  BY <1>1, <1>3, Replaced
<1>5. Place' = IF Top.isr THEN f.at ELSE "tail"
  BY <1>4 DEF Place, Top
<1>6. NestInv'
  <2> SUFFICES ASSUME NEW i \in 1 .. n, stack'[i].isr PROVE i = n /\ ~rxstpi
    BY <1>4 DEF NestInv
  <2>1. CASE i = n
    BY <1>3, <1>4, <2>1 DEF NestInv, Top
  <2>2. CASE i # n
    BY <1>3, <1>4, <2>2 DEF NestInv
  <2>3. QED BY <2>1, <2>2
<1>7. QED BY <1>4, <1>5, <1>6

LEMMA PlaceGoto ==
  ASSUME TypeOK, NestInv, UNCHANGED rxstpi, stack # << >>,
         NEW p \in Places \ {"write"},
         \/ Goto(p)
         \/ \E r : Begin(r, p)
  PROVE  /\ stack' # << >> /\ Place' = IF Top.isr THEN p ELSE "tail"
         /\ NestInv'
<1>1. stack \in Seq(Activations)
  BY DEF TypeOK
<1>2. PICK f \in Activations :
        /\ stack' = [stack EXCEPT ![Len(stack)] = f]
        /\ f.at = p /\ f.isr = Top.isr
  BY <1>1, GotoMove, BeginMove
<1>3. QED BY <1>2, PlaceMove

(* The steps of a configuration, by the place they lead to. *)
LEMMA EndpointPlace ==
  ASSUME stack \in Seq(Activations), ConfigureEndpoints
  PROVE  \E f \in Activations :
           /\ stack' = [stack EXCEPT ![Len(stack)] = f] /\ f.isr = Top.isr
           /\ f.at \in Elsewhere
           /\ f.at = "write" => selected' \in DataEndpoints
<1>1. CASE BeginEndpoints
  BY <1>1, StartMove DEF Elsewhere
<1>2. CASE SelectEndpoint
  <2>1. /\ Goto("write") /\ Top.done < Len(SetUps) /\ stack # << >>
        /\ selected' \in DataEndpoints
    BY <1>2, EndpointsLeft DEF SelectEndpoint
  <2>2. QED BY <2>1, GotoMove DEF Places, Elsewhere
<1>3. CASE SkipEndpoint \/ WriteEndpoint \/ WriteStray
  <2>1. Top.done < Len(SetUps) /\ stack # << >>
    BY <1>3, EndpointsLeft
  <2>2. CASE Advance
    BY <2>1, <2>2, AdvanceMove DEF Elsewhere
  <2>3. CASE Goto("tail")
    BY <2>1, <2>3, GotoMove DEF Places, Elsewhere
  <2>4. QED BY <1>3, <2>2, <2>3 DEF SkipEndpoint, WriteEndpoint, WriteStray
<1>4. CASE EndpointsDone
  BY <1>4, GotoMove DEF EndpointsDone, Running, At, Places, Elsewhere
<1>5. QED BY <1>1, <1>2, <1>3, <1>4 DEF ConfigureEndpoints

LEMMA PlacePush ==
  ASSUME TypeOK, NestInv, NEW isr \in BOOLEAN,
         stack' = Append(stack, Activation(isr, selected)),
         isr => rxstpi /\ ~rxstpi',
         ~isr => stack = << >> /\ rxstpi' = rxstpi
  PROVE  Place' = (IF isr THEN "header" ELSE "tail") /\ NestInv'
<1> DEFINE f == Activation(isr, selected)
<1>1. stack \in Seq(Activations) /\ f \in Activations
  BY ActivationType DEF TypeOK
<1>2. f.isr = isr /\ f.at = "header"
  BY DEF Activation
<1>3. PICK n \in Nat : n = Len(stack)
  BY <1>1
<1>4. stack' = Append(stack, f)
  OBVIOUS
<1> HIDE DEF f
<1>5. /\ Len(stack') = n + 1 /\ stack' # << >> /\ stack'[n + 1] = f
      /\ \A i \in 1 .. n : stack'[i] = stack[i]
  BY <1>1, <1>3, <1>4, Pushed
<1>6. Place' = IF isr THEN "header" ELSE "tail"
  BY <1>2, <1>5 DEF Place, Top
<1>7. NestInv'
  <2> SUFFICES ASSUME NEW i \in 1 .. n + 1, stack'[i].isr
               PROVE  i = n + 1 /\ ~rxstpi'
    BY <1>5 DEF NestInv
  <2>1. CASE i = n + 1
    BY <1>2, <1>5, <2>1
  <2>2. CASE i \in 1 .. n
    <3>1. stack[i].isr /\ ~rxstpi
      BY <1>3, <1>5, <2>2 DEF NestInv
    <3>2. n # 0
      BY <2>2
    <3>3. QED BY <1>3, <3>1, <3>2
  <2>3. QED BY <2>1, <2>2
<1>8. QED BY <1>6, <1>7

LEMMA PlacePop ==
  ASSUME TypeOK, NestInv, stack # << >>, Return
  PROVE  Place' = "tail" /\ NestInv'
<1>1. stack \in Seq(Activations)
  BY DEF TypeOK
<1>2. PICK n \in Nat \ {0} : n = Len(stack)
  BY <1>1, TopType
<1>3. /\ Len(stack') = n - 1 /\ (stack' = << >> <=> n = 1)
      /\ \A i \in 1 .. n - 1 : stack'[i] = stack[i]
  BY <1>1, <1>2, Popped DEF Return
<1>4. \A i \in 1 .. n - 1 : ~stack'[i].isr
  BY <1>2, <1>3 DEF NestInv
<1>5. stack' # << >> => n - 1 \in 1 .. n - 1
  BY <1>3
<1>6. Place' = "tail"
  BY <1>3, <1>4, <1>5 DEF Place, Top
<1>7. NestInv'
  BY <1>3, <1>4 DEF NestInv
<1>8. QED BY <1>6, <1>7

-----------------------------------------------------------------------------
(* Undisturbed steps. *)
LEMMA NotBroken ==
  ASSUME Undisturbed, Undisturbed', NEW b, BreakOff(b)
  PROVE  ~b
BY DEF Undisturbed, BreakOff

LEMMA BusStep ==
  ASSUME BusInv, SelectedInv, Undisturbed, Undisturbed', [Next]_vars
  PROVE  BusInv'
<1> USE DEF Serving
<1>1. CASE Attach
  <2>1. setup = NoRequest /\ stack = << >> /\ transfer = "none"
    BY <1>1, NotBroken DEF Attach, BusInv
  <2>2. QED BY <1>1, <2>1 DEF Attach, BusInv, epVars
<1>2. CASE Detach \/ Suspend \/ Resume \/ WakeUp \/ EndOfReset
  BY <1>2 DEF Detach, Suspend, Resume, WakeUp, EndOfReset, BusInv, epVars, hostVars,
     stateVars
<1>3. CASE ComInterrupt \/ DeviceTask
  BY <1>3 DEF ComInterrupt, Pending, DeviceTask, BusInv, epVars, hostVars,
     stateVars
<1>4. CASE \/ ReadHeader \/ TestSetup \/ BeginUnknown
  BY <1>4 DEF ReadHeader, TestSetup, BeginUnknown, Running, At, BusInv, epVars,
     hostVars, stateVars
<1>5. CASE \/ BeginPlain \/ BeginSetLine \/ BeginDescriptor \/ BeginGetLine
           \/ BeginGetStatus
  <2>1. PICK r, p : Begin(r, p)
    BY <1>5 DEF BeginPlain, BeginSetLine, BeginDescriptor, BeginGetLine,
       BeginGetStatus
  <2>2. QED BY <2>1 DEF Begin, Running, At, BusInv, hostVars
<1>6. CASE \/ ReadLineEncoding \/ WriteLineEncoding \/ StreamDescriptor
           \/ StreamDone \/ StatusIn \/ StatusOut
  BY <1>6 DEF ReadLineEncoding, WriteLineEncoding, StreamDescriptor, StreamDone,
     StatusIn, StatusOut, Running, At, BusInv, hostVars, stateVars
<1>7. CASE EnableAddress \/ ConfigurationState
  BY <1>7 DEF EnableAddress, ConfigurationState, Running, At, BusInv, hostVars,
     epVars
<1>13. CASE BeginEndpoints \/ SelectEndpoint \/ SkipEndpoint \/ WriteEndpoint
            \/ EndpointsDone
  BY <1>13 DEF BeginEndpoints, SelectEndpoint, SkipEndpoint, SetUpsLeft,
     WriteEndpoint, EndpointsDone, Running, At, BusInv, hostVars, epVars, stateVars
<1>14. CASE WriteStray
  BY <1>14 DEF WriteStray, Running, SelectedInv
<1>8. CASE Leave \/ Refuse
  BY <1>8 DEF Leave, Refuse, Running, At, BusInv, hostVars, epVars, stateVars
<1>9. CASE MainSelect \/ MainLeave \/ MainStray
  BY <1>9 DEF MainSelect, MainLeave, MainStray, BusInv, hostVars, epVars, stateVars
<1>10. CASE HostSetup \/ HostTakesIn \/ HostSendsOut
  BY <1>10 DEF HostSetup, HostTakesIn, HostSendsOut, BusInv, stateVars
<1>11. CASE UNCHANGED vars
  BY <1>11 DEF vars, BusInv, hostVars, epVars, stateVars
<1>12. QED
  BY <1>1, <1>2, <1>3, <1>4, <1>5, <1>6, <1>7, <1>8, <1>9, <1>10, <1>11,
     <1>13, <1>14, Actions

(* A handler in a request is the control interrupt's. *)
LEMMA InRequest ==
  ASSUME TypeOK, Undisturbed, NEW p, At(p)
  PROVE  /\ stack # << >> /\ Top.at = p
         /\ Place = (IF Top.isr THEN p ELSE "tail")
         /\ p \notin {"header", "test", "tail"} => Top.isr
BY MainPlaces DEF At, Place

-----------------------------------------------------------------------------
(* What each action makes of the exchange. *)

(* A step that leaves the transfer and the handler alone. *)
LEMMA ExchangeKept ==
  ASSUME Exchange(Place), Place' = Place,
         UNCHANGED <<setup, inBusy, outFull, transfer>>,
         Place = "tail" \/ request' = request,
         deviceState' = "Suspended" => transfer = "none" \/ deviceState' = deviceState
  PROVE  Exchange(Place)'
<1> DEFINE p == Place
<1>1. /\ Fresh' = Fresh /\ Quiet' = Quiet /\ Done' = Done /\ Fetched' = Fetched
      /\ Fetching' = Fetching /\ Unanswered' = Unanswered
      /\ \A t : Stage(t)' = Stage(t)
  BY DEF Fresh, Quiet, Done, Fetched, Fetching, Unanswered, Between, Stage,
     FirstStage
<1>2. Fetching => transfer # "none"
  BY DEF Fetching, Stage
<1>3. QED BY <1>1, <1>2 DEF Exchange

LEMMA InterruptExchange ==
  ASSUME TypeOK, NestInv, Exchange(Place), Undisturbed, ComInterrupt
  PROVE  Exchange(Place)'
<1>1. /\ stack' = Append(stack, Activation(TRUE, selected))
      /\ rxstpi /\ ~rxstpi' /\ setup # NoRequest
      /\ UNCHANGED <<setup, inBusy, outFull, transfer, request>>
  BY DEF ComInterrupt, RequestsOff, Pending, epVars, hostVars
<1>2. Place' = "header"
  BY <1>1, PlacePush
<1>3. Place = "tail"
  <2>1. stack # << >> => Len(stack) \in 1 .. Len(stack)
    BY TopType DEF TypeOK
  <2>2. QED BY <1>1, <2>1 DEF NestInv, Place, Top
<1>4. Fresh
  BY <1>1, <1>3 DEF Exchange, Done, Unanswered, Between, Stage, Fresh, Quiet
<1>5. Fresh'
  BY <1>1, <1>4 DEF Fresh, Quiet, FirstStage
<1>6. QED BY <1>2, <1>5 DEF Exchange

LEMMA TaskExchange ==
  ASSUME TypeOK, NestInv, Exchange(Place), DeviceTask
  PROVE  Exchange(Place)'
<1>1. /\ stack' = Append(stack, Activation(FALSE, selected)) /\ stack = << >>
      /\ UNCHANGED <<setup, inBusy, outFull, transfer, request, rxstpi, deviceState>>
  BY DEF DeviceTask, epVars, hostVars, irqVars, stateVars
<1>2. Place' = "tail"
  BY <1>1, PlacePush
<1>3. Place = "tail"
  BY <1>1 DEF Place
<1>4. QED BY <1>1, <1>2, <1>3, ExchangeKept

LEMMA HeaderExchange ==
  ASSUME TypeOK, NestInv, Exchange(Place), Undisturbed, ReadHeader
  PROVE  Exchange(Place)'
<1>1. /\ At("header") /\ Goto("test")
      /\ request' = IF setup # NoRequest THEN setup ELSE "Unknown"
      /\ UNCHANGED <<setup, inBusy, outFull, transfer, rxstpi, deviceState>>
  BY DEF ReadHeader, Running, epVars, hostVars, irqVars, stateVars
<1>2. /\ stack # << >> /\ Place = (IF Top.isr THEN "header" ELSE "tail")
      /\ Place' = (IF Top.isr THEN "test" ELSE "tail")
  BY <1>1, InRequest, PlaceGoto DEF Places
<1>3. CASE Top.isr
  <2>1. Fresh' /\ request' = setup'
    BY <1>1, <1>2, <1>3 DEF Exchange, Fresh, Quiet, FirstStage
  <2>2. QED BY <1>2, <1>3, <2>1 DEF Exchange
<1>4. CASE ~Top.isr
  BY <1>1, <1>2, <1>4, ExchangeKept
<1>5. QED BY <1>3, <1>4

(* The SETUP of a request is there when its handler tests for it. *)
LEMMA TestExchange ==
  ASSUME TypeOK, NestInv, Exchange(Place), Undisturbed, Undisturbed', TestSetup
  PROVE  Exchange(Place)'
<1> DEFINE p == IF SetupReceived THEN "begin" ELSE "tail"
<1>1. /\ At("test") /\ Goto(p) /\ p \in {"begin", "tail"} /\ p \in Places \ {"write"}
      /\ UNCHANGED <<setup, inBusy, outFull, transfer, rxstpi, deviceState, request>>
  BY DEF TestSetup, epVars, hostVars, irqVars, stateVars, Places
<1> HIDE DEF p
<1>2. /\ stack # << >> /\ Place = (IF Top.isr THEN "test" ELSE "tail")
      /\ Place' = (IF Top.isr THEN p ELSE "tail")
  BY <1>1, InRequest, PlaceGoto
<1>3. CASE Top.isr
  <2>1. Fresh' /\ request' = setup'
    BY <1>1, <1>2, <1>3 DEF Exchange, Fresh, Quiet, FirstStage
  <2>2. Done'
    BY <2>1 DEF Fresh, Quiet, Done, Between
  <2>3. QED BY <1>1, <1>2, <1>3, <2>1, <2>2 DEF Exchange
<1>4. CASE ~Top.isr
  BY <1>1, <1>2, <1>4, ExchangeKept
<1>5. QED BY <1>3, <1>4

(* The handler serves the request the host has made. *)
LEMMA BeginStage ==
  ASSUME TypeOK, NestInv, Exchange(Place), Undisturbed,
         NEW r, NEW p \in Places \ {"write"}, Begin(r, p)
  PROVE  /\ Place' = p /\ setup' = NoRequest /\ request' = r
         /\ transfer' = FirstStage(r) /\ Quiet /\ outFull' = outFull
<1>1. /\ At("begin") /\ request = r /\ setup' = NoRequest
      /\ UNCHANGED <<request, rxstpi, transfer, outFull>>
  BY DEF Begin, Running, irqVars, hostVars
<1>2. stack # << >> /\ Top.isr /\ Place = "begin"
  BY <1>1, InRequest
<1>3. Place' = p
  BY <1>1, <1>2, PlaceGoto
<1>4. QED BY <1>1, <1>2, <1>3 DEF Exchange, Fresh

LEMMA BeginExchange ==
  ASSUME TypeOK, NestInv, Exchange(Place), Undisturbed,
         \/ BeginPlain \/ BeginSetLine \/ BeginDescriptor \/ BeginGetLine
         \/ BeginGetStatus
  PROVE  Exchange(Place)'
<1>1. CASE BeginPlain
  <2>1. PICK r \in PlainRequests : Begin(r, "statusIn")
    BY <1>1 DEF BeginPlain
  <2>2. FirstStage(r) = "statusIn"
    BY DEF PlainRequests, ReadRequests, FirstStage
  <2>3. inBusy' = inBusy
    BY <1>1 DEF BeginPlain
  <2>4. QED BY <2>1, <2>2, <2>3, BeginStage DEF Exchange, Stage, Quiet, Places
<1>2. CASE BeginSetLine
  <2>1. Begin("SetLineEncoding", "data") /\ inBusy' = inBusy
    BY <1>2 DEF BeginSetLine
  <2>2. FirstStage("SetLineEncoding") = "out"
    BY DEF ReadRequests, FirstStage
  <2>3. QED BY <2>1, <2>2, BeginStage DEF Exchange, Stage, Quiet, Places
<1>3. CASE BeginDescriptor
  <2>1. Begin("GetDescriptor", "stream") /\ inBusy' = inBusy
    BY <1>3 DEF BeginDescriptor
  <2>2. FirstStage("GetDescriptor") = "in"
    BY DEF ReadRequests, FirstStage
  <2>3. QED BY <2>1, <2>2, BeginStage DEF Exchange, Unanswered, Stage, Quiet, Places
<1>4. CASE BeginGetLine
  <2>1. Begin("GetLineEncoding", "answer") /\ inBusy' = inBusy
    BY <1>4 DEF BeginGetLine
  <2>2. FirstStage("GetLineEncoding") = "in"
    BY DEF ReadRequests, FirstStage
  <2>3. QED BY <2>1, <2>2, BeginStage DEF Exchange, Unanswered, Stage, Quiet, Places
<1>5. CASE BeginGetStatus
  <2>1. Begin("GetStatus", "statusOut") /\ inBusy'
    BY <1>5 DEF BeginGetStatus
  <2>2. FirstStage("GetStatus") = "in"
    BY DEF ReadRequests, FirstStage
  <2>3. QED BY <2>1, <2>2, BeginStage DEF Exchange, Fetching, Stage, Quiet, Places
<1>6. QED BY <1>1, <1>2, <1>3, <1>4, <1>5

LEMMA UnknownExchange ==
  ASSUME TypeOK, NestInv, Exchange(Place), Undisturbed, BeginUnknown
  PROVE  Exchange(Place)'
<1>1. /\ At("begin") /\ Goto("tail")
      /\ UNCHANGED <<setup, inBusy, outFull, transfer, rxstpi>>
  BY DEF BeginUnknown, Running, epVars, hostVars, irqVars
<1>2. /\ stack # << >> /\ Place = "begin" /\ Place' = "tail"
  BY <1>1, InRequest, PlaceGoto DEF Places
<1>3. Done'
  BY <1>1, <1>2 DEF Exchange, Fresh, Quiet, Done, Between, FirstStage
<1>4. QED BY <1>2, <1>3 DEF Exchange

(* The seven bytes of a line encoding, from the host and to it. *)
LEMMA LineExchange ==
  ASSUME TypeOK, NestInv, Exchange(Place), Undisturbed,
         deviceState # "Unattached", ReadLineEncoding \/ WriteLineEncoding
  PROVE  Exchange(Place)'
<1>1. CASE ReadLineEncoding
  <2>1. /\ At("data") /\ outFull /\ ~outFull' /\ Goto(StatusOf(request))
        /\ UNCHANGED <<setup, inBusy, transfer, rxstpi>>
    BY <1>1 DEF ReadLineEncoding, Running, hostVars, irqVars
  <2>2. stack # << >> /\ Top.isr /\ Place = "data"
    BY <2>1, InRequest
  <2>3. request = "SetLineEncoding" /\ Stage("statusIn") /\ ~inBusy
    BY <2>1, <2>2 DEF Exchange
  <2>4. StatusOf(request) = "statusIn"
    BY <2>3 DEF StatusOf, ReadRequests
  <2>5. Place' = "statusIn"
    BY <2>1, <2>2, <2>4, PlaceGoto DEF Places
  <2>6. Stage("statusIn")' /\ Quiet'
    BY <2>1, <2>3 DEF Stage, Quiet
  <2>7. QED BY <2>5, <2>6 DEF Exchange
<1>2. CASE WriteLineEncoding
  <2>1. /\ At("answer") /\ inBusy' /\ Goto(StatusOf(request))
        /\ UNCHANGED <<setup, outFull, transfer, rxstpi>>
    BY <1>2 DEF WriteLineEncoding, Running, hostVars, irqVars
  <2>2. stack # << >> /\ Top.isr /\ Place = "answer"
    BY <2>1, InRequest
  <2>3. request = "GetLineEncoding" /\ Unanswered
    BY <2>2 DEF Exchange
  <2>4. StatusOf(request) = "statusOut"
    BY <2>3 DEF StatusOf, ReadRequests
  <2>5. Place' = "statusOut"
    BY <2>1, <2>2, <2>4, PlaceGoto DEF Places
  <2>6. Fetching'
    BY <2>1, <2>3 DEF Fetching, Unanswered, Stage, Quiet
  <2>7. QED BY <2>5, <2>6 DEF Exchange
<1>3. QED BY <1>1, <1>2

(* The packet of a descriptor, and its end.  A bus that is suspended ends  *)
(* the stream without an answer, or after the host has taken it.           *)
LEMMA StreamExchange ==
  ASSUME TypeOK, NestInv, Exchange(Place), Undisturbed,
         deviceState # "Unattached", StreamDescriptor \/ StreamDone
  PROVE  Exchange(Place)'
<1>1. CASE StreamDescriptor
  <2>1. /\ At("stream") /\ Goto("streamed") /\ inBusy' /\ deviceState # "Suspended"
        /\ UNCHANGED <<setup, outFull, transfer, rxstpi, deviceState>>
    BY <1>1 DEF StreamDescriptor, StreamEnds, Running, hostVars, irqVars, stateVars
  <2>2. stack # << >> /\ Top.isr /\ Place = "stream"
    BY <2>1, InRequest
  <2>3. Place' = "streamed"
    BY <2>1, <2>2, PlaceGoto DEF Places
  <2>4. Fetching'
    BY <2>1, <2>2 DEF Exchange, Fetching, Unanswered, Stage, Quiet
  <2>5. QED BY <2>1, <2>3, <2>4 DEF Exchange
<1>2. CASE StreamDone
  <2>1. /\ At("stream") \/ At("streamed")
        /\ Goto("tail") /\ StreamEnds /\ ~outFull'
        /\ UNCHANGED <<setup, inBusy, transfer, rxstpi>>
    BY <1>2 DEF StreamDone, Running, hostVars, irqVars
  <2>2. stack # << >> /\ Top.isr /\ Place = Top.at
    BY <2>1, InRequest
  <2>3. Place' = "tail"
    BY <2>1, <2>2, PlaceGoto DEF Places
  <2>4. CASE At("stream")
    <3>1. Place = "stream"
      BY <2>2, <2>4 DEF At
    <3>2. Unanswered'
      BY <2>1, <3>1 DEF Exchange, Unanswered, Stage, Quiet
    <3>3. QED BY <2>3, <3>2 DEF Exchange
  <2>5. CASE At("streamed")
    <3>1. Place = "streamed" /\ ~At("stream")
      BY <2>2, <2>5 DEF At
    <3>2. deviceState = "Suspended" \/ outFull
      BY <2>1, <3>1 DEF StreamEnds
    <3>3. Fetched
      BY <3>1, <3>2 DEF Exchange, Fetching
    <3>4. Done'
      BY <2>1, <3>3 DEF Fetched, Done, Between, Stage, FirstStage
    <3>5. QED BY <2>3, <3>4 DEF Exchange
  <2>6. QED BY <2>1, <2>4, <2>5
<1>3. QED BY <1>1, <1>2

(* The status stages. *)
LEMMA StatusExchange ==
  ASSUME TypeOK, NestInv, Exchange(Place), Undisturbed,
         deviceState # "Unattached", StatusIn \/ StatusOut
  PROVE  Exchange(Place)'
<1>0. stack # << >> => Top.after \in {"address", "state", "tail"}
  BY TopType DEF TypeOK, Activations
<1>1. CASE StatusIn
  <2>1. /\ At("statusIn") /\ Goto(Top.after)
        /\ UNCHANGED <<setup, outFull, transfer, rxstpi>>
        /\ ~inBusy => inBusy'
    BY <1>1 DEF StatusIn, StatusEnds, Running, hostVars, irqVars
  <2>2. stack # << >> /\ Top.isr /\ Place = "statusIn"
    BY <2>1, InRequest
  <2>3. Place' = Top.after
    BY <1>0, <2>1, <2>2, PlaceGoto DEF Places
  <2>4. Done'
    BY <2>1, <2>2 DEF Exchange, Done, Stage, Quiet
  <2>5. QED BY <1>0, <2>2, <2>3, <2>4 DEF Exchange
<1>2. CASE StatusOut
  <2>1. /\ At("statusOut") /\ Goto(Top.after)
        /\ UNCHANGED <<setup, inBusy, transfer, rxstpi>>
        /\ outFull /\ ~outFull'
    BY <1>2 DEF StatusOut, StatusEnds, Running, hostVars, irqVars
  <2>2. stack # << >> /\ Top.isr /\ Place = "statusOut"
    BY <2>1, InRequest
  <2>3. Place' = Top.after
    BY <1>0, <2>1, <2>2, PlaceGoto DEF Places
  <2>4. Fetched
    BY <2>1, <2>2 DEF Exchange, Fetching
  <2>5. Done'
    BY <2>1, <2>4 DEF Fetched, Done, Between, Stage, FirstStage
  <2>6. QED BY <1>0, <2>2, <2>3, <2>5 DEF Exchange
<1>3. QED BY <1>1, <1>2

(* What is left to do after the status stage. *)
LEMMA AfterExchange ==
  ASSUME TypeOK, NestInv, Exchange(Place), Undisturbed,
         EnableAddress \/ ConfigurationState
  PROVE  Exchange(Place)'
<1>1. PICK p \in {"address", "state"}, n \in {"endpoints", "tail"} :
        At(p) /\ Goto(n)
  BY DEF EnableAddress, ConfigurationState, Running
<1>2. UNCHANGED <<setup, inBusy, outFull, transfer, rxstpi>>
  BY DEF EnableAddress, ConfigurationState, epVars, hostVars, irqVars
<1>3. stack # << >> /\ Top.isr /\ Place = p
  BY <1>1, InRequest
<1>4. Place' = n
  BY <1>1, <1>2, <1>3, PlaceGoto DEF Places
<1>5. Done'
  BY <1>2, <1>3 DEF Exchange, Done, Between, Stage, FirstStage
<1>6. QED BY <1>4, <1>5 DEF Exchange

LEMMA EndpointsExchange ==
  ASSUME TypeOK, NestInv, SelectedInv, Exchange(Place), Undisturbed,
         ConfigureEndpoints
  PROVE  Exchange(Place)'
<1>1. PICK p \in {"endpoints", "select", "write"} : At(p)
  BY DEF ConfigureEndpoints, BeginEndpoints, SelectEndpoint, SkipEndpoint,
     SetUpsLeft, WriteEndpoint, WriteStray, EndpointsDone, Running
<1>2. UNCHANGED <<setup, inBusy, outFull, transfer, rxstpi>>
  <2>1. ~WriteStray
    BY Zenon DEF SelectedInv, WriteStray, Running
  <2>2. UNCHANGED epVars /\ UNCHANGED hostVars /\ UNCHANGED irqVars
    BY <2>1, Zenon DEF ConfigureEndpoints, BeginEndpoints, SelectEndpoint,
       SkipEndpoint, WriteEndpoint, EndpointsDone
  <2>3. QED BY <2>2 DEF epVars, hostVars, irqVars
<1>3. stack # << >> /\ Top.isr /\ Place = p
  BY <1>1, InRequest
<1>4. Place' \in {"select", "write", "tail"}
  <2>1. PICK f \in Activations :
          /\ stack' = [stack EXCEPT ![Len(stack)] = f] /\ f.isr = Top.isr
          /\ f.at \in Elsewhere
    BY EndpointPlace DEF TypeOK
  <2>2. QED BY <1>2, <1>3, <2>1, PlaceMove DEF Elsewhere
<1>5. Done'
  BY <1>2, <1>3 DEF Exchange, Done, Between, Stage, FirstStage
<1>6. QED BY <1>4, <1>5 DEF Exchange

(* The end of an activation: the control interrupt's with its request, the *)
(* main program's without one. *)
LEMMA ReturnExchange ==
  ASSUME TypeOK, NestInv, Exchange(Place), Undisturbed, Leave \/ Refuse
  PROVE  Exchange(Place)'
<1>1. At("tail") /\ Return
  BY DEF Leave, Refuse, Running
<1>2. stack # << >> /\ Place = "tail"
  BY <1>1, InRequest
<1>3. Place' = "tail"
  BY <1>1, <1>2, PlacePop
<1>4. CASE Leave
  BY <1>2, <1>3, <1>4, ExchangeKept DEF Leave, epVars, hostVars, stateVars
<1>5. CASE Refuse
  <2>1. setup # NoRequest
    BY <1>5 DEF Refuse, SetupReceived
  <2>2. Done /\ ~inBusy /\ ~outFull
    BY <1>2, <2>1 DEF Exchange, Done, Unanswered, Stage
  <2>3. setup' = NoRequest /\ transfer' = "none" /\ UNCHANGED <<inBusy, outFull>>
    BY <1>5 DEF Refuse
  <2>4. Done'
    BY <2>2, <2>3 DEF Done, Between, Stage
  <2>5. QED BY <1>3, <2>4 DEF Exchange
<1>6. QED BY <1>4, <1>5

-----------------------------------------------------------------------------
(* The host's side. *)
LEMMA SetupExchange ==
  ASSUME TypeOK, NestInv, Exchange(Place), Undisturbed, Undisturbed', HostSetup
  PROVE  Exchange(Place)'
<1>1. transfer = "none"
  BY NotBroken DEF HostSetup
<1>2. PICK r \in Requests : setup' = r /\ transfer' = FirstStage(r)
  BY DEF HostSetup
<1>3. r # NoRequest
  BY ConstantTypes DEF AllRequests, KnownRequests, ReadRequests, PlainRequests,
     NoRequest
<1>4. UNCHANGED <<inBusy, outFull, stack, rxstpi, request, deviceState>>
  <2>1. inBusy' = inBusy
    <3>1. inBusy \in BOOLEAN
      BY DEF TypeOK
    <3>2. inBusy' = inBusy \/ inBusy' = (inBusy /\ transfer = "none")
      BY DEF HostSetup
    <3>3. QED BY <1>1, <3>1, <3>2
  <2>2. QED BY <2>1 DEF HostSetup, irqVars, stateVars
<1>5. Place' = Place
  BY <1>4 DEF Place, Top
<1>6. Between'
  BY <1>2, <1>3 DEF Between, FirstStage
<1>7. /\ ~Fresh /\ ~Fetching /\ ~Unanswered
      /\ ~Stage("in") /\ ~Stage("out") /\ ~Stage("statusIn")
  BY <1>1 DEF Fresh, FirstStage, Fetching, Unanswered, Stage
<1>8. Fetched => Fetched'
  BY <1>4, <1>6 DEF Fetched
<1>9. Done => Done'
  BY <1>4, <1>6, <1>7 DEF Done
<1>10. QED BY <1>5, <1>7, <1>8, <1>9 DEF Exchange

LEMMA PacketExchange ==
  ASSUME TypeOK, NestInv, Exchange(Place), HostTakesIn \/ HostSendsOut
  PROVE  Exchange(Place)'
<1>1. /\ setup = NoRequest
      /\ UNCHANGED <<setup, stack, rxstpi, request, deviceState>>
  BY DEF HostTakesIn, HostSendsOut, irqVars, stateVars
<1>2. Place' = Place
  BY <1>1 DEF Place, Top
<1>3. ~Fresh
  BY <1>1 DEF Fresh
<1>4. CASE HostTakesIn
  <2>1. /\ inBusy /\ ~inBusy' /\ outFull' = outFull /\ setup' = NoRequest
        /\ transfer \in {"in", "statusIn"}
        /\ transfer' = IF transfer = "in" THEN "statusOut" ELSE "none"
    BY <1>1, <1>4 DEF HostTakesIn
  <2>2. ~Quiet /\ ~Unanswered /\ ~Fetched
    BY <2>1 DEF Quiet, Unanswered, Fetched
  <2>3. Fetching => Fetching'
    BY <2>1 DEF Fetching, Stage
  <2>4. Done => Done'
    BY <2>1 DEF Done, Between, Stage
  <2>5. QED BY <1>1, <1>2, <1>3, <2>1, <2>2, <2>3, <2>4 DEF Exchange
<1>5. CASE HostSendsOut
  <2>1. /\ ~outFull /\ outFull' /\ inBusy' = inBusy /\ setup' = NoRequest
        /\ transfer \in {"out", "statusOut"}
        /\ transfer' = IF transfer = "out" THEN "statusIn" ELSE "none"
    BY <1>1, <1>5 DEF HostSendsOut
  <2>2. /\ ~Unanswered /\ ~Fetched /\ ~Stage("statusIn")
    BY <2>1 DEF Unanswered, Fetched, Stage
  <2>3. Fetching => Fetched'
    BY <2>1 DEF Fetching, Fetched, Between, Stage
  <2>4. ~Done
    BY <1>1, <2>1 DEF Done, Between, Stage
  <2>5. Stage("out") => Stage("statusIn")'
    BY <2>1 DEF Stage
  <2>6. QED
    BY <1>1, <1>2, <1>3, <2>1, <2>2, <2>3, <2>4, <2>5 DEF Exchange
<1>6. QED BY <1>4, <1>5

LEMMA HandlerExchange ==
  ASSUME TypeOK, NestInv, SelectedInv, Exchange(Place), Undisturbed,
         Undisturbed', deviceState # "Unattached", Handler \/ ConfigureEndpoints
  PROVE  Exchange(Place)'
BY InterruptExchange, HeaderExchange, TestExchange, BeginExchange,
   UnknownExchange, LineExchange, StreamExchange, StatusExchange, AfterExchange,
   EndpointsExchange, ReturnExchange DEF Handler

(***************************************************************************)
(* The invariant.  While the bus is off the exchange is broken, and a      *)
(* handler may go on in it; the next transfer comes after a reset, which   *)
(* finds no handler and leaves both sides quiet.                           *)
(***************************************************************************)
LEMMA HandlerGoes ==
  ASSUME TypeOK,
         \/ ReadHeader \/ TestSetup
         \/ BeginPlain \/ BeginSetLine \/ BeginDescriptor \/ BeginGetLine
         \/ BeginGetStatus \/ BeginUnknown
         \/ ReadLineEncoding \/ WriteLineEncoding \/ StreamDescriptor
         \/ StreamDone \/ StatusIn \/ StatusOut
         \/ EnableAddress \/ ConfigurationState
  PROVE  /\ stack # << >> /\ UNCHANGED rxstpi
         /\ \E p \in Places \ {"write"} : Goto(p) \/ \E r : Begin(r, p)
<1>0. stack # << >> => Top.after \in Places \ {"write"}
  BY TopType DEF TypeOK, Activations, Places
<1>1. CASE ReadHeader \/ TestSetup \/ BeginUnknown
  BY <1>1 DEF ReadHeader, TestSetup, BeginUnknown, Running, At, irqVars, Places
<1>2. CASE \/ BeginPlain \/ BeginSetLine \/ BeginDescriptor \/ BeginGetLine
           \/ BeginGetStatus
  <2>1. PICK r : \/ Begin(r, "statusIn") \/ Begin(r, "data")
                 \/ Begin(r, "stream") \/ Begin(r, "answer")
                 \/ Begin(r, "statusOut")
    BY <1>2 DEF BeginPlain, BeginSetLine, BeginDescriptor, BeginGetLine,
       BeginGetStatus
  <2>2. PICK p \in Places \ {"write"} : Begin(r, p)
    BY <2>1 DEF Places
  <2>3. QED BY <2>2 DEF Begin, Running, At, irqVars
<1>3. CASE ReadLineEncoding \/ WriteLineEncoding
  BY <1>3 DEF ReadLineEncoding, WriteLineEncoding, StatusOf, Running, At, irqVars,
     Places
<1>4. CASE StreamDescriptor \/ StreamDone
  BY <1>4 DEF StreamDescriptor, StreamDone, Running, At, irqVars, Places
<1>5. CASE StatusIn \/ StatusOut
  BY <1>0, <1>5 DEF StatusIn, StatusOut, Running, At, irqVars
<1>6. CASE EnableAddress \/ ConfigurationState
  BY <1>6 DEF EnableAddress, ConfigurationState, Running, At, irqVars, Places
<1>7. QED BY <1>1, <1>2, <1>3, <1>4, <1>5, <1>6

LEMMA NestStep ==
  ASSUME TypeOK, NestInv, Undisturbed, Undisturbed', [Next]_vars
  PROVE  NestInv'
<1>1. CASE ComInterrupt
  BY <1>1, PlacePush DEF ComInterrupt, Pending, RequestsOff
<1>2. CASE DeviceTask
  BY <1>2, PlacePush DEF DeviceTask, irqVars
<1>3. CASE Leave \/ Refuse
  BY <1>3, PlacePop DEF Leave, Refuse, Running, At
<1>4. CASE \/ ReadHeader \/ TestSetup
           \/ BeginPlain \/ BeginSetLine \/ BeginDescriptor \/ BeginGetLine
           \/ BeginGetStatus \/ BeginUnknown
           \/ ReadLineEncoding \/ WriteLineEncoding \/ StreamDescriptor
           \/ StreamDone \/ StatusIn \/ StatusOut
           \/ EnableAddress \/ ConfigurationState
  BY <1>4, HandlerGoes, PlaceGoto
<1>9. CASE ConfigureEndpoints
  <2>1. stack \in Seq(Activations)
    BY DEF TypeOK
  <2>2. Move
    BY <1>9, <2>1, EndpointStep
  <2>3. QED BY <2>2, PlaceMove DEF Move
<1>5. CASE EndOfReset
  <2>1. stack' = << >>
    BY <1>5, NotBroken DEF EndOfReset
  <2>2. QED BY <2>1 DEF NestInv
<1>6. CASE UNCHANGED <<stack, rxstpi>>
  BY <1>6 DEF NestInv
<1>7. ASSUME \/ Attach \/ Detach \/ Suspend \/ Resume \/ WakeUp
             \/ MainSelect \/ MainLeave \/ MainStray
             \/ HostSetup \/ HostTakesIn \/ HostSendsOut \/ UNCHANGED vars
      PROVE  UNCHANGED <<stack, rxstpi>>
  BY <1>7 DEF Attach, Detach, Suspend, Resume, WakeUp, MainSelect, MainLeave,
     MainStray, HostSetup, HostTakesIn, HostSendsOut, vars, irqVars
<1>8. QED BY <1>1, <1>2, <1>3, <1>4, <1>5, <1>6, <1>7, <1>9, Actions
     DEF ConfigureEndpoints

(* No reset falls into a configuration, and the main program is in none. *)
LEMMA SelectedStep ==
  ASSUME TypeOK, DepthInv, NestInv, SelectedInv, Undisturbed, Undisturbed',
         [Next]_vars
  PROVE  SelectedInv'
<1>0. stack \in Seq(Activations)
  BY DEF TypeOK
<1>1. CASE Push
  <2>1. PICK isr \in BOOLEAN : stack' = Append(stack, Activation(isr, selected))
    BY <1>1 DEF Push
  <2> DEFINE f == Activation(isr, selected)
  <2>2. f \in Activations /\ f.at = "header"
    BY ActivationType DEF TypeOK, Activation
  <2>3. stack' = Append(stack, f)
    BY <2>1
  <2> HIDE DEF f
  <2>4. Len(stack') = Len(stack) + 1 /\ stack'[Len(stack) + 1] = f
    BY <1>0, <2>2, <2>3, Pushed
  <2>5. Top' = f
    BY <2>4 DEF Top
  <2>6. QED BY <2>2, <2>5 DEF SelectedInv, At
<1>2. CASE Pop
  <2>1. stack # << >> /\ stack' = SubSeq(stack, 1, Len(stack) - 1)
    BY <1>2 DEF Pop, Return
  <2>2. PICK n \in Nat \ {0} : n = Len(stack)
    BY <1>0, <2>1, TopType
  <2>3. /\ Len(stack') = n - 1 /\ (stack' = << >> <=> n = 1)
        /\ \A i \in 1 .. n - 1 : stack'[i] = stack[i]
    BY <1>0, <2>1, <2>2, Popped, Zenon
  <2>4. CASE n = 1
    BY <2>3, <2>4 DEF SelectedInv, At
  <2>5. CASE n # 1
    <3>1. n - 1 \in 1 .. n /\ n - 1 \in 1 .. n - 1
      BY <2>5
    <3>2. ~stack'[n - 1].isr
      BY <2>2, <2>3, <3>1 DEF NestInv
    <3>3. stack'[n - 1].at \in {"header", "test", "tail"}
      BY <2>3, <3>1, <3>2 DEF Undisturbed, ServedByMain
    <3>4. QED BY <2>3, <3>3 DEF SelectedInv, At, Top
  <2>6. QED BY <2>4, <2>5
<1>3. CASE Move
  <2>1. PICK f \in Activations :
          /\ stack' = [stack EXCEPT ![Len(stack)] = f]
          /\ f.at = "write" => selected' \in DataEndpoints
    <3>1. CASE ConfigureEndpoints
      BY <1>0, <3>1, EndpointPlace
    <3>2. CASE ~ConfigureEndpoints
      BY <1>3, <3>2 DEF Move, SettingUp
    <3>3. QED BY <3>1, <3>2
  <2>2. Len(stack') = Len(stack) /\ stack'[Len(stack)] = f
    BY <1>0, <1>3, <2>1, Replaced DEF Move
  <2>3. Top' = f
    BY <2>2 DEF Top
  <2>4. QED BY <2>1, <2>3, ConstantTypes DEF SelectedInv, At
<1>4. CASE Keep
  <2>1. EndOfReset => stack = << >>
    BY NotBroken DEF EndOfReset
  <2>2. QED BY <1>4, <2>1 DEF Keep, SelectedInv, At, Top
<1>5. QED BY <1>1, <1>2, <1>3, <1>4, StackStep

LEMMA ExchangeStep ==
  ASSUME TypeOK, ServedInv, Undisturbed, Undisturbed', [Next]_vars
  PROVE  ExchangeInv'
<1> SUFFICES ASSUME Serving' PROVE Exchange(Place)'
  BY DEF ExchangeInv
<1>0. NestInv /\ BusInv /\ SelectedInv /\ ExchangeInv
  BY DEF ServedInv
<1>1. CASE EndOfReset
  <2>1. /\ stack' = << >> /\ setup' = NoRequest /\ transfer' = "none"
        /\ ~inBusy' /\ ~outFull'
    BY <1>1, NotBroken DEF EndOfReset
  <2>2. Place' = "tail"
    BY <2>1 DEF Place
  <2>3. Done'
    BY <2>1 DEF Done, Between, Stage
  <2>4. QED BY <2>2, <2>3 DEF Exchange
<1>2. CASE Attach \/ Detach
  BY <1>2 DEF Attach, Detach, Serving
<1>3. CASE Suspend \/ Resume \/ WakeUp
  <2>1. Serving /\ Exchange(Place)
    BY <1>0, <1>3 DEF Suspend, Resume, WakeUp, Serving, ExchangeInv, hostVars
  <2>2. /\ UNCHANGED <<setup, inBusy, outFull, transfer, request, stack>>
        /\ deviceState' = "Suspended" => transfer = "none" \/ deviceState' = deviceState
    BY <1>3 DEF Suspend, Resume, WakeUp, epVars, hostVars, stateVars
  <2>3. Place' = Place
    BY <2>2 DEF Place, Top
  <2>4. QED BY <2>1, <2>2, <2>3, ExchangeKept
<1>4. CASE Handler \/ ConfigureEndpoints
  <2>1. UNCHANGED bus
    BY <1>4 DEF Handler, ComInterrupt, ReadHeader, TestSetup, BeginPlain,
       BeginSetLine, BeginDescriptor, BeginGetLine, BeginGetStatus, Begin,
       BeginUnknown, ReadLineEncoding, WriteLineEncoding, StreamDescriptor,
       StreamDone, StatusIn, StatusOut, EnableAddress, ConfigurationState,
       ConfigureEndpoints, BeginEndpoints, SelectEndpoint, SkipEndpoint,
       WriteEndpoint, WriteStray, EndpointsDone, Leave, Refuse, hostVars
  <2>2. QED BY <1>0, <1>4, <2>1, HandlerExchange DEF Serving, ExchangeInv, BusInv
<1>5. CASE MainSelect \/ MainLeave \/ UNCHANGED vars
  <2>1. /\ UNCHANGED <<setup, inBusy, outFull, transfer, request, stack, bus,
                       deviceState>>
    BY <1>5 DEF MainSelect, MainLeave, vars, epVars, hostVars, stateVars
  <2>2. Place' = Place /\ Exchange(Place)
    BY <1>0, <2>1 DEF Place, Top, Serving, ExchangeInv
  <2>3. QED BY <2>1, <2>2, ExchangeKept
<1>6. CASE MainStray
  BY <1>6 DEF MainStray, Undisturbed
<1>7. CASE DeviceTask
  <2>1. Exchange(Place)
    BY <1>0, <1>7 DEF DeviceTask, hostVars, Serving, ExchangeInv
  <2>2. QED BY <1>0, <1>7, <2>1, TaskExchange
<1>8. CASE HostSetup
  <2>1. Exchange(Place)
    BY <1>0, <1>8 DEF HostSetup, Serving, ExchangeInv
  <2>2. QED BY <1>0, <1>8, <2>1, SetupExchange
<1>9. CASE HostTakesIn \/ HostSendsOut
  <2>1. Exchange(Place)
    BY <1>0, <1>9 DEF HostTakesIn, HostSendsOut, Serving, ExchangeInv
  <2>2. QED BY <1>0, <1>9, <2>1, PacketExchange
<1>10. QED
  BY <1>1, <1>2, <1>3, <1>4, <1>5, <1>6, <1>7, <1>8, <1>9
     DEF Next, Cable, MainStep, HostProceeds

LEMMA ServedInit == Init => ServedInv
<1> SUFFICES ASSUME Init PROVE ServedInv
  OBVIOUS
<1>1. stack = << >> /\ bus = "off" /\ transfer = "none"
  BY DEF Init
<1>2. QED BY <1>1 DEF ServedInv, NestInv, BusInv, SelectedInv, At,
     ExchangeInv, Serving

(* A handler that waits finds the host at the stage it waits for. *)
LEMMA ServedMoves ==
  ASSUME TypeOK, ServedInv, Undisturbed, Waits PROVE HostMoves
<1>1. PICK p \in {"data", "answer", "stream", "streamed", "statusIn", "statusOut",
                 "address"} : At(p)
  BY DEF Waits
<1>2. stack # << >> /\ Top.at = p /\ Place = p
  BY <1>1, InRequest
<1>3. BusInv /\ ExchangeInv
  BY DEF ServedInv
<1>4. Serving /\ ep0
  <2>1. CASE bus = "off"
    <3>1. ~At("address") /\ ~At("answer") /\ deviceState = "Unattached"
      BY <2>1 DEF Undisturbed, Unplugged
    <3>2. QED BY <3>1 DEF Waits, StreamEnds, StatusEnds
  <2>2. CASE bus = "attached"
    BY <1>2, <1>3, <2>2 DEF BusInv
  <2>3. QED BY <1>3, <2>1, <2>2 DEF TypeOK, Serving, BusInv
<1>5. Exchange(p)
  BY <1>2, <1>3, <1>4 DEF ExchangeInv
<1>6. \A q : At(q) <=> q = p
  BY <1>2 DEF At
<1>7. CASE p = "data"
  <2>1. ~outFull /\ Stage("out")
    BY <1>5, <1>6, <1>7 DEF Waits, Exchange
  <2>2. QED BY <1>3, <1>4, <2>1 DEF HostMoves, BusInv, Stage
<1>8. CASE p \in {"answer", "stream", "statusIn"}
  BY <1>5, <1>6, <1>8 DEF Waits, Exchange, Unanswered, Quiet
<1>9. CASE p \in {"streamed", "statusOut"}
  <2>1. ~outFull
    BY <1>6, <1>9 DEF Waits, StreamEnds
  <2>2. Fetching
    BY <1>5, <1>9, <2>1 DEF Exchange, Fetched
  <2>3. QED BY <1>3, <1>4, <2>2 DEF HostMoves, BusInv, Fetching, Stage
<1>10. CASE p = "address"
  <2>1. inBusy /\ Stage("statusIn")
    BY <1>5, <1>6, <1>10 DEF Waits, Exchange, Done
  <2>2. QED BY <1>3, <1>4, <2>1 DEF HostMoves, BusInv, Stage
<1>11. QED BY <1>7, <1>8, <1>9, <1>10

(***************************************************************************)
(* While transfers are finished, no reset falls into a routine of the      *)
(* class driver, the main program serves no request and no cable is pulled *)
(* at a wait without end, a handler of a control request never waits for a *)
(* host that waits for it.                                                 *)
(***************************************************************************)
THEOREM NeverMutual == Spec => NoMutualWait
<1>1. IInv => TypeOK /\ DepthInv
  BY DEF IInv
<1>2. TypeOK /\ ServedInv /\ Undisturbed => (Waits => HostMoves)
  BY ServedMoves
<1>3. TypeOK /\ DepthInv /\ ServedInv /\ Undisturbed /\ Undisturbed' /\ [Next]_vars => ServedInv'
  BY NestStep, BusStep, SelectedStep, ExchangeStep DEF ServedInv
<1>4. QED
  BY <1>1, <1>2, <1>3, ServedInit, Invariance, PTL DEF Spec, NoMutualWait
=============================================================================
