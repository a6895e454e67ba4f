-------------------------- MODULE UsbControlProofs --------------------------
(***************************************************************************)
(* The safety properties of UsbControl, and that it implements UsbSession, *)
(* for every set of requests and endpoints and any depth of nesting.       *)
(***************************************************************************)
EXTENDS UsbControl, SequenceTheorems, TLAPS

(* An activation that will set the endpoints up, from the first one on. *)
Configuring(f) == \/ f.at \in {"state", "endpoints"}
                  \/ f.at = "statusIn" /\ f.after = "state"

(* One that is setting them up, and the endpoint that is selected in it.   *)
SettingUp(f) == f.at \in {"select", "write"}
Chosen(i) == IF i = Len(stack) THEN selected ELSE stack[i + 1].back

(* What is not set up yet it has before it, no reset fell into the set-up  *)
(* it is in, and no activation above it undoes its work.                   *)
Ahead(f)   == {SetUps[j] : j \in f.done + 1 .. Len(SetUps)}
OnCourse(i) ==
  /\ SettingUp(stack[i])
  /\ stack[i].at = "write" => Chosen(i) = SetUps[stack[i].done + 1]
  /\ DataEndpoints \subseteq enabled \cup Ahead(stack[i])
  /\ \A m \in i + 1 .. Len(stack) : ~SettingUp(stack[m])

(* The control interrupt is enabled only where one more fits. *)
DepthInv == rxstpi => Len(stack) < MaxNest

(* What interrupted a handler gives the control endpoint back to it. *)
BackInv == \A i \in 2 .. Len(stack) :
             stack[i - 1].at \notin Elsewhere => stack[i].back = "control"

(* A configuration number, or state, is one whose endpoints are set up, or *)
(* about to be, by an activation on the stack.                             *)
Configures == \E i \in 1 .. Len(stack) : Configuring(stack[i])
Underway   == \E i \in 1 .. Len(stack) : OnCourse(i)
ConfInv ==
  configuration # 0 \/ deviceState = "Configured" =>
    enabled = DataEndpoints \/ Configures \/ Underway

IInv == TypeOK /\ DepthInv /\ HandlerOnControl /\ BackInv /\ ConfInv

(* The constants. *)
LEMMA ConstantTypes ==
  /\ Requests \subseteq AllRequests /\ "control" \notin DataEndpoints
  /\ DataEndpoints # {}
  /\ MaxAbandoned \in Nat /\ MaxNest \in Nat /\ MaxNest >= 2
BY ControlAssumption DEF ControlAssumption

LEMMA SetUpsLength == Len(SetUps) \in Nat
BY ControlAssumption DEF ControlAssumption

LEMMA SetUpsType ==
  /\ \A i \in 1 .. Len(SetUps) : SetUps[i] \in DataEndpoints
  /\ \A e \in DataEndpoints : \E i \in 1 .. Len(SetUps) : SetUps[i] = e
BY ControlAssumption DEF ControlAssumption

LEMMA EndpointSet == Endpoints = {"control"} \cup DataEndpoints
BY DEF Endpoints, Session!Endpoints

-----------------------------------------------------------------------------
(* The stack. *)
LEMMA Pushed ==
  ASSUME NEW s \in Seq(Activations), NEW f \in Activations
  PROVE  /\ Append(s, f) \in Seq(Activations)
         /\ Len(Append(s, f)) = Len(s) + 1
         /\ Append(s, f)[Len(s) + 1] = f
         /\ \A i \in 1 .. Len(s) : Append(s, f)[i] = s[i]
         /\ Append(s, f) # << >>
OBVIOUS

LEMMA Replaced ==
  ASSUME NEW s \in Seq(Activations), s # << >>, NEW f \in Activations,
         NEW t, t = [s EXCEPT ![Len(s)] = f]
  PROVE  /\ t \in Seq(Activations)
         /\ Len(t) = Len(s)
         /\ t[Len(s)] = f
         /\ \A i \in 1 .. Len(s) - 1 : t[i] = s[i]
         /\ t # << >>
OBVIOUS

LEMMA Popped ==
  ASSUME NEW s \in Seq(Activations), s # << >>,
         NEW t, t = SubSeq(s, 1, Len(s) - 1)
  PROVE  /\ t \in Seq(Activations)
         /\ Len(t) = Len(s) - 1
         /\ \A i \in 1 .. Len(s) - 1 : t[i] = s[i]
         /\ t = << >> <=> Len(s) = 1
<1>1. Len(s) \in Nat \ {0} /\ \A i \in 1 .. Len(s) : s[i] \in Activations
  BY EmptySeq
<1> DEFINE n == Len(s) - 1
<1>2. n \in Nat /\ \A i \in 1 .. n : s[i] \in Activations
  BY <1>1
<1>3. t = SubSeq(s, 1, n)
  OBVIOUS
<1> HIDE DEF n
<1>4. /\ t \in Seq(Activations) /\ Len(t) = IF 1 <= n THEN n - 1 + 1 ELSE 0
      /\ \A i \in 1 .. n - 1 + 1 : t[i] = s[1 + i - 1]
  BY <1>2, <1>3, SubSeqProperties
<1>5. Len(t) = n /\ \A i \in 1 .. n : t[i] = s[i]
  BY <1>2, <1>4
<1>6. t = << >> <=> n = 0
  BY <1>4, <1>5, EmptySeq
<1>7. QED BY <1>1, <1>4, <1>5, <1>6 DEF n

LEMMA TopType ==
  ASSUME stack \in Seq(Activations), stack # << >>
  PROVE  Top \in Activations /\ Len(stack) \in Nat \ {0}
BY DEF Top

(***************************************************************************)
(* What a step does to the stack: it pushes an activation, pops one that   *)
(* is at its end, moves the top one on, or leaves the stack alone.         *)
(***************************************************************************)
Push ==
  /\ \E isr \in BOOLEAN : stack' = Append(stack, Activation(isr, selected))
  /\ selected' = "control"
  /\ Len(stack) < MaxNest
  /\ rxstpi' => stack = << >>

Pop == stack # << >> /\ Top.at = "tail" /\ Return

Move ==
  /\ stack # << >> /\ Top.at # "tail"
  /\ \E f \in Activations :
       /\ stack' = [stack EXCEPT ![Len(stack)] = f]
       /\ f.isr = Top.isr /\ f.back = Top.back
       /\ f.at \notin Elsewhere => selected' = selected /\ Top.at \notin Elsewhere
       /\ Configuring(Top) => Configuring(f) \/ BeginEndpoints
       /\ SettingUp(Top) \/ SettingUp(f) => ConfigureEndpoints
  /\ rxstpi' => rxstpi

Keep ==
  /\ stack' = stack
  /\ \/ selected' = selected
     \/ selected' = "control" /\ EndOfReset
     \/ stack = << >> /\ selected' \in DataEndpoints
  /\ \/ rxstpi' = rxstpi
     \/ Len(stack) < MaxNest

LEMMA Actions ==
  [Next]_vars =>
    \/ Attach \/ Detach \/ Suspend \/ Resume \/ WakeUp \/ EndOfReset
    \/ ComInterrupt \/ ReadHeader \/ TestSetup
    \/ BeginPlain \/ BeginSetLine \/ BeginDescriptor \/ BeginGetLine
    \/ BeginGetStatus \/ BeginUnknown
    \/ ReadLineEncoding \/ WriteLineEncoding \/ StreamDescriptor \/ StreamDone
    \/ StatusIn \/ StatusOut \/ EnableAddress \/ ConfigurationState
    \/ BeginEndpoints \/ SelectEndpoint \/ SkipEndpoint \/ WriteEndpoint
    \/ WriteStray \/ EndpointsDone \/ Leave \/ Refuse
    \/ MainSelect \/ MainLeave \/ MainStray \/ DeviceTask
    \/ HostSetup \/ HostTakesIn \/ HostSendsOut
    \/ UNCHANGED vars
BY DEF Next, Cable, Handler, ConfigureEndpoints, MainStep, HostProceeds

LEMMA ActivationType ==
  \A isr \in BOOLEAN, back \in Endpoints : Activation(isr, back) \in Activations
BY SetUpsLength DEF Activation, Activations, Places

(* A step of the top activation to another place. *)
LEMMA GotoMove ==
  ASSUME stack \in Seq(Activations), stack # << >>, NEW p \in Places, Goto(p),
         p = "write" => Top.done < Len(SetUps)
  PROVE  \E f \in Activations :
           /\ stack' = [stack EXCEPT ![Len(stack)] = f]
           /\ f.at = p /\ f.after = Top.after /\ f.done = Top.done
           /\ f.isr = Top.isr /\ f.back = Top.back
<1> DEFINE f == [Top EXCEPT !.at = p]
<1>1. Top \in Activations
  BY TopType
<1>2. /\ f \in Activations /\ f.at = p /\ f.after = Top.after
      /\ f.done = Top.done /\ f.isr = Top.isr /\ f.back = Top.back
  BY <1>1 DEF Activations
<1>3. stack' = [stack EXCEPT ![Len(stack)] = f]
  BY DEF Goto, Top
<1>4. QED BY <1>2, <1>3

(* ... and to the first one of a request. *)
LEMMA BeginMove ==
  ASSUME stack \in Seq(Activations), NEW r, NEW p \in Places \ {"write"},
         Begin(r, p)
  PROVE  \E f \in Activations :
           /\ stack' = [stack EXCEPT ![Len(stack)] = f]
           /\ f.at = p /\ f.after = AfterStatus(r)
           /\ f.isr = Top.isr /\ f.back = Top.back
<1> DEFINE f == [Top EXCEPT !.at = p, !.after = AfterStatus(r)]
<1>1. Top \in Activations /\ stack # << >>
  BY TopType DEF Begin, Running, At
<1>2. AfterStatus(r) \in {"address", "state", "tail"}
  BY DEF AfterStatus
<1>3. /\ f \in Activations /\ f.at = p /\ f.after = AfterStatus(r)
      /\ f.isr = Top.isr /\ f.back = Top.back
  BY <1>1, <1>2 DEF Activations
<1>4. stack' = [stack EXCEPT ![Len(stack)].at = p,
                             ![Len(stack)].after = AfterStatus(r)]
  BY DEF Begin
<1>5. stack' = [stack EXCEPT ![Len(stack)] = f]
  BY <1>1, <1>4 DEF Top
<1>6. QED BY <1>3, <1>5

(* The steps of the top activation that only go to another place. *)
LEMMA GotoStep ==
  ASSUME stack \in Seq(Activations),
         NEW p \in Places, Goto(p), stack # << >>, Top.at # "tail",
         p = "write" => Top.done < Len(SetUps),
         rxstpi' => rxstpi,
         p \notin Elsewhere => UNCHANGED selected /\ Top.at \notin Elsewhere,
         Configuring(Top) => p \in {"state", "endpoints"} \/ BeginEndpoints,
         SettingUp(Top) \/ p \in {"select", "write"} => ConfigureEndpoints
  PROVE  Move
<1>1. PICK f \in Activations :
        /\ stack' = [stack EXCEPT ![Len(stack)] = f]
        /\ f.at = p /\ f.isr = Top.isr /\ f.back = Top.back
  BY GotoMove
<1>2. QED BY <1>1 DEF Move, Configuring, SettingUp

(* The steps of a configuration that count. *)
LEMMA AdvanceMove ==
  ASSUME stack \in Seq(Activations), stack # << >>, Advance,
         Top.done < Len(SetUps)
  PROVE  \E f \in Activations :
           /\ stack' = [stack EXCEPT ![Len(stack)] = f]
           /\ f.at = "select" /\ f.done = Top.done + 1
           /\ f.isr = Top.isr /\ f.back = Top.back
<1> DEFINE f == [Top EXCEPT !.at = "select", !.done = @ + 1]
<1>1. Top \in Activations
  BY TopType
<1>0. Top.done \in 0 .. Len(SetUps)
  BY <1>1 DEF Activations
<1>2. Top.done + 1 \in 0 .. Len(SetUps)
  BY <1>0, SetUpsLength
<1>3. /\ f \in Activations /\ f.at = "select" /\ f.done = Top.done + 1
      /\ f.isr = Top.isr /\ f.back = Top.back
  BY <1>1, <1>2 DEF Activations, Places
<1>4. stack' = [stack EXCEPT ![Len(stack)] = f]
  BY DEF Advance, Top
<1>5. QED BY <1>3, <1>4

LEMMA StartMove ==
  ASSUME stack \in Seq(Activations), BeginEndpoints
  PROVE  \E f \in Activations :
           /\ stack' = [stack EXCEPT ![Len(stack)] = f]
           /\ f.at = "select" /\ f.done = 0
           /\ f.isr = Top.isr /\ f.back = Top.back
<1> DEFINE f == [Top EXCEPT !.at = "select", !.done = 0]
<1>1. Top \in Activations /\ stack # << >>
  BY TopType DEF BeginEndpoints, Running, At
<1>0. 0 \in 0 .. Len(SetUps)
  BY SetUpsLength
<1>2. /\ f \in Activations /\ f.at = "select" /\ f.done = 0
      /\ f.isr = Top.isr /\ f.back = Top.back
  BY <1>0, <1>1 DEF Activations, Places
<1>3. stack' = [stack EXCEPT ![Len(stack)].at = "select", ![Len(stack)].done = 0]
  BY DEF BeginEndpoints
<1>4. stack' = [stack EXCEPT ![Len(stack)] = f]
  BY <1>1, <1>3 DEF Top
<1>5. QED BY <1>2, <1>4

(* Where a configuration is, it has endpoints before it. *)
LEMMA EndpointsLeft ==
  ASSUME stack \in Seq(Activations),
         \/ SelectEndpoint \/ SkipEndpoint \/ WriteEndpoint \/ WriteStray
  PROVE  /\ stack # << >> /\ Top.done < Len(SetUps)
         /\ NextSetUp \in DataEndpoints
         /\ Top.at = IF SelectEndpoint \/ SkipEndpoint THEN "select" ELSE "write"
<1>1. stack # << >> /\ Top.at \in {"select", "write"}
  BY DEF SelectEndpoint, SkipEndpoint, SetUpsLeft, WriteEndpoint, WriteStray,
     Running, At
<1>2. Top.done \in 0 .. Len(SetUps)
  BY <1>1, TopType DEF Activations
<1>3. Top.done < Len(SetUps)
  BY <1>1, TopType DEF SelectEndpoint, SkipEndpoint, SetUpsLeft, WriteEndpoint,
     WriteStray, Running, At, Activations
<1>4. NextSetUp \in DataEndpoints
  <2>1. Top.done + 1 \in 1 .. Len(SetUps)
    BY <1>2, <1>3, SetUpsLength
  <2>2. QED BY <2>1, SetUpsType DEF NextSetUp
<1>5. Top.at = IF SelectEndpoint \/ SkipEndpoint THEN "select" ELSE "write"
  BY DEF SelectEndpoint, SkipEndpoint, SetUpsLeft, WriteEndpoint, WriteStray,
     Running, At
<1>6. QED BY <1>1, <1>3, <1>4, <1>5

LEMMA EndpointStep ==
  ASSUME stack \in Seq(Activations), ConfigureEndpoints
  PROVE  Move
<1>0. stack # << >> /\ Top.at # "tail"
  BY DEF ConfigureEndpoints, BeginEndpoints, SelectEndpoint, SkipEndpoint,
     SetUpsLeft, WriteEndpoint, WriteStray, EndpointsDone, Running, At
<1>7. rxstpi' => rxstpi
  <2>1. CASE WriteStray
    BY <2>1, Zenon DEF WriteStray
  <2>2. CASE ~WriteStray
    <3>1. UNCHANGED irqVars
      BY <2>2, Zenon DEF ConfigureEndpoints, BeginEndpoints, SelectEndpoint,
         SkipEndpoint, WriteEndpoint, EndpointsDone
    <3>2. QED BY <3>1 DEF irqVars
  <2>3. QED BY <2>1, <2>2
<1>1. stack # << >> /\ Top.at # "tail" /\ (rxstpi' => rxstpi)
  BY <1>0, <1>7
<1>2. CASE BeginEndpoints
  BY <1>1, <1>2, StartMove DEF Move, Elsewhere, ConfigureEndpoints
<1>3. CASE SelectEndpoint
  <2>1. Goto("write") /\ Top.done < Len(SetUps) /\ Top.at = "select"
    BY <1>3, EndpointsLeft DEF SelectEndpoint
  <2>2. QED BY <1>1, <2>1, GotoStep DEF Places, Elsewhere, Configuring
<1>4. CASE SkipEndpoint \/ WriteEndpoint \/ WriteStray
  <2>1. Top.done < Len(SetUps) /\ Top.at \in {"select", "write"}
    BY <1>4, EndpointsLeft
  <2>2. CASE Advance
    BY <1>1, <2>1, <2>2, AdvanceMove DEF Move, Elsewhere, Configuring
  <2>3. CASE Goto("tail")
    BY <1>1, <2>1, <2>3, GotoStep DEF Places, Elsewhere, Configuring
  <2>4. QED BY <1>4, <2>2, <2>3 DEF SkipEndpoint, WriteEndpoint, WriteStray
<1>5. CASE EndpointsDone
  BY <1>1, <1>5, GotoStep DEF EndpointsDone, SetUpsLeft, Running, At, Places,
     Elsewhere, Configuring
<1>6. QED BY <1>2, <1>3, <1>4, <1>5 DEF ConfigureEndpoints

LEMMA BeginStep ==
  ASSUME stack \in Seq(Activations), NEW r, NEW p \in Places \ {"select", "write"},
         Begin(r, p)
  PROVE  Move
<1>1. PICK f \in Activations :
        /\ stack' = [stack EXCEPT ![Len(stack)] = f]
        /\ f.at = p /\ f.isr = Top.isr /\ f.back = Top.back
  BY BeginMove
<1>2. /\ stack # << >> /\ Top.at = "begin"
      /\ selected' = selected /\ rxstpi' = rxstpi
  BY DEF Begin, Running, At, irqVars
<1>3. QED BY <1>1, <1>2 DEF Move, Elsewhere, Configuring, SettingUp

LEMMA StackStep ==
  TypeOK /\ DepthInv /\ [Next]_vars => Push \/ Pop \/ Move \/ Keep
<1> SUFFICES ASSUME TypeOK, DepthInv, [Next]_vars
             PROVE  Push \/ Pop \/ Move \/ Keep
  OBVIOUS
<1>0. /\ stack \in Seq(Activations) /\ Len(stack) \in Nat
      /\ rxstpi \in BOOLEAN /\ MaxNest \in Nat /\ MaxNest >= 2
      /\ stack # << >> => Top.after \in {"address", "state", "tail"}
  BY ConstantTypes, TopType DEF TypeOK, Activations
<1>1. CASE ComInterrupt
  BY <1>0, <1>1 DEF ComInterrupt, Pending, DepthInv, SelectControl,
       RequestsOff, Push
<1>2. CASE DeviceTask
  <2>1. stack = << >> /\ Len(stack) = 0 /\ selected' = "control"
        /\ stack' = Append(stack, Activation(FALSE, selected))
    BY <1>2 DEF DeviceTask, SelectControl
  <2>2. \E isr \in BOOLEAN : stack' = Append(stack, Activation(isr, selected))
    BY <2>1, Zenon
  <2>3. Len(stack) < MaxNest
    BY <1>0, <2>1
  <2>4. QED BY <2>1, <2>2, <2>3 DEF Push
<1>3. CASE Leave \/ Refuse
  BY <1>3 DEF Leave, Refuse, Running, At, Pop
<1>4. CASE BeginPlain \/ BeginSetLine \/ BeginDescriptor \/ BeginGetLine
           \/ BeginGetStatus
  BY <1>0, <1>4, BeginStep DEF BeginPlain, BeginSetLine, BeginDescriptor,
       BeginGetLine, BeginGetStatus, Places
<1>5. CASE ReadHeader \/ TestSetup \/ BeginUnknown
  <2>1. PICK p \in Places \ {"select", "write"} : Goto(p)
    BY <1>5 DEF ReadHeader, TestSetup, BeginUnknown, Places
  <2>2. /\ stack # << >> /\ Top.at \in {"header", "test", "begin"}
        /\ selected' = selected /\ rxstpi' = rxstpi
    BY <1>5 DEF ReadHeader, TestSetup, BeginUnknown, Running, At, irqVars
  <2>3. QED BY <1>0, <2>1, <2>2, GotoStep DEF Elsewhere, Configuring, SettingUp
<1>6. CASE ReadLineEncoding \/ WriteLineEncoding \/ StreamDescriptor \/ StreamDone
  <2>1. PICK p \in Places \ {"select", "write"} : Goto(p)
    BY <1>6 DEF ReadLineEncoding, WriteLineEncoding, StreamDescriptor,
         StreamDone, StatusOf, Places
  <2>2. /\ stack # << >> /\ Top.at \in {"data", "answer", "stream", "streamed"}
        /\ selected' = selected /\ rxstpi' = rxstpi
    BY <1>6 DEF ReadLineEncoding, WriteLineEncoding, StreamDescriptor,
         StreamDone, Running, At, irqVars
  <2>3. QED BY <1>0, <2>1, <2>2, GotoStep DEF Elsewhere, Configuring, SettingUp
<1>7. CASE StatusIn \/ StatusOut \/ EnableAddress
  <2>1. /\ stack # << >> /\ Top.at \in {"statusIn", "statusOut", "address"}
        /\ selected' = selected /\ rxstpi' = rxstpi
    BY <1>7 DEF StatusIn, StatusOut, EnableAddress, Running, At, irqVars
  <2>2. Top.at = "address" \/ Goto(Top.after)
    BY <1>7 DEF StatusIn, StatusOut, EnableAddress, Running, At
  <2>3. Top.at = "address" => Goto("tail")
    BY <1>7 DEF StatusIn, StatusOut, EnableAddress, Running, At
  <2>4. PICK p \in Places \ {"select", "write"} :
          Goto(p) /\ (Top.at # "address" => p = Top.after)
    BY <1>0, <2>1, <2>2, <2>3 DEF Places
  <2>5. Configuring(Top) => p \in {"state", "endpoints"}
    BY <2>1, <2>4 DEF Configuring
  <2>6. QED BY <1>0, <2>1, <2>4, <2>5, GotoStep DEF Elsewhere, SettingUp
<1>8. CASE ConfigurationState
  <2>1. /\ stack # << >> /\ Top.at = "state" /\ Goto("endpoints")
        /\ selected' = selected /\ rxstpi' = rxstpi
    BY <1>8 DEF ConfigurationState, Running, At, irqVars
  <2>2. QED BY <1>0, <2>1, GotoStep DEF Places, Elsewhere, SettingUp
<1>9. CASE ConfigureEndpoints
  BY <1>0, <1>9, EndpointStep
<1>10. CASE EndOfReset
  BY <1>10 DEF EndOfReset, Keep
<1>11. CASE MainSelect
  BY <1>11 DEF MainSelect, MainRuns, irqVars, Keep
<1>12. CASE \/ Attach \/ Detach \/ Suspend \/ Resume \/ WakeUp \/ MainLeave
            \/ MainStray \/ HostSetup \/ HostTakesIn \/ HostSendsOut
            \/ UNCHANGED vars
  BY <1>12 DEF Attach, Detach, Suspend, Resume, WakeUp, MainLeave, MainStray,
       HostSetup, HostTakesIn, HostSendsOut, irqVars, vars, Keep
<1>13. QED
  BY Actions, <1>1, <1>2, <1>3, <1>4, <1>5, <1>6, <1>7, <1>8, <1>9, <1>10,
     <1>11, <1>12 DEF ConfigureEndpoints

-----------------------------------------------------------------------------
(* The types, a part at a time. *)
StateType ==
  /\ deviceState \in States /\ configuration \in {0, 1}
  /\ addressed \in BOOLEAN /\ lineEncoding \in BOOLEAN
  /\ enabled \subseteq DataEndpoints

PortType ==
  /\ awaits \in {"suspend", "wakeup"} /\ rxstpi \in BOOLEAN
  /\ ep0 \in BOOLEAN /\ setup \in Requests \cup {NoRequest}
  /\ inBusy \in BOOLEAN /\ outFull \in BOOLEAN
  /\ request \in AllRequests \cup {NoRequest}

StackType ==
  /\ selected \in Endpoints
  /\ stack \in Seq(Activations) /\ Len(stack) <= MaxNest

HostType ==
  /\ routine \in BOOLEAN
  /\ bus \in {"off", "attached", "active", "suspended"}
  /\ transfer \in {"none", "in", "out", "statusIn", "statusOut"}
  /\ abandoned \in 0 .. MaxAbandoned

LEMMA TypeParts == TypeOK <=> StateType /\ PortType /\ StackType /\ HostType
BY DEF TypeOK, StateType, PortType, StackType, HostType

LEMMA InitInv == Init => IInv
<1> SUFFICES ASSUME Init PROVE IInv
  OBVIOUS
<1>1. stack = << >> /\ stack \in Seq(Activations) /\ Len(stack) = 0
  BY DEF Init
<1>2. TypeOK
  <2>1. StateType
    BY DEF Init, StateType, States
  <2>2. PortType
    BY DEF Init, PortType
  <2>3. StackType
    BY <1>1, ConstantTypes, EndpointSet DEF Init, StackType
  <2>4. HostType
    <3>1. abandoned \in 0 .. MaxAbandoned
      BY ConstantTypes DEF Init
    <3>2. QED BY <3>1 DEF Init, HostType
  <2>5. QED BY <2>1, <2>2, <2>3, <2>4, TypeParts
<1>3. QED
  BY <1>1, <1>2 DEF Init, IInv, DepthInv, HandlerOnControl, BackInv, ConfInv

LEMMA StateTypeStep == StateType /\ StackType /\ [Next]_vars => StateType'
<1> SUFFICES ASSUME StateType, StackType, [Next]_vars PROVE StateType'
  OBVIOUS
<1> USE DEF StateType, States
<1>1. CASE Attach \/ Detach \/ Suspend \/ WakeUp \/ EndOfReset
  BY <1>1 DEF Attach, Detach, Suspend, WakeUp, EndOfReset, ClearNumber
<1>2. CASE BeginPlain \/ ReadLineEncoding \/ EnableAddress
           \/ ConfigurationState \/ BeginEndpoints \/ SelectEndpoint
  BY <1>2 DEF BeginPlain, Begin, ReadLineEncoding, EnableAddress,
       ConfigurationState, BeginEndpoints, SelectEndpoint
<1>5. CASE WriteEndpoint
  <2>1. selected \in DataEndpoints
    BY <1>5, EndpointSet DEF WriteEndpoint, StackType
  <2>2. QED BY <1>5, <2>1 DEF WriteEndpoint
<1>3. CASE UNCHANGED stateVars
  BY <1>3 DEF stateVars
<1>4. QED
  BY Actions, <1>1, <1>2, <1>3, <1>5 DEF SkipEndpoint, WriteStray, EndpointsDone, Resume, ComInterrupt, ReadHeader, TestSetup,
       BeginSetLine, BeginDescriptor, BeginGetLine, BeginGetStatus, BeginUnknown,
       Begin, WriteLineEncoding, StreamDescriptor, StreamDone, StatusIn,
       StatusOut, Leave, Refuse, MainSelect, MainLeave, MainStray, DeviceTask,
       HostSetup, HostTakesIn, HostSendsOut, vars, stateVars

LEMMA PortTypeStep == PortType /\ StackType /\ [Next]_vars => PortType'
<1> SUFFICES ASSUME PortType, StackType, [Next]_vars PROVE PortType'
  OBVIOUS
<1> USE ConstantTypes DEF PortType
<1>1. CASE Attach \/ Detach \/ Suspend \/ Resume \/ WakeUp \/ EndOfReset
  BY <1>1 DEF Attach, Detach, Suspend, Resume, WakeUp, EndOfReset, irqVars, epVars
<1>2. CASE ComInterrupt \/ ReadHeader \/ TestSetup \/ BeginUnknown
  BY <1>2 DEF ComInterrupt, RequestsOff, ReadHeader, TestSetup, BeginUnknown,
       AllRequests, NoRequest, irqVars, epVars
<1>3. CASE BeginPlain \/ BeginSetLine \/ BeginDescriptor \/ BeginGetLine
           \/ BeginGetStatus
  BY <1>3 DEF BeginPlain, BeginSetLine, BeginDescriptor, BeginGetLine,
       BeginGetStatus, Begin, irqVars
<1>4. CASE ReadLineEncoding \/ WriteLineEncoding \/ StreamDescriptor
           \/ StreamDone \/ StatusIn \/ StatusOut
  BY <1>4 DEF ReadLineEncoding, WriteLineEncoding, StreamDescriptor, StreamDone,
       StatusIn, StatusOut, irqVars
<1>5. CASE \/ EnableAddress \/ ConfigurationState \/ BeginEndpoints
           \/ SelectEndpoint \/ SkipEndpoint \/ WriteEndpoint \/ EndpointsDone
  BY <1>5 DEF EnableAddress, ConfigurationState, BeginEndpoints, SelectEndpoint,
       SkipEndpoint, WriteEndpoint, EndpointsDone, irqVars, epVars
<1>11. CASE WriteStray
  BY <1>11 DEF WriteStray
<1>6. CASE Leave \/ Refuse
  <2>1. Top.isr \in BOOLEAN
    BY <1>6, TopType DEF Leave, Refuse, Running, At, StackType, Activations
  <2>2. QED BY <1>6, <2>1 DEF Leave, Refuse, Return, epVars
<1>7. CASE MainSelect \/ MainLeave \/ MainStray \/ DeviceTask
  BY <1>7 DEF MainSelect, MainLeave, MainStray, DeviceTask, irqVars, epVars
<1>8. CASE HostSetup \/ HostTakesIn \/ HostSendsOut
  BY <1>8 DEF HostSetup, HostTakesIn, HostSendsOut, irqVars
<1>9. CASE UNCHANGED vars
  BY <1>9 DEF vars, irqVars, epVars
<1>10. QED
  BY Actions, <1>1, <1>2, <1>3, <1>4, <1>5, <1>6, <1>7, <1>8, <1>9, <1>11

LEMMA HostTypeStep == HostType /\ [Next]_vars => HostType'
<1> SUFFICES ASSUME HostType, [Next]_vars PROVE HostType'
  OBVIOUS
<1> USE DEF HostType
<1>1. \A b : BreakOff(b) => abandoned' \in 0 .. MaxAbandoned
  BY ConstantTypes DEF BreakOff
<1>2. CASE Attach \/ Detach \/ Suspend \/ Resume \/ EndOfReset
  BY <1>1, <1>2 DEF Attach, Detach, Suspend, Resume, EndOfReset
<1>3. CASE HostSetup \/ HostTakesIn \/ HostSendsOut
  BY <1>1, <1>3 DEF HostSetup, HostTakesIn, HostSendsOut, FirstStage
<1>4. CASE MainSelect \/ MainLeave \/ Refuse
  BY <1>4 DEF MainSelect, MainLeave, Refuse, hostVars
<1>5. CASE UNCHANGED <<hostVars, routine>>
  BY <1>5 DEF hostVars
<1>6. QED
  BY Actions, <1>2, <1>3, <1>4, <1>5 DEF WakeUp, ComInterrupt, ReadHeader,
       TestSetup, BeginPlain, BeginSetLine, BeginDescriptor, BeginGetLine,
       BeginGetStatus, BeginUnknown, Begin, ReadLineEncoding, WriteLineEncoding,
       StreamDescriptor, StreamDone, StatusIn, StatusOut, EnableAddress,
       ConfigurationState, BeginEndpoints, SelectEndpoint,
       SkipEndpoint, WriteEndpoint, WriteStray, EndpointsDone, Leave, MainStray, DeviceTask, vars,
       hostVars

-----------------------------------------------------------------------------
(* The stack's part of the invariant, by what the step does to the stack. *)
StackInv == StackType /\ DepthInv /\ HandlerOnControl /\ BackInv

LEMMA PushStep == StackInv /\ Push => StackInv'
<1> SUFFICES ASSUME StackInv, Push PROVE StackInv'
  OBVIOUS
<1> USE DEF StackInv, StackType
<1>1. PICK isr \in BOOLEAN : stack' = Append(stack, Activation(isr, selected))
  BY DEF Push
<1> DEFINE f == Activation(isr, selected)
<1>2. f \in Activations /\ f.at = "header" /\ f.back = selected
  BY ActivationType DEF Activation
<1> HIDE DEF f
<1>3. /\ stack' \in Seq(Activations) /\ stack' # << >>
      /\ Len(stack') = Len(stack) + 1
      /\ stack'[Len(stack) + 1] = f
      /\ \A i \in 1 .. Len(stack) : stack'[i] = stack[i]
  BY <1>1, <1>2, Pushed DEF f
<1>4. Len(stack) \in Nat /\ Len(stack) < MaxNest /\ selected' = "control"
  BY DEF Push
<1>5. StackType'
  BY <1>3, <1>4, ConstantTypes, EndpointSet
<1>6. DepthInv'
  <2>1. rxstpi' => Len(stack) = 0
    BY DEF Push
  <2>2. QED BY <1>3, <2>1, ConstantTypes DEF DepthInv
<1>7. HandlerOnControl'
  BY <1>4 DEF HandlerOnControl
<1>8. BackInv'
  <2> SUFFICES ASSUME NEW i \in 2 .. Len(stack) + 1, stack'[i - 1].at \notin Elsewhere
               PROVE  stack'[i].back = "control"
    BY <1>3 DEF BackInv
  <2>1. i - 1 \in 1 .. Len(stack) /\ stack'[i - 1] = stack[i - 1]
    BY <1>3, <1>4
  <2>2. CASE i \in 2 .. Len(stack)
    BY <1>3, <1>4, <2>1, <2>2 DEF BackInv
  <2>3. CASE i = Len(stack) + 1
    <3>1. stack # << >> /\ Top.at \notin Elsewhere
      BY <1>4, <2>1, <2>3 DEF Top
    <3>2. QED BY <1>2, <1>3, <2>3, <3>1 DEF HandlerOnControl
  <2>4. QED BY <1>4, <2>2, <2>3
<1>9. QED BY <1>5, <1>6, <1>7, <1>8

LEMMA PopStep == StackInv /\ Pop => StackInv'
<1> SUFFICES ASSUME StackInv, Pop PROVE StackInv'
  OBVIOUS
<1>1. /\ StackType /\ DepthInv /\ BackInv
      /\ stack \in Seq(Activations) /\ Len(stack) <= MaxNest
      /\ stack # << >> /\ stack' = SubSeq(stack, 1, Len(stack) - 1)
      /\ selected' = stack[Len(stack)].back
  BY DEF StackInv, StackType, Pop, Return, Restored, Top
<1>2. PICK n \in Nat \ {0} : n = Len(stack)
  BY <1>1, TopType
<1>3. /\ stack' \in Seq(Activations) /\ Len(stack') = n - 1
      /\ \A i \in 1 .. n - 1 : stack'[i] = stack[i]
      /\ stack' = << >> <=> n = 1
  BY <1>1, <1>2, Popped, Zenon
<1>4. StackType'
  <2>1. stack[n].back \in Endpoints
    BY <1>1, <1>2, TopType DEF Top, Activations
  <2>2. QED BY <1>1, <1>2, <1>3, <2>1, ConstantTypes DEF StackType
<1>5. DepthInv'
  BY <1>1, <1>2, <1>3, ConstantTypes DEF DepthInv
<1>6. HandlerOnControl'
  <2>1. CASE n = 1
    BY <1>3, <2>1 DEF HandlerOnControl
  <2>2. CASE n # 1
    <3>1. n \in 2 .. n /\ n - 1 \in 1 .. n - 1
      BY <2>2
    <3>2. stack'[n - 1].at \notin Elsewhere => stack[n].back = "control"
      BY <1>1, <1>2, <1>3, <3>1 DEF BackInv
    <3>3. QED BY <1>1, <1>2, <1>3, <3>2 DEF HandlerOnControl, Top
  <2>3. QED BY <2>1, <2>2
<1>7. BackInv'
  <2> SUFFICES ASSUME NEW i \in 2 .. n - 1, stack'[i - 1].at \notin Elsewhere
               PROVE  stack'[i].back = "control"
    BY <1>3 DEF BackInv
  <2>1. i \in 1 .. n - 1 /\ i - 1 \in 1 .. n - 1 /\ i \in 2 .. n
    BY <1>2
  <2>2. QED BY <1>1, <1>2, <1>3, <2>1 DEF BackInv
<1>8. QED BY <1>4, <1>5, <1>6, <1>7 DEF StackInv

LEMMA MoveStep == StackInv /\ selected' \in Endpoints /\ Move => StackInv'
<1> SUFFICES ASSUME StackInv, selected' \in Endpoints, Move PROVE StackInv'
  OBVIOUS
<1> USE DEF StackInv, StackType
<1>1. PICK f \in Activations :
        /\ stack' = [stack EXCEPT ![Len(stack)] = f]
        /\ f.back = Top.back
        /\ f.at \notin Elsewhere => selected' = selected /\ Top.at \notin Elsewhere
  BY DEF Move
<1>2. stack # << >> /\ Top.at # "tail" /\ Len(stack) \in Nat \ {0}
  BY TopType DEF Move
<1>3. /\ stack' \in Seq(Activations) /\ Len(stack') = Len(stack)
      /\ stack'[Len(stack)] = f /\ stack' # << >>
      /\ \A i \in 1 .. Len(stack) - 1 : stack'[i] = stack[i]
  BY <1>1, <1>2, Replaced
<1>4. StackType'
  BY <1>3
<1>5. DepthInv'
  <2>1. rxstpi' => rxstpi
    BY DEF Move
  <2>2. QED BY <1>3, <2>1 DEF DepthInv
<1>6. HandlerOnControl'
  <2>1. f.at \notin Elsewhere => selected' = "control"
    BY <1>1, <1>2 DEF HandlerOnControl
  <2>2. QED BY <1>3, <2>1 DEF HandlerOnControl, Top
<1>7. BackInv'
  <2> SUFFICES ASSUME NEW i \in 2 .. Len(stack), stack'[i - 1].at \notin Elsewhere
               PROVE  stack'[i].back = "control"
    BY <1>3 DEF BackInv
  <2>1. i - 1 \in 1 .. Len(stack) - 1 /\ stack'[i - 1] = stack[i - 1]
    BY <1>2, <1>3
  <2>2. stack[i].back = "control"
    BY <2>1 DEF BackInv
  <2>3. stack'[i].back = stack[i].back
    <3>1. CASE i = Len(stack)
      <4>1. stack'[i] = f /\ f.back = stack[i].back
        BY <1>1, <1>3, <3>1, Zenon DEF Top
      <4>2. QED BY <4>1
    <3>2. CASE i \in 1 .. Len(stack) - 1
      BY <1>3, <3>2
    <3>3. QED BY <1>2, <3>1, <3>2
  <2>4. QED BY <2>2, <2>3
<1>8. QED BY <1>4, <1>5, <1>6, <1>7

LEMMA KeepStep == StackInv /\ Keep => StackInv'
BY EndpointSet DEF StackInv, StackType, DepthInv, HandlerOnControl, BackInv, Keep, Top,
   EndOfReset

LEMMA SelectionType == StackType /\ [Next]_vars => selected' \in Endpoints
<1> SUFFICES ASSUME StackType, [Next]_vars PROVE selected' \in Endpoints
  OBVIOUS
<1> USE EndpointSet DEF StackType
<1>1. CASE Leave \/ Refuse
  BY <1>1, TopType DEF Leave, Refuse, Running, At, Return, Restored, Activations
<1>2. CASE EndOfReset \/ ComInterrupt \/ DeviceTask \/ MainSelect
           \/ EndpointsDone
  BY <1>2 DEF EndOfReset, ComInterrupt, DeviceTask, SelectControl, MainSelect,
       EndpointsDone
<1>5. CASE SelectEndpoint \/ SkipEndpoint
  BY <1>5, EndpointsLeft DEF SelectEndpoint, SkipEndpoint
<1>3. CASE UNCHANGED selected
  BY <1>3
<1>4. QED
  BY Actions, <1>1, <1>2, <1>3, <1>5 DEF BeginEndpoints, WriteEndpoint, WriteStray,
       Attach, Detach, Suspend, Resume, WakeUp,
       ReadHeader, TestSetup, BeginPlain, BeginSetLine, BeginDescriptor,
       BeginGetLine, BeginGetStatus, BeginUnknown, Begin, ReadLineEncoding,
       WriteLineEncoding, StreamDescriptor, StreamDone, StatusIn, StatusOut,
       EnableAddress, ConfigurationState, MainLeave, MainStray, HostSetup,
       HostTakesIn, HostSendsOut, vars

LEMMA StackInvStep == TypeOK /\ StackInv /\ [Next]_vars => StackInv'
BY StackStep, SelectionType, PushStep, PopStep, MoveStep, KeepStep DEF StackInv

-----------------------------------------------------------------------------
(* The configuration's part: an activation that is to set the endpoints up *)
(* stays on the stack until it begins to, ...                              *)
LEMMA Inserted ==
  ASSUME stack \in Seq(Activations), stack # << >>, NEW f \in Activations,
         Configuring(f), stack' = [stack EXCEPT ![Len(stack)] = f]
  PROVE  Configures'
<1>1. Len(stack') = Len(stack) /\ stack'[Len(stack)] = f
  BY Replaced
<1>2. Len(stack) \in 1 .. Len(stack)
  BY TopType
<1>3. PICK n : n = Len(stack) /\ n \in 1 .. n
  BY <1>2
<1>4. n \in 1 .. Len(stack') /\ Configuring(stack'[n])
  BY <1>1, <1>3, Zenon
<1>5. QED BY <1>4, Zenon DEF Configures

LEMMA ConfiguresStays ==
  TypeOK /\ (Push \/ Pop \/ Move \/ Keep) /\ Configures =>
    Configures' \/ BeginEndpoints
<1> SUFFICES ASSUME TypeOK, Push \/ Pop \/ Move \/ Keep, Configures
             PROVE  Configures' \/ BeginEndpoints
  OBVIOUS
<1>0. stack \in Seq(Activations)
  BY DEF TypeOK
<1>1. PICK i \in 1 .. Len(stack) : Configuring(stack[i])
  BY DEF Configures
<1>2. stack # << >> /\ Len(stack) \in Nat \ {0}
  BY <1>0, <1>1
<1>3. CASE Push
  <2>1. PICK isr \in BOOLEAN : stack' = Append(stack, Activation(isr, selected))
    BY <1>3 DEF Push
  <2>2. Activation(isr, selected) \in Activations
    BY ActivationType DEF TypeOK
  <2>3. Len(stack') = Len(stack) + 1 /\ stack'[i] = stack[i]
    BY <1>0, <1>1, <2>1, <2>2, Pushed
  <2>4. i \in 1 .. Len(stack')
    BY <1>1, <1>2, <2>3
  <2>5. QED BY <1>1, <2>3, <2>4 DEF Configures
<1>4. CASE Pop
  <2>1. Top.at = "tail" /\ stack' = SubSeq(stack, 1, Len(stack) - 1)
    BY <1>4 DEF Pop, Return
  <2>2. i # Len(stack)
    BY <1>1, <2>1 DEF Top, Configuring
  <2>3. i \in 1 .. Len(stack) - 1
    BY <1>1, <1>2, <2>2
  <2>4. Len(stack') = Len(stack) - 1 /\ stack'[i] = stack[i]
    <3>1. /\ Len(stack') = Len(stack) - 1
          /\ \A j \in 1 .. Len(stack) - 1 : stack'[j] = stack[j]
      BY <1>0, <1>2, <2>1, Popped, Zenon
    <3>2. QED BY <2>3, <3>1
  <2>5. QED BY <1>1, <2>3, <2>4 DEF Configures
<1>5. CASE Move
  <2>1. PICK f \in Activations :
          /\ stack' = [stack EXCEPT ![Len(stack)] = f]
          /\ Configuring(Top) => Configuring(f) \/ BeginEndpoints
    BY <1>5 DEF Move
  <2>2. /\ Len(stack') = Len(stack) /\ stack'[Len(stack)] = f
        /\ \A j \in 1 .. Len(stack) - 1 : stack'[j] = stack[j]
    BY <1>0, <1>2, <2>1, Replaced
  <2>3. CASE i = Len(stack)
    <3>1. Configuring(f) \/ BeginEndpoints
      BY <1>1, <2>1, <2>3 DEF Top
    <3>2. QED BY <1>0, <1>2, <2>1, <3>1, Inserted
  <2>4. CASE i \in 1 .. Len(stack) - 1
    BY <1>1, <2>2, <2>4 DEF Configures
  <2>5. QED BY <1>2, <2>3, <2>4
<1>6. CASE Keep
  BY <1>1, <1>6 DEF Keep, Configures
<1>7. QED BY <1>3, <1>4, <1>5, <1>6

(* ... and then on course, ... *)
LEMMA Continued ==
  ASSUME stack \in Seq(Activations), stack # << >>, NEW f \in Activations,
         stack' = [stack EXCEPT ![Len(stack)] = f], SettingUp(f),
         f.at = "write" => selected' = SetUps[f.done + 1],
         DataEndpoints \subseteq enabled' \cup Ahead(f)
  PROVE  Underway'
<1>1. PICK n \in Nat \ {0} : n = Len(stack)
  BY TopType
<1>2. Len(stack') = n /\ stack'[n] = f
  BY <1>1, Replaced
<1>3. n \in 1 .. n /\ \A m \in n + 1 .. n : FALSE
  OBVIOUS
<1>4. OnCourse(n)'
  BY <1>2, <1>3 DEF OnCourse, Chosen, Ahead
<1>5. QED BY <1>2, <1>3, <1>4 DEF Underway

LEMMA Started ==
  TypeOK /\ BeginEndpoints => Underway'
<1> SUFFICES ASSUME TypeOK, BeginEndpoints PROVE Underway'
  OBVIOUS
<1>1. stack \in Seq(Activations) /\ stack # << >>
  BY DEF TypeOK, BeginEndpoints, Running, At
<1>2. PICK f \in Activations :
        /\ stack' = [stack EXCEPT ![Len(stack)] = f]
        /\ f.at = "select" /\ f.done = 0
  BY <1>1, StartMove
<1>3. DataEndpoints \subseteq Ahead(f)
  BY <1>2, SetUpsType DEF Ahead
<1>4. QED BY <1>1, <1>2, <1>3, Continued DEF SettingUp

(* ... an endpoint at a time: ... *)
LEMMA SelectedOn ==
  ASSUME TypeOK, SelectEndpoint, DataEndpoints \subseteq enabled \cup Ahead(Top)
  PROVE  Underway'
<1>0. stack \in Seq(Activations)
  BY DEF TypeOK
<1>1. stack # << >> /\ Top.done < Len(SetUps) /\ Goto("write")
  BY <1>0, EndpointsLeft DEF SelectEndpoint
<1>2. PICK f \in Activations :
        /\ stack' = [stack EXCEPT ![Len(stack)] = f]
        /\ f.at = "write" /\ f.done = Top.done
  BY <1>0, <1>1, GotoMove DEF Places
<1>3. /\ selected' = SetUps[f.done + 1]
      /\ enabled' = enabled \ {SetUps[f.done + 1]}
  BY <1>2 DEF SelectEndpoint, NextSetUp
<1>4. f.done + 1 \in f.done + 1 .. Len(SetUps)
  BY <1>1, <1>2, SetUpsLength DEF Activations
<1>5. SetUps[f.done + 1] \in Ahead(f) /\ Ahead(f) = Ahead(Top)
  BY <1>2, <1>4 DEF Ahead
<1>6. DataEndpoints \subseteq enabled' \cup Ahead(f)
  BY <1>3, <1>5
<1>7. QED BY <1>0, <1>1, <1>2, <1>3, <1>6, Continued DEF SettingUp

LEMMA SplitAhead ==
  ASSUME NEW f \in Activations, f.done < Len(SetUps), NEW g \in Activations,
         g.done = f.done + 1
  PROVE  Ahead(f) = {SetUps[f.done + 1]} \cup Ahead(g)
<1>1. f.done + 1 .. Len(SetUps) = {f.done + 1} \cup g.done + 1 .. Len(SetUps)
  BY SetUpsLength DEF Activations
<1>2. QED BY <1>1 DEF Ahead

LEMMA SkippedOn ==
  ASSUME TypeOK, SkipEndpoint, DataEndpoints \subseteq enabled \cup Ahead(Top)
  PROVE  Underway'
<1>0. stack \in Seq(Activations)
  BY DEF TypeOK
<1>1. stack # << >> /\ Top.done < Len(SetUps) /\ Advance /\ Top \in Activations
  BY <1>0, EndpointsLeft, TopType DEF SkipEndpoint
<1>2. PICK f \in Activations :
        /\ stack' = [stack EXCEPT ![Len(stack)] = f]
        /\ f.at = "select" /\ f.done = Top.done + 1
  BY <1>0, <1>1, AdvanceMove
<1>3. enabled' = enabled
  BY DEF SkipEndpoint, stateVars
<1>4. SetUps[Top.done + 1] \in Ahead(f)
  <2>1. PICK i \in Top.done + 2 .. Len(SetUps) : SetUps[i] = SetUps[Top.done + 1]
    BY DEF SkipEndpoint, NextSetUp
  <2>2. i \in f.done + 1 .. Len(SetUps)
    BY <1>1, <1>2, SetUpsLength DEF Activations
  <2>3. QED BY <2>1, <2>2 DEF Ahead
<1>5. DataEndpoints \subseteq enabled' \cup Ahead(f)
  BY <1>1, <1>2, <1>3, <1>4, SplitAhead
<1>6. QED BY <1>0, <1>1, <1>2, <1>5, Continued DEF SettingUp

LEMMA WrittenOn ==
  ASSUME TypeOK, WriteEndpoint, DataEndpoints \subseteq enabled \cup Ahead(Top),
         selected = SetUps[Top.done + 1]
  PROVE  Underway'
<1>0. stack \in Seq(Activations)
  BY DEF TypeOK
<1>1. stack # << >> /\ Top.done < Len(SetUps) /\ Advance /\ Top \in Activations
  BY <1>0, EndpointsLeft, TopType DEF WriteEndpoint
<1>2. PICK f \in Activations :
        /\ stack' = [stack EXCEPT ![Len(stack)] = f]
        /\ f.at = "select" /\ f.done = Top.done + 1
  BY <1>0, <1>1, AdvanceMove
<1>3. DataEndpoints \subseteq enabled' \cup Ahead(f)
  BY <1>1, <1>2, SplitAhead DEF WriteEndpoint
<1>4. QED BY <1>0, <1>1, <1>2, <1>3, Continued DEF SettingUp

(* ... and when no more are left, all are there. *)
LEMMA TopOnCourse ==
  ASSUME TypeOK, ConfigureEndpoints, ~BeginEndpoints, enabled = DataEndpoints \/ Underway
  PROVE  enabled' = DataEndpoints \/ Underway'
<1>0. /\ stack \in Seq(Activations) /\ enabled \subseteq DataEndpoints
      /\ selected \in Endpoints
  BY DEF TypeOK
<1>1. /\ stack # << >> /\ SettingUp(Top)
      /\ WriteEndpoint \/ WriteStray => Top.at = "write"
  BY DEF ConfigureEndpoints, SelectEndpoint, SkipEndpoint, SetUpsLeft,
     WriteEndpoint, WriteStray, EndpointsDone, Running, At, SettingUp
<1>2. PICK n \in Nat \ {0} : n = Len(stack)
  BY <1>0, <1>1, TopType
<1>3. ASSUME enabled # DataEndpoints
      PROVE  /\ DataEndpoints \subseteq enabled \cup Ahead(Top)
             /\ Top.at = "write" => selected = SetUps[Top.done + 1]
  <2>1. PICK i \in 1 .. n : OnCourse(i)
    BY <1>2, <1>3 DEF Underway
  <2>2. i = n
    <3>1. i # n => n \in i + 1 .. n
      OBVIOUS
    <3>2. QED BY <1>1, <1>2, <2>1, <3>1 DEF OnCourse, Top
  <2>3. QED BY <1>2, <2>1, <2>2 DEF OnCourse, Chosen, Top
<1>4. DataEndpoints \subseteq enabled \cup Ahead(Top)
  BY <1>3
<1>5. CASE SelectEndpoint
  BY <1>4, <1>5, SelectedOn
<1>6. CASE SkipEndpoint
  BY <1>4, <1>6, SkippedOn
<1>7. CASE WriteEndpoint
  <2>1. CASE enabled = DataEndpoints
    BY <1>0, <1>7, <2>1, EndpointSet DEF WriteEndpoint
  <2>2. CASE enabled # DataEndpoints
    BY <1>1, <1>3, <1>7, <2>2, WrittenOn
  <2>3. QED BY <2>1, <2>2
<1>8. CASE WriteStray
  <2>1. NextSetUp \in DataEndpoints /\ selected = "control" /\ enabled' = enabled
    BY <1>0, <1>8, EndpointsLeft DEF WriteStray, stateVars
  <2>2. enabled = DataEndpoints
    BY <1>1, <1>3, <1>8, <2>1, ConstantTypes DEF NextSetUp
  <2>3. QED BY <2>1, <2>2
<1>9. CASE EndpointsDone
  <2>1. Top.done = Len(SetUps) /\ enabled' = enabled
    BY <1>9 DEF EndpointsDone, stateVars
  <2>2. Ahead(Top) = {}
    BY <2>1, SetUpsLength DEF Ahead
  <2>3. QED BY <1>0, <1>4, <2>1, <2>2
<1>10. QED BY <1>5, <1>6, <1>7, <1>8, <1>9 DEF ConfigureEndpoints

(* An activation that runs above one on course leaves it there. *)
LEMMA UnderwayStays ==
  ASSUME TypeOK, Push \/ Pop \/ Move \/ Keep, Underway, ~EndOfReset,
         ~ConfigureEndpoints, UNCHANGED enabled
  PROVE  Underway'
<1>0. stack \in Seq(Activations)
  BY DEF TypeOK
<1>1. PICK i \in 1 .. Len(stack) : OnCourse(i)
  BY DEF Underway
<1>2. PICK n \in Nat \ {0} : n = Len(stack)
  BY <1>0, <1>1
<1>3. stack # << >>
  BY <1>2
<1>4. CASE Push
  <2>1. PICK isr \in BOOLEAN : stack' = Append(stack, Activation(isr, selected))
    BY <1>4 DEF Push
  <2> DEFINE f == Activation(isr, selected)
  <2>2. f \in Activations /\ f.back = selected /\ ~SettingUp(f)
    BY ActivationType DEF TypeOK, Activation, SettingUp
  <2>3. stack' = Append(stack, f)
    BY <2>1
  <2> HIDE DEF f
  <2>4. /\ Len(stack') = n + 1 /\ stack'[n + 1] = f
        /\ \A j \in 1 .. n : stack'[j] = stack[j]
    BY <1>0, <1>2, <2>2, <2>3, Pushed
  <2>5. stack'[i] = stack[i] /\ Chosen(i)' = Chosen(i)
    <3>1. i = n \/ i + 1 \in 1 .. n
      BY <1>2
    <3>2. QED BY <1>2, <2>2, <2>4, <3>1 DEF Chosen
  <2>6. \A m \in i + 1 .. n + 1 : ~SettingUp(stack'[m])
    <3> SUFFICES ASSUME NEW m \in i + 1 .. n + 1 PROVE ~SettingUp(stack'[m])
      OBVIOUS
    <3>1. CASE m = n + 1
      BY <2>2, <2>4, <3>1
    <3>2. CASE m \in i + 1 .. n
      BY <1>1, <1>2, <2>4, <3>2 DEF OnCourse
    <3>3. QED BY <1>2, <3>1, <3>2
  <2>7. OnCourse(i)'
    BY <1>1, <2>4, <2>5, <2>6 DEF OnCourse, Ahead
  <2>8. QED BY <1>2, <2>4, <2>7 DEF Underway
<1>5. CASE Pop
  <2>1. /\ Top.at = "tail" /\ stack' = SubSeq(stack, 1, Len(stack) - 1)
        /\ selected' = Top.back
    BY <1>5 DEF Pop, Return, Restored
  <2>2. i # n
    BY <1>1, <1>2, <2>1 DEF Top, OnCourse, SettingUp
  <2>3. i \in 1 .. n - 1
    BY <1>1, <1>2, <2>2
  <2>4. Len(stack') = n - 1 /\ \A j \in 1 .. n - 1 : stack'[j] = stack[j]
    BY <1>0, <1>2, <1>3, <2>1, Popped, Zenon
  <2>5. stack'[i] = stack[i] /\ Chosen(i)' = Chosen(i)
    <3>1. i = n - 1 \/ i + 1 \in 1 .. n - 1
      BY <2>3
    <3>2. QED BY <1>2, <2>1, <2>3, <2>4, <3>1 DEF Chosen, Top
  <2>6. \A m \in i + 1 .. n - 1 : ~SettingUp(stack'[m])
    <3> SUFFICES ASSUME NEW m \in i + 1 .. n - 1 PROVE ~SettingUp(stack'[m])
      OBVIOUS
    <3>1. m \in 1 .. n - 1 /\ m \in i + 1 .. n
      BY <1>2, <2>3
    <3>2. QED BY <1>1, <1>2, <2>4, <3>1 DEF OnCourse
  <2>7. OnCourse(i)'
    BY <1>1, <2>4, <2>5, <2>6 DEF OnCourse, Ahead
  <2>8. QED BY <2>3, <2>4, <2>7 DEF Underway
<1>6. CASE Move
  <2>1. PICK f \in Activations :
          /\ stack' = [stack EXCEPT ![Len(stack)] = f] /\ f.back = Top.back
          /\ ~SettingUp(Top) /\ ~SettingUp(f)
    BY <1>6 DEF Move
  <2>2. ~SettingUp(Top) /\ ~SettingUp(f)
    BY <2>1
  <2>3. /\ Len(stack') = n /\ stack'[n] = f
        /\ \A j \in 1 .. n - 1 : stack'[j] = stack[j]
    BY <1>0, <1>2, <1>3, <2>1, Replaced
  <2>4. i \in 1 .. n - 1
    BY <1>1, <1>2, <2>2 DEF OnCourse, Top
  <2>5. stack'[i] = stack[i] /\ Chosen(i)' = Chosen(i)
    <3>1. i + 1 = n \/ i + 1 \in 1 .. n - 1
      BY <2>4
    <3>2. stack'[i + 1].back = stack[i + 1].back
      BY <1>2, <2>1, <2>3, <3>1 DEF Top
    <3>3. QED BY <1>2, <2>3, <2>4, <3>2 DEF Chosen
  <2>6. \A m \in i + 1 .. n : ~SettingUp(stack'[m])
    <3> SUFFICES ASSUME NEW m \in i + 1 .. n PROVE ~SettingUp(stack'[m])
      OBVIOUS
    <3>1. CASE m = n
      BY <2>2, <2>3, <3>1
    <3>2. CASE m \in i + 1 .. n - 1
      BY <1>1, <1>2, <2>3, <3>2 DEF OnCourse
    <3>3. QED BY <1>2, <3>1, <3>2
  <2>7. OnCourse(i)'
    BY <1>1, <2>3, <2>5, <2>6 DEF OnCourse, Ahead
  <2>8. QED BY <1>1, <1>2, <2>3, <2>7 DEF Underway
<1>7. CASE Keep
  <2>1. stack' = stack /\ selected' = selected
    BY <1>3, <1>7 DEF Keep
  <2>2. OnCourse(i)'
    BY <1>1, <2>1 DEF OnCourse, Chosen, Ahead
  <2>3. QED BY <2>1, <2>2 DEF Underway
<1>8. QED BY <1>4, <1>5, <1>6, <1>7

LEMMA ConfInvStep == TypeOK /\ DepthInv /\ ConfInv /\ [Next]_vars => ConfInv'
<1> DEFINE Numbered == configuration # 0 \/ deviceState = "Configured"
<1> SUFFICES ASSUME TypeOK, DepthInv, ConfInv, [Next]_vars, Numbered'
             PROVE  (enabled = DataEndpoints \/ Configures \/ Underway)'
  BY DEF ConfInv
<1>0. /\ stack \in Seq(Activations)
      /\ Push \/ Pop \/ Move \/ Keep
  BY StackStep DEF TypeOK
<1>1. CASE BeginPlain /\ configuration' # configuration
  <2>1. PICK r \in PlainRequests :
          Begin(r, "statusIn") /\ AfterStatus(r) = "state"
    BY <1>1 DEF BeginPlain, AfterStatus
  <2>2. PICK f \in Activations :
          /\ stack' = [stack EXCEPT ![Len(stack)] = f]
          /\ f.at = "statusIn" /\ f.after = "state"
    BY <1>0, <2>1, BeginMove DEF Places
  <2>3. QED BY <1>0, <2>1, <2>2, Inserted DEF Configuring, Begin, Running, At
<1>2. CASE ConfigurationState
  <2>1. stack # << >> /\ Goto("endpoints")
    BY <1>2 DEF ConfigurationState, Running, At
  <2>2. PICK f \in Activations : /\ stack' = [stack EXCEPT ![Len(stack)] = f]
                                 /\ f.at = "endpoints"
    BY <1>0, <2>1, GotoMove DEF Places
  <2>3. QED BY <1>0, <2>1, <2>2, Inserted DEF Configuring
<1>3. CASE EndOfReset
  BY <1>3 DEF EndOfReset, ClearNumber
<1>4. CASE BeginEndpoints
  BY <1>4, Started
<1>5. CASE ConfigureEndpoints /\ ~BeginEndpoints
  <2>1. Numbered
    BY <1>5 DEF ConfigureEndpoints, SelectEndpoint, SkipEndpoint, WriteEndpoint,
       WriteStray, EndpointsDone, stateVars
  <2>2. CASE Configures
    BY <1>0, <1>5, <2>2, ConfiguresStays
  <2>3. CASE ~Configures
    BY <1>5, <2>1, <2>3, TopOnCourse DEF ConfInv
  <2>4. QED BY <2>2, <2>3
<1>6. ASSUME Numbered, UNCHANGED enabled, ~ConfigureEndpoints, ~EndOfReset
      PROVE  (enabled = DataEndpoints \/ Configures \/ Underway)'
  <2>1. CASE enabled = DataEndpoints
    BY <1>6, <2>1
  <2>2. CASE Configures
    BY <1>0, <1>6, <2>2, ConfiguresStays DEF ConfigureEndpoints
  <2>3. CASE Underway
    BY <1>0, <1>6, <2>3, UnderwayStays
  <2>4. QED BY <1>6, <2>1, <2>2, <2>3 DEF ConfInv
<1>7. CASE BeginPlain /\ configuration' = configuration
  BY <1>3, <1>4, <1>5, <1>6, <1>7 DEF BeginPlain, Begin
<1>8. CASE Attach \/ Detach \/ Suspend \/ WakeUp \/ ReadLineEncoding \/ EnableAddress
  <2>1. Numbered /\ UNCHANGED enabled
    BY <1>8 DEF Attach, Detach, Suspend, WakeUp, ReadLineEncoding, EnableAddress
  <2>2. QED BY <1>3, <1>4, <1>5, <1>6, <2>1
<1>9. CASE UNCHANGED <<configuration, deviceState, enabled>>
  BY <1>3, <1>4, <1>5, <1>6, <1>9
<1>10. QED
  BY Actions, <1>1, <1>2, <1>3, <1>4, <1>5, <1>7, <1>8, <1>9 DEF Resume,
       ComInterrupt, ConfigureEndpoints,
       ReadHeader, TestSetup, BeginSetLine, BeginDescriptor, BeginGetLine,
       BeginGetStatus, BeginUnknown, Begin, WriteLineEncoding, StreamDescriptor,
       StreamDone, StatusIn, StatusOut, Leave, Refuse, MainSelect, MainLeave,
       MainStray, DeviceTask, HostSetup, HostTakesIn, HostSendsOut, vars, stateVars

LEMMA InvStep == IInv /\ [Next]_vars => IInv'
<1> SUFFICES ASSUME IInv, [Next]_vars PROVE IInv'
  OBVIOUS
<1>1. TypeOK /\ DepthInv /\ ConfInv /\ StackInv
  BY TypeParts DEF IInv, StackInv
<1>2. StateType' /\ PortType' /\ HostType'
  BY <1>1, TypeParts, StateTypeStep, PortTypeStep, HostTypeStep
<1>3. StackInv' /\ ConfInv'
  BY <1>1, StackInvStep, ConfInvStep
<1>4. TypeOK'
  BY <1>2, <1>3 DEF TypeOK, StateType, PortType, StackType, HostType, StackInv
<1>5. QED BY <1>3, <1>4 DEF IInv, StackInv

LEMMA Invariance == Spec => []IInv
<1>1. QED BY InitInv, InvStep, PTL DEF Spec

(* Every variable keeps its type, and no more activations than MaxNest are *)
(* ever stacked.                                                           *)
THEOREM TypeCorrect == Spec => []TypeOK
<1>1. IInv => TypeOK
  BY DEF IInv
<1>2. QED BY <1>1, Invariance, PTL

(* A handler waits on the control endpoint's flags, at any depth. *)
THEOREM HandlerSafe == Spec => []HandlerOnControl
<1>1. IInv => HandlerOnControl
  BY DEF IInv
<1>2. QED BY <1>1, Invariance, PTL

(* The main program never sees a configured device without endpoints. *)
THEOREM ConfiguredSafe == Spec => []ConfiguredReady
<1>1. IInv => ConfiguredReady
  BY EmptySeq DEF IInv, TypeOK, ConfInv, Configures, Underway, ConfiguredReady
<1>2. QED BY <1>1, Invariance, PTL

-----------------------------------------------------------------------------
(* The session.  `Lowest` is the selection of the main program, as the     *)
(* lowest activation keeps it.                                             *)
Inside == stack # << >>
Lowest == IF stack = << >> THEN selected ELSE stack[1].back

USE DEF Session!sessionVars, Session!Links, Session!Usable

(* What is below the top is left alone, and an activation is pushed with   *)
(* the selection it found and popped with the one it keeps.                *)
LEMMA SessionKept ==
  TypeOK /\ Inside /\ (Push \/ Move \/ Keep) =>
    Inside' /\ Lowest' = Lowest
<1> SUFFICES ASSUME TypeOK, Inside, Push \/ Move \/ Keep
             PROVE  Inside' /\ Lowest' = Lowest
  OBVIOUS
<1>0. /\ stack \in Seq(Activations) /\ stack # << >>
      /\ Len(stack) \in Nat \ {0} /\ 1 \in 1 .. Len(stack)
  BY TopType DEF TypeOK, Inside
<1>1. CASE Push
  <2>1. PICK isr \in BOOLEAN : stack' = Append(stack, Activation(isr, selected))
    BY <1>1 DEF Push
  <2>2. Activation(isr, selected) \in Activations
    BY ActivationType DEF TypeOK
  <2>3. stack' # << >> /\ stack'[1] = stack[1]
    BY <1>0, <2>1, <2>2, Pushed
  <2>4. QED BY <1>0, <2>3 DEF Inside, Lowest
<1>2. CASE Move
  <2>1. PICK f \in Activations :
          stack' = [stack EXCEPT ![Len(stack)] = f] /\ f.back = Top.back
    BY <1>2 DEF Move
  <2>2. /\ stack' # << >> /\ stack'[Len(stack)] = f
        /\ \A j \in 1 .. Len(stack) - 1 : stack'[j] = stack[j]
    BY <1>0, <2>1, Replaced
  <2>3. stack'[1].back = stack[1].back
    <3> PICK n \in Nat \ {0} : n = Len(stack)
      BY <1>0
    <3>1. CASE n = 1
      BY <2>1, <2>2, <3>1 DEF Top
    <3>2. CASE n # 1
      <4>1. 1 \in 1 .. n - 1
        BY <3>2
      <4>2. QED BY <2>2, <4>1
    <3>3. QED BY <3>1, <3>2
  <2>4. QED BY <1>0, <2>2, <2>3 DEF Inside, Lowest
<1>3. CASE Keep
  BY <1>0, <1>3 DEF Keep, Inside, Lowest
<1>4. QED BY <1>1, <1>2, <1>3

LEMMA SessionInitial == Init => Session!SessionInit
BY ConstantTypes DEF Init, Session!SessionInit, LinkOf

LEMMA Entered ==
  TypeOK /\ ~Inside /\ Push /\ UNCHANGED stateVars => Session!Request
<1> SUFFICES ASSUME TypeOK, ~Inside, Push, UNCHANGED stateVars
             PROVE  Session!Request
  OBVIOUS
<1>1. PICK isr \in BOOLEAN : stack' = Append(stack, Activation(isr, selected))
  BY DEF Push
<1>2. stack = << >> /\ Len(stack) = 0 /\ stack \in Seq(Activations)
  BY DEF Inside, TypeOK
<1>3. Activation(isr, selected) \in Activations
  BY ActivationType DEF TypeOK
<1>4. stack' # << >> /\ stack'[1] = Activation(isr, selected)
  BY <1>1, <1>2, <1>3, Pushed
<1>5. stack'[1].back = selected
  BY <1>4 DEF Activation
<1>6. UNCHANGED <<deviceState, lineEncoding, enabled>>
  BY DEF stateVars
<1>7. QED BY <1>2, <1>4, <1>5, <1>6 DEF Session!Request

LEMMA Left ==
  IInv /\ Pop /\ UNCHANGED stateVars =>
    Session!Return \/ UNCHANGED Session!sessionVars
<1> SUFFICES ASSUME IInv, Pop, UNCHANGED stateVars
             PROVE  Session!Return \/ UNCHANGED Session!sessionVars
  OBVIOUS
<1>1. /\ stack \in Seq(Activations) /\ stack # << >> /\ Top.at = "tail"
      /\ stack' = SubSeq(stack, 1, Len(stack) - 1) /\ selected' = Top.back
      /\ UNCHANGED <<deviceState, lineEncoding, enabled>>
  BY DEF IInv, TypeOK, Pop, Return, Restored, stateVars
<1>2. PICK n \in Nat \ {0} : n = Len(stack)
  BY <1>1, TopType
<1>3. /\ \A i \in 1 .. n - 1 : stack'[i] = stack[i]
      /\ stack' = << >> <=> n = 1
  BY <1>1, <1>2, Popped, Zenon
<1>4. CASE n = 1
  <2>1. selected' = stack[1].back /\ stack' = << >>
    BY <1>1, <1>2, <1>3, <1>4 DEF Top
  <2>2. \A i \in 1 .. Len(stack) : ~Configuring(stack[i]) /\ ~OnCourse(i)
    BY <1>1, <1>2, <1>4 DEF Top, Configuring, OnCourse, SettingUp
  <2>3. LinkOf(deviceState) = "configured" => enabled = DataEndpoints
    BY <2>2 DEF IInv, ConfInv, Configures, Underway, LinkOf, TypeOK, States
  <2>4. QED BY <1>1, <2>1, <2>3 DEF Session!Return
<1>5. CASE n # 1
  <2>1. 1 \in 1 .. n - 1
    BY <1>5
  <2>2. stack' # << >> /\ stack'[1] = stack[1]
    BY <1>3, <1>5, <2>1
  <2>3. QED BY <1>1, <2>2
<1>6. QED BY <1>4, <1>5

(* Every step is one of the session, or none of it. *)
LEMMA SessionStep ==
  IInv /\ [Next]_vars => [Session!SessionNext]_Session!sessionVars
<1> SUFFICES ASSUME IInv, [Next]_vars
             PROVE  Session!SessionNext \/ UNCHANGED Session!sessionVars
  OBVIOUS
<1>0. TypeOK /\ (Push \/ Pop \/ Move \/ Keep)
  BY StackStep DEF IInv
<1>1. CASE Leave \/ Refuse
  <2>1. Pop /\ UNCHANGED stateVars
    BY <1>1 DEF Leave, Refuse, Running, At, Pop
  <2>2. QED BY <2>1, Left DEF Session!SessionNext
<1>2. CASE ComInterrupt \/ DeviceTask
  <2>1. Push /\ UNCHANGED stateVars
    <3>1. Len(stack') = Len(stack) + 1
      <4>1. PICK isr \in BOOLEAN : stack' = Append(stack, Activation(isr, selected))
        BY <1>2, Zenon DEF ComInterrupt, DeviceTask
      <4>2. Activation(isr, selected) \in Activations
        BY <1>0, ActivationType DEF TypeOK
      <4>3. QED BY <1>0, <4>1, <4>2, Pushed DEF TypeOK
    <3>2. ~Pop /\ ~Move /\ ~Keep
      BY <1>0, <3>1, Popped, Replaced DEF Pop, Return, Move, Keep, TypeOK
    <3>3. QED BY <1>0, <1>2, <3>2 DEF ComInterrupt, DeviceTask
  <2>2. CASE Inside
    BY <1>0, <2>1, <2>2, SessionKept DEF Inside, Lowest, stateVars
  <2>3. CASE ~Inside
    BY <1>0, <2>1, <2>3, Entered DEF Session!SessionNext
  <2>4. QED BY <2>2, <2>3
<1>3. ASSUME stack # << >>, Top.at # "tail"
      PROVE  Inside /\ Inside' /\ Lowest' = Lowest
  BY <1>0, <1>3, SessionKept DEF Pop, Inside
<1>4. CASE \/ ReadHeader \/ TestSetup \/ BeginPlain \/ BeginSetLine
           \/ BeginDescriptor \/ BeginGetLine \/ BeginGetStatus \/ BeginUnknown
           \/ WriteLineEncoding \/ StreamDescriptor \/ StreamDone
           \/ StatusIn \/ StatusOut
  <2>1. /\ stack # << >> /\ Top.at # "tail"
        /\ UNCHANGED <<deviceState, lineEncoding, enabled>>
    BY <1>4 DEF ReadHeader, TestSetup, BeginPlain, BeginSetLine, BeginDescriptor,
         BeginGetLine, BeginGetStatus, BeginUnknown, Begin, WriteLineEncoding,
         StreamDescriptor, StreamDone, StatusIn, StatusOut, Running, At, stateVars
  <2>2. QED BY <1>3, <2>1 DEF Inside, Lowest
<1>5. CASE ReadLineEncoding \/ EnableAddress \/ ConfigurationState \/ ConfigureEndpoints
  <2>1. Inside /\ Inside' /\ Lowest' = Lowest
    BY <1>3, <1>5 DEF ReadLineEncoding, EnableAddress, ConfigurationState,
         ConfigureEndpoints, BeginEndpoints, SelectEndpoint, SkipEndpoint,
         SetUpsLeft, WriteEndpoint, WriteStray, EndpointsDone, Running, At
  <2>2. CASE ReadLineEncoding \/ BeginEndpoints
    <3>1. /\ UNCHANGED <<deviceState, enabled>>
          /\ lineEncoding' \in BOOLEAN
      BY <2>2 DEF ReadLineEncoding, BeginEndpoints, IInv, TypeOK
    <3>2. QED BY <2>1, <3>1 DEF Inside, Lowest, Session!LineEncodingChanges,
         Session!SessionNext
  <2>3. CASE EnableAddress \/ ConfigurationState
    BY <2>1, <2>3 DEF EnableAddress, ConfigurationState, LinkOf, Inside, Lowest,
         Session!StateChanges, Session!SessionNext
  <2>4. CASE \/ SelectEndpoint \/ SkipEndpoint \/ WriteEndpoint \/ WriteStray
             \/ EndpointsDone
    <3>1. UNCHANGED <<deviceState, lineEncoding>>
      BY <2>4 DEF SelectEndpoint, SkipEndpoint, WriteEndpoint, WriteStray,
         EndpointsDone, stateVars
    <3>2. QED BY <2>1, <3>1 DEF Inside, Lowest, Session!Configure,
         Session!SessionNext
  <2>5. QED BY <1>5, <2>2, <2>3, <2>4 DEF ConfigureEndpoints
<1>6. CASE Attach \/ Detach \/ Suspend
  BY <1>6 DEF Attach, Detach, Suspend, LinkOf, Session!StateChanges,
       Session!SessionNext
<1>7. CASE WakeUp
  <2>1. /\ deviceState' = "Configured" => configuration # 0
        /\ UNCHANGED <<configuration, lineEncoding, enabled, selected, stack>>
    BY <1>7 DEF WakeUp
  <2>2. LinkOf(deviceState') \in {"configured", "gone", "other"}
    BY DEF LinkOf
  <2>3. \/ stack # << >>
        \/ LinkOf(deviceState') = "configured" => enabled = DataEndpoints
    BY <2>1, EmptySeq DEF IInv, TypeOK, ConfInv, Configures, Underway, LinkOf
  <2>4. QED BY <2>1, <2>2, <2>3 DEF Session!StateChanges, Session!SessionNext
<1>8. CASE EndOfReset
  BY <1>8, ConstantTypes DEF EndOfReset, LinkOf, Session!Reset, Session!SessionNext
<1>9. CASE MainSelect
  BY <1>9 DEF MainSelect, MainRuns, stateVars, Session!MainSelects,
       Session!SessionNext
<1>10. CASE \/ Resume \/ MainLeave \/ MainStray \/ HostSetup \/ HostTakesIn
            \/ HostSendsOut \/ UNCHANGED vars
  BY <1>10 DEF Resume, MainLeave, MainStray, HostSetup, HostTakesIn,
       HostSendsOut, vars, stateVars
<1>11. QED
  BY Actions, <1>1, <1>2, <1>4, <1>5, <1>6, <1>7, <1>8, <1>9, <1>10
     DEF ConfigureEndpoints

(* The interrupts and request handlers are, to the main program, the       *)
(* session: its selection survives all but a reset, and a configured       *)
(* device has its endpoints.                                               *)
THEOREM Implementation == Spec => ImplementsSession
<1>1. QED
  BY SessionInitial, SessionStep, Invariance, PTL
     DEF Spec, ImplementsSession, Session!SessionSpec
=============================================================================
