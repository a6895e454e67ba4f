# A verification project for amtdoor2

amtdoor2 is an RFID door lock. A panel microcontroller (`panelMcuCode/`) polls a
card reader, drives the two relays of the bolt and talks USB CDC to a small
authorisation server (`authCode/`), which compares tags with a list and sends
`D` to open. This directory holds TLA+ models of that code, the TLC
configurations that check them, and TLAPS proofs about them.

## Inventory

| component | state | operations | hard because |
|---|---|---|---|
| door controller: `main.c`, `main.h` | `device_state`, `system_timer`, the two door samples, output pins | one pass of the main loop, `doorOpen`, `doorClose`, timer interrupt | the interrupt preempts 16-bit accesses of an 8-bit machine; 50 ms blocking pulses; resets forget the state |
| line buffer: `readOrDumpBuffer` | `buffer`, `pos` | one character | overflow, terminator, NULs |
| RFID loop and UART | `tag_buffer`, the UART's few bytes | poll, report `TAG` or `BADREAD` | bytes lost while the loop is elsewhere; a reader turned off in mid-line |
| USB control: LUFA's general and control interrupts (`USBInterrupt_AVR8.c`, `DeviceStandardReq.c`) | device state, configuration, line encoding, selected endpoint, the control endpoint's flags | attach, detach, suspend, wake-up, reset, each kind of control request | a request is served with interrupts on, in steps a reset or the next request preempts, and waits for the host |
| USB CDC link: LUFA class driver (`CDCClassDevice.c`), data endpoints | the two banks, the timeout | `BytesReceived`, `ReceiveByte`, `SendByte`, `Flush`, `USBTask` | every routine asks, selects and uses in steps that interrupts separate; writes wait up to 100 ms a byte |
| authorisation server: `door_test.py` | `lastnum`, `lasttime`, `forceopen.now`, `rfid.inc` | wait, force open, read a line, grant or deny, log, drain | blocking reads, crashes between file steps, dropped lines |
| tag list update: `getrfids.php`, cron | `rfid.inc` | rewrite | not atomic with the reader of the file |
| supervision: `door_test.sh`, `doortestd` | processes | start, stop, restart | `stop` ends the wrapper only |
| emergency opener: `door_force_open.py` | none | `D` every 30 s | shares the port |
| clock test firmware `hwTestCode/`, descriptors, utilities, drawings | none worth a model | | |

Interactions: the server's `D` reaches the command loop through the CDC OUT
endpoint; the RFID loop's reports reach the server through the IN endpoint; the
door routines change `device_state` and `RFIDEN`, which decide what the RFID
loop reports and whether the reader sends; every blocking step of one part
delays the polling of the others.

What makes the parts correct: one relay at a time and none left on; an unlocked
bolt locked again in bounded time whatever happens, a reset included; the bolt
opened only by a `D` taken from the queue, or by a byte that a torn read made
up; no tag reported that was not
presented; every whole line reported; the buffer never overrun.

## Structure

| layer | abstract specification | detailed modules | proofs |
|---|---|---|---|
| door | `DoorLock` | `DoorControl` | `DoorControlProofs` |
| line buffer and tags | | `CharBuffer`, `TagReader` (extends it) | `CharBufferProofs`, `TagReaderProofs`, `TagSpliceProofs` |
| USB | `UsbSession` | `UsbControl` (implements it), `UsbCdc` (built on it) | `UsbControlProofs`, `UsbServedProofs`, `UsbCdcProofs` |
| server | `AccessPolicy` | `AuthServer` | `AuthServerProofs` |

`DoorControl` has the two calls of the class driver in the command loop as one
step each, with what a reset or a reconfiguration in the middle of a call makes
of its answer; `UsbCdc` has these calls step by step. What keeps a control
request from ending is in `UsbControl`; in `DoorControl` it is a processor that
may not come back (`held`).
`TagReader` ends where a report is given to `fputs`; `UsbCdc` shows what becomes
of its bytes, and `AuthServer` accepts any line, so every broken report is among
its inputs.

The modules were written in the order door, buffer and tags, server, USB, the
proofs following each. What is left of the system is under "Not modelled".

## Modules

### DoorControl

One action per step of the loop in `main.c`. `pc` is the place in the loop, or
in a routine it called; `ret` is where `doorClose` returns to. Both appear
because the interrupt may fall between any two steps.

| action | code (`panelMcuCode/main.c`) |
|---|---|
| `Boot`, `PowerUp` | 38-65 |
| `Sense` | 68-84 |
| `PeriodicLo`, `PeriodicHi` | 87-89, the two byte loads of the comparison |
| `EdgeCheck` | 92-96 |
| `TimeoutLo`, `TimeoutHi` | 99-101 |
| `CommandWaits`, `CommandsDone` | 104, `CDC_Device_BytesReceived` |
| `Receive` (in the next three) | 105, `CDC_Device_ReceiveByte` |
| `ReceiveOpen`, `OpenPulse`, `OpenRelease` | 107-109, `doorOpen` 241-253 |
| `ReceiveClose`, `BeginClose`, `CloseRelease`, `CloseReturn` | 110-112, `doorClose` 256-268 |
| `ReceiveOther` | 113-117 |
| `Service` | 119-137 |
| `Tick` | the interrupt, 303-306 |
| `Preempt`, `Return` | a control request takes and gives back the processor (`USB_COM_vect`, `USB_USBTask`) |
| `LinkChanges`, `LinkLost` | `USB_GEN_vect` and the requests, as far as `BytesReceived` and `ReceiveByte` ask for them |

`system_timer` is a record of two bytes. The compiler loads a volatile 16-bit
object low byte first and stores it high byte first; each load and store is a
step. The interrupt's own increment is one step: interrupts are off in it.

`ByteValues` is the number of values of a byte, so that small instances wrap and
carry as the real one does. Time is counted in timer interrupts (1.004 ms: the
compare value 250 makes a period of 251 counts). `lag` counts the interrupts of
the current pass outside the relay delays, and `MaxLag` bounds it: it is the
time budget of the command loop, the RFID loop and the USB work together. The
deadlines below are stated in terms of it, and a host that floods the command
loop or lets reports block makes it large. A relay delay sees
`DOOR_RELAY_PULSE_MS - 1` interrupts or as many as the constant says; interrupt
time that stretches it further comes out of the lag.

`bolt`, `door` and `elapsed` are not in the program: the bolt the relays drive,
the door the sensor sees, and the interrupts since the timer was last cleared.
`rx` is the CDC OUT endpoint together with what the host has written behind it.
`ready` is what both routines of the class driver ask first (configured, with a
line encoding). `torn` says that the banks were wiped while one of the two ran:
`BytesReceived` may then answer either way, and `ReceiveByte` give any byte, a
`D` nobody sent included, because the routine goes on with the control endpoint
selected (`USBInterrupt_AVR8.c:173`) or with an empty bank. Between the two calls
the link may also be lost or change; `ReceiveByte` then returns -1, which the
switch ignores.

The environment sends bytes, loses the link, moves the door and resets the
microcontroller at any moment. A control request may take the processor at any
step and is not bound to give it back.

### DoorLock

What the controller promises: the bolt opens only for a grant taken from the
queue, one opening per grant, or for a stray one, at most one for each loss of
the link while a command was being taken (`Misread`); and an open bolt closes within `OpenLimit`, or
`CloseLimit` when a restart made the controller forget it. DoorControl
instantiates it as `Lock`, with `mode` computed by `LockMode` from `pc` and
`device_state`; `ImplementsLock` is checked by TLC and proved.

### CharBuffer

`readOrDumpBuffer`, one character per step. The buffer is a function on its
indices; `line` and `last` record the true line as history. '\n' and '\r' are
one value, because the code treats them alike. The branch that drops a stored
newline is modelled and, as `NoNewlineStored` proves, never taken.

### TagReader

Extends CharBuffer with the reader, the UART and the RFID loop. The reader (a
Parallax 28140, see `physical/`) is external: it sends newline, number, newline.
A byte that finds the UART full is lost. Each byte in the UART carries history:
whether bytes were lost before it, and whether it ends a line that arrived whole.
`Digit` tells characters apart by card and place, never by their code.

`MCCharBuffer` and `MCTagReader` name the characters and cards for TLC.

### AuthServer

`door_test.py`, one action per access to what other processes share: the port,
`forceopen.now`, `rfid.inc`. `pc` is the place in the `while True` loop.

| action | code (`authCode/door_test.py`) |
|---|---|
| `Start` | 15-39, after the 10 s of `door_test.sh` |
| `Idle`, `SeeForce`, `WriteForce`, `RemoveForce`, `LogForce` | 43-54 |
| `ReadLine`, `BareTag` | 55-69 |
| `LogSensor` | 63-67 |
| `Check`, `CheckFails` | `parse_number` 34-36 |
| `Grant`, `Refuse` | 71-81 |
| `Log`, `DrainLine`, `DrainDone` | 83-90 |
| `Kill`, `PortFails` | any exception nobody catches, or a signal |
| `Truncate`, `WriteList` | `getrfids.php` 10-28 |

The write of 'D' and the two assignments after it are one action: nobody else
sees `lastnum` and `lasttime`, and time that passes between only makes `age`
smaller. A line is its number (or what else it is), whether its end has arrived
(readline waits for it), and, as history, whether it began while a read was
being logged. What waits in the port is lost when the program ends or the cable
is pulled. The panel may send any line, broken ones included: its reports lose
bytes when a write times out. It never sends `SENSOR`, which the server
understands. Time counts in ticks, and `age` stops at `Window`, where it has no
further effect; the clock of the machine is taken to run forward.

An empty `rfid.inc` reads as one empty line (`Lines`), so a report that lost all
of its number matches it. `GrantListed` speaks of cards, and says so.

`MCAuthServer` adds the symmetry of the tags.

### AccessPolicy

What the server promises, without port, files and program: visits come one at a
time; a visit opens the door once at most, for a card on a list that was in force
during it and not for the number let in last, within `Window`; a request opens it
once in each run of the program and is withdrawn only after that. AuthServer
instantiates it as `Policy`: the visit is the read in hand between `ReadLine` and
the decision (`Visitor`), the request what `forceopen.now` and its history say
(`ForceState`), the list in force the one `getrfids.php` wrote or is writing. A
listed visitor may be turned away, as the finding on `auth_denied` requires. Of
the queue the policy knows nothing; that is `QueuedIgnored`.

### UsbSession

What the main program may rely on of USB: whether the link is configured, its
line encoding set, all its data endpoints enabled; which endpoint it has selected;
and whether a control request is being served (`inside`), while which it waits.
A request leaves the selection alone, and hands back a configured device only
with its endpoints set up (`Usable`). Only a bus reset takes the selection away.

### UsbControl

LUFA is built with `INTERRUPT_CONTROL_ENDPOINT`, so a SETUP packet raises an
interrupt whose handler enables interrupts again and serves the request, waiting
for the host. The general interrupt preempts it, and a bus reset enables the
control interrupt anew, so that one request may be served on top of another:
`stack` holds the activations, each with its place `at`, the place `after` its
status stage, whether it came by the interrupt (`isr`) or from `USB_DeviceTask`,
and the endpoint selection it gives `back`.

| action | code (under `panelMcuCode/LUFA/Drivers/USB/`) |
|---|---|
| `Attach`, `Detach`, `Suspend`, `WakeUp`, `EndOfReset` | `USB_GEN_vect`, `Core/AVR8/USBInterrupt_AVR8.c` 90-181 |
| `ComInterrupt`, `Leave`, `Refuse` | `USB_COM_vect` 261-275, `Core/DeviceStandardReq.c` 118-123 |
| `ReadHeader`, `TestSetup`, `Begin...` | `USB_Device_ProcessControlRequest` 49-116 |
| `ReadLineEncoding`, `WriteLineEncoding` | `CDC_Device_ProcessControlRequest`, `Class/Device/CDCClassDevice.c` 47-84 |
| `StreamDescriptor`, `StreamDone` | `Endpoint_Write_Control_PStream_LE` |
| `StatusIn`, `StatusOut` | `Endpoint_ClearStatusStage`, `Core/AVR8/Endpoint_AVR8.c` 129-151 |
| `EnableAddress`, `ConfigurationState` | `DeviceStandardReq.c` 125-140, 200-205 |
| `BeginEndpoints` | `CDCClassDevice.c` 115-121, called through the configuration event |
| `SelectEndpoint`, `SkipEndpoint`, `WriteEndpoint`, `WriteStray`, `EndpointsDone` | `Endpoint_ConfigureEndpoint_Prv`, `Endpoint_AVR8.c` 74-111 |
| `DeviceTask` | `Core/USBTask.c` 61-74 |
| `MainSelect`, `MainLeave`, `MainStray` | a routine of the class driver, as far as it touches what is shared |

The configuration of the endpoints runs with interrupts on. Each endpoint is
selected and disabled, then written; setting one up also moves those after it in
the endpoint memory, and `SetUps` is the sequence that results. `done` counts the
part of it that is behind an activation. A reset between selection and writes
leaves endpoint 0 selected, and what is left of the writes goes to it
(`WriteStray`): `ep0` is FALSE once it is no control endpoint any more. The
stray writes are one step, with any part of their effects.

The host and the bus are external: a host may send a SETUP at any moment, which
breaks off a transfer it has not finished, take and send packets, reset, suspend
and resume; the cable comes and goes. Requests that differ in nothing kept here
are one (`GetStatus` stands for `GetConfiguration`, `Notice` for those without
data that change nothing). Two flag tests read a SETUP just before the interrupt
that the same SETUP raises is taken, and do so in the model (`TestSetup`,
`DeviceTask`).

### UsbCdc

Extends UsbSession with the command loop, the reports and the flush of `main.c`,
and the banks of the two data endpoints. `pc` is the place in a routine; the
interrupts (`SessionStep`, `Wipe`) and the host fall between any two.

| action | code (`CDCClassDevice.c`, `Endpoint_AVR8.c`) |
|---|---|
| `Count`, `CountSelect`, `CountTest` | `CDC_Device_BytesReceived` 218-241 |
| `Take`, `TakeSelect`, `TakeTest`, `TakeRead`, `TakeClear` | `CDC_Device_ReceiveByte` 243-262 |
| `Report` | the `fputs` of `main.c` 119-133, byte by byte |
| `Send`, `SendUnready`, `SendSelect`, `SendTest`, `SendClear`, `SendWrite` | `CDC_Device_SendByte` 169-189 |
| `WaitDone`, `WaitFrame`, `WaitEnds` | `Endpoint_WaitUntilReady` 153-198 |
| `Task`, `TaskSelect`, `TaskTest` | `CDC_Device_USBTask` 135-146 |
| `Flush`, `FlushSelect`, `FlushNothing`, `FlushPart`, `FlushFull`, `FlushEnd` | `CDC_Device_Flush` 191-216 |
| `Device` | `USB_USBTask` |

`torn` is history: a reset or a configuration fell into the routine that runs.
Such a routine goes on with the control endpoint selected, or with a wiped bank,
and a flag it then reads may say anything (`Outcomes`). Bytes carry numbers, so
that a lost, doubled or overtaken one shows.

## Runs

| run | question | bounds |
|---|---|---|
| `door_control` | relays, reader, timer, deadline, edge, refinement | byte of 4 values, open 6, close 7, pulse 2, lag 2, two bytes waiting; 4.4 million states |
| `door_live` | close pulses as long as control requests end; how early a timeout can be | byte of 4, open 9 (longer than the slack of 7), close 10, pulse 2, lag 1, one byte waiting; 0.9 million states |
| `door_torn` | expected violation: the open time ends early | as `door_control`, close 9 |
| `char_buffer` | bounds, tail, read back | buffer of 5, lines up to 8, two characters and NUL |
| `char_buffer_long` | expected violation: "complete line" | buffer of 4, lines up to 6 |
| `tag_reader` | whole lines reported, splices of one card's lines harmless | two cards, tags of 3, buffer of 4, UART of 1 |
| `auth_server` | grants, repeats, queue, force file | two cards, two lines waiting, a window of 2 ticks |
| `auth_live` | a request is answered; refinement of AccessPolicy | two cards, one line waiting, a window of 1 tick; 1 million states |
| `auth_denied` | expected violation: a listed card is denied | two cards, one line waiting |
| `usb_control` | selection, configured endpoints, refinement of UsbSession | three requests, the two data endpoints set up in the five steps of the firmware, one transfer broken off, two activations stacked; 3.6 million states |
| `usb_served` | device and host never wait for each other; every control interrupt ends | every kind of request but `Notice` and `Unconfigure`, one data endpoint, no transfer broken off, two activations; 1.2 million states |
| `usb_cdc` | accesses, reports, commands, the loop goes round | banks of 2, a timeout of one frame, 3 bytes reported, 2 sent; 0.8 million states |

Why the bounds are enough: the timeouts exceed one byte, so both bytes of the
timer count, carry and tear; the lag allows several interrupts between any two
steps, so a carry can fall into any load or clear; two waiting commands give
every order of `D`, `d` and others. In CharBuffer the lines exceed the buffer by
more than half, so the dump, the tail after it and the remains of longer lines
occur. In TagReader the tag fills the buffer exactly, the tightest fit. In
AuthServer two cards tell a repeat from another read, and two lines let a queued
one wait behind another and a half one behind a whole one; the policy, which
knows of no queue, is checked with one. In UsbControl one
broken-off transfer and two stacked activations give the case the code is open
to, a request or a reset in the middle of a request; the three requests of
`usb_control` are those that change the address or the configuration, and its
endpoints are set up, skipped, set up twice and half set up. `usb_served` has the
other ways to be served, the line encoding included (a `Notice` is served as a
`SetAddress` without its last step, an `Unconfigure` as a `SetConfiguration`,
and `usb_control` has it). In UsbCdc three bytes fill the bank of two
and find it full, and two commands tell order and doubling. The theorems hold
for every value.

`usb_control` and `usb_served` do not check for deadlock: a host that may break
off no further transfer, and does not go on with the one it has begun, leaves
the handler waiting, which is what the code does. The other runs check it.

Fairness: `FairSpec` asks weak fairness of the timer interrupt, and strong
fairness of the main program: an AVR executes an instruction of the interrupted
program between two interrupts, so a main program that is free again and again
gets on. That the control requests end is not assumed; it is the premise of
`KeepsClosing` (`[]<>~held`), and `InterruptsEnd` of UsbControl says when it
holds. A host that breaks a control transfer off can hold the processor for ever,
and an open door then stays open: this is how the code is. The exceptions of
`KeepsClosing` are the door opened for ever again, the supply failing for ever
again, and a host that never lets the command loop end.
Nothing is asked of the host, the link, the door or the supply. `FairSpec` of
AuthServer asks weak fairness of the program with its wrapper, which the
operating system schedules; nothing of the panel, the update, the requests or
the crashes. `ForceServed` therefore says what it needs: a program that stays up
and a panel that becomes quiet, since a waiting line, whole or not, keeps the
file from being looked for.

`FairSpec` of UsbControl asks weak fairness of the handlers (the processor goes
on with what it is in, as long as nothing preempts it), of the wake-up
interrupt, of a first reset after the cable is plugged in, and of a host that
goes on with a transfer it has not given up. `FairSpec` of UsbCdc asks strong
fairness of the main program: an AVR executes an instruction of the interrupted
program between two interrupts, so a main program that is free again and again
gets on. `LoopRuns` has as its premise that requests end, which is
`InterruptsEnd` of UsbControl.

`InterruptsEnd` has a premise of its own (`Undisturbed`), and needs it, as does
`NoMutualWait`. A
handler whose transfer the host breaks off can wait for ever: the loops at
`Endpoint_AVR8.c:133` and `:143` and at `CDCClassDevice.c:72` look for no new
SETUP (`LUFA/DoxygenPages/ChangeLog.txt:709-710` tells of an earlier lock-up of
this kind). A main program
that serves a request itself, after a reset fell into a routine or in the race
of `USBTask.c:70`, waits with it; and two waits (`DeviceStandardReq.c:135`,
`CDCClassDevice.c:55`) do not look at a detach either.

## Findings

- The open time can end early. `system_timer >= DOOR_OPEN_TIME_MS` at
  `main.c:99` is two byte loads with interrupts enabled; a carry between them
  reads up to 255 too much. With the 8000 (0x1F40) of `main.h` the time ends at
  most 64 interrupts early by one such load: the carry at 0x1EFF reads 0x1FFF,
  and the next is past the limit. The clear in `doorOpen` (`main.c:244`) and
  `doorClose` (`main.c:267`) tears too. Theorem `TimeoutSafe` bounds the sum of
  both. The relocking deadline is not affected: a torn load never under-reads.
- `readOrDumpBuffer` returns true for the tail of a line that overflowed the
  buffer, where its comment promises a complete line.
- A card that is in the old `rfid.inc` and on the new list is denied when it is
  read while `getrfids.php` rewrites the file in place; `authCode/README.md:13`
  says a match opens the door.
- Seen while modelling, without a run of their own: SetConfiguration(0) on an
  addressed device sets the state Configured (`DeviceStandardReq.c:203`), where
  `Device.h:91-98` describes Addressed; a handler that waits for its status stage
  while the cable is pulled then overwrites Unattached (`:200-203`); a SETUP that
  arrives before the final test of the handler for the one before is answered
  with a stall (`:118`); a bus reset that falls into the configuration of the
  endpoints, between the selection of one and its set-up, leaves endpoint 0 to
  take the writes (`Endpoint_AVR8.c:98-104`), after which the device may not
  answer the host until the next reset; `doortestd stop` ends `door_test.sh` and leaves
  `door_test.py` running (`doortestd:19`).
- Not worth a run: `main.h:80` speaks of a 10 s timer in UNLOCKED, the constant
  is 8000 ms; the timer's "1 ms" is 1.004 ms.

## Proofs

All theorems assume only the named assumptions of the modules.

`DoorControlProofs`, from `TimingAssumption` (the timeouts fit the timer with
two passes and a pulse to spare, and exceed a pulse plus one byte's values; with
the constants of `main.h` that allows any `MaxLag` up to 27743):

- `TypeCorrect` by cases over the actions.
- `RelaysSafe` and `ReaderSafe` from `ControlInv`, which adds to the two
  properties what holds inside the routines.
- The timer properties from `TimerInv`. None of them is inductive: how far the
  timer may be depends on where the loop stands, so `TimerBound` gives a bound
  for each place (below the limit that the last comparison allowed, plus the
  interrupts that can have fallen in since). `LoadBound` is the reason a torn
  load is harmless to the deadline: the low byte in memory is at most the loaded
  one plus the lag. `TimerFollows` keeps `elapsed` and the timer together
  between clears. `IncrementedValue` shows that below the wrap-around the
  increment with carry adds one.
- `TimerSafe`, `RelockSafe`, `EdgeSafe`, `TimeoutSafe` follow. `EdgeSafe` is
  about the two samples: a door that opens and closes between them, during one
  delay, is not seen by the code.
- `Implementation`: every step maps to a step of DoorLock or a stutter; only the
  `Tick` case needs the timer invariant. A byte of a torn read maps to a stray
  command of DoorLock.

`CharBufferProofs`, from `BufferAssumption`: `BufferTypeCorrect`,
`BufferHoldsTail`, and `LinesReadBack`. `TextBefore` shows that `strlen` stops at
the terminator and not before, `EndLineBuffer` what the end of a line leaves in
the buffer; the proofs about tags use both.

`AuthServerProofs`, from `AuthAssumption`. `IInv` joins four facts to the types:
the list being checked is among the approved ones and rfid.inc is within it
(`ReadInv`, for `GrantSafe`); outside the logging and the drain no waiting line
is a late one (`QueueInv`, for `QueueSafe`); the number granted last is
`lastnum` while no other was read, and the grant is at least as old as `lasttime`
(`HeldInv`, for `RepeatSafe`: the code compares with the last read, the property
with the last grant); a request counts as answered exactly during the sleep, and
the file is there while it does (`ForceInv`, for `ForceAnswer` and
`ForceOnceSafe`). Each theorem then needs only the one action that can write the
`D` or remove the file. `Implementation` maps every step to an action of
AccessPolicy, with one lemma for each kind of step (reading and waiting, a
decision, a request, a start or an end, the list, time); `VisitInHand` and
`ForceStates` say what the mapping makes of the places of the program.

`TagReaderProofs`, from `TagAssumption` and `BufferAssumption`. The invariant is
`Received`: what was received up to the m-th byte that waits in the UART ends
with a newline and the first k characters of the card, whether all of it waits
or the loop has taken part. It holds of the line being sent (`SentInv`) and of
every line that ended whole (`EndedInv`), and gives `WholeLinesReported` when
the last byte is taken. `UsesBuffer` shows that every step is a call of
`readOrDumpBuffer` or none, so the theorems about the buffer apply.

`TagSpliceProofs`, from the same assumptions, proves `SplicesAreTags`: what is
reported of a line with one gap, whose characters are one card's or NULs, is a
number that card sent. A digit that a disturbance turned into another one is not
covered, and could not be: `main.c:124` compares the length and nothing else, and
reports such a line. Of the bytes on
their way, each follows in some card's line the one received before it, unless
bytes were lost between them or a disturbance reading as a NUL took the place of one (`UartLinks`,
`SendLink`; `Arrival`, of `TagReaderProofs`, says when a byte is lost). `LineInv`
says what such bytes make of a line: without a gap it begins one number, with
one gap it begins one and goes on with a part of another. When it ends, the last
character was a number's last; a line as long as a tag then has its second part
exactly where the first left off, at whichever place the gap was, and with one
card that is its number. A line with two gaps says nothing, and the property is
silent about it.

`UsbControlProofs`, from `ControlAssumption`. `StackStep` reduces the actions to
four kinds: an activation is pushed, popped, moved, or all are kept. The
invariant adds to the types that the control interrupt is enabled only where one
more activation fits (`DepthInv`), that what interrupted a handler gives it the
control endpoint back (`BackInv`), and that a configuration, or the state
Configured, has its endpoints set up or about to be by an activation on the
stack (`ConfInv`, for `ConfiguredSafe`). An activation in the middle of the
endpoints keeps that promise (`OnCourse`) as long as every endpoint is set up or
still before it (`Ahead`), it has selected the one it is about to write, and
nothing above it on the stack is setting endpoints up too. A reset breaks it, but
clears the configuration as well. `SelectedOn`, `SkippedOn` and `WrittenOn` carry
it over one endpoint, and at the end of `SetUps` nothing is left before it.
`Implementation` maps each kind of step
to an action of UsbSession or a stutter.

`UsbServedProofs`, from `ControlAssumption`, proves `NeverMutual`, the safety
part of `InterruptsEnd` and under the same premise. `Exchange` says of each place
of a handler at which stage of its transfer the host is and what the banks hold;
`NestInv` that the control interrupt lies on top of the stack, so that there is
one such place (`Place`); `BusInv` that transfers need an active bus. The
invariant is proved for the steps after which `Undisturbed` still holds, which
the premise makes all of them: a broken-off transfer is exactly what lets the
place and the stage fall apart.

`UsbCdcProofs`, from `CdcAssumption`, for banks, timeouts and numbers of bytes of
any size. `PlaceInv` says, place by place, which endpoint an untorn routine has
selected, and of a wait that the bank is the host's, empty or gone; with it a
bank found ready has room (`AccessesSafe`), and so a byte written in an untorn
routine is never dropped, which `ReportsKept` needs. `LostInv`, `FilledInv` and
`DroppedInv` make the two accounts inductive. `UsesSession` shows that the main
loop does to the session only what UsbSession allows: with `Implementation`, it
relies on nothing that UsbControl does not promise.

Only model-checked: liveness (`KeepsClosing`, `ForceServed`, `InterruptsEnd`,
`LoopRuns`), which the prover cannot reach, and the violations.

## Not modelled

- `doortestd`, and with it a second `door_test.py` on the port: two readers take
  each other's bytes, below the lines AuthServer is about. `door_test.sh` itself
  is in AuthServer (`Start` after every `End`).
- The emergency opener `door_force_open.py` keeps no state; its commands are
  bytes of the host like any other to DoorControl and UsbCdc.
- A request for `forceopen.now` made while the file is still there is one with
  the first, in the code and in the model.
- Of the tag list update, the request to the member server, the cron job and
  overlapping updates. The wall clock of the server is taken to run forward.
- Of LUFA, what this firmware does not reach: host and OTG mode, the other device
  classes, the streams of data endpoints, the chips and architectures it is not
  built for, and the copy under `hwTestCode/`. That is by far the larger part of
  the source lines; the maps cover what runs in the lock. `Clear/SetFeature` on
  endpoints is one of the requests that change nothing kept here, since the host
  of a CDC port halts none.
- Descriptors, board files, drawings, the clock test firmware and the utilities
  carry no behaviour of the lock. Wording of log output is left out.
