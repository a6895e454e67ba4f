---------------------------- MODULE DoorControl ----------------------------
(***************************************************************************)
(* The door controller of the panel MCU (panelMcuCode/main.c): the main    *)
(* loop, the two door routines it calls, and the 1 ms timer interrupt that *)
(* preempts both.                                                          *)
(*                                                                         *)
(* system_timer is a 16-bit variable on an 8-bit machine.  The interrupt   *)
(* increments it in one piece; the main loop loads it low byte first and   *)
(* clears it high byte first (the order avr-gcc gives accesses to a        *)
(* volatile 16-bit object), and the interrupt may fall in between.         *)
(*                                                                         *)
(* Time is counted in timer interrupts.  Outside the relay delays a pass   *)
(* of the loop is assumed to see at most MaxLag of them.  The RFID and USB *)
(* work of a pass is one step here, Service: it takes time and changes     *)
(* nothing of the door.                                                    *)
(*                                                                         *)
(* A USB control interrupt may take the processor at any step and waits in *)
(* it for the host, possibly for ever (UsbControl).  Commands come through *)
(* the class driver (UsbCdc), which a bus reset may fall into.             *)
(***************************************************************************)
EXTENDS Integers, Sequences

CONSTANTS
  ByteValues,           \* values of one byte of system_timer (256)
  DOOR_CLOSE_TIME_MS,   \* period of the close pulse in IDLE
  DOOR_OPEN_TIME_MS,    \* time the door stays unlocked
  DOOR_RELAY_PULSE_MS,  \* length of a relay pulse
  MaxLag,               \* most interrupts in a pass, relay delays apart
  RxSize                \* most bytes waiting in the CDC OUT endpoint

(***************************************************************************)
(* The timeouts fit the 16-bit timer with a pass to spare, and each is     *)
(* longer than a relay pulse and the carry a torn clear can leave behind.  *)
(* With the values of main.h this allows MaxLag up to 27743.               *)
(***************************************************************************)
ASSUME TimingAssumption ==
  /\ ByteValues \in Nat \ {0}
  /\ DOOR_RELAY_PULSE_MS \in Nat \ {0}
  /\ DOOR_OPEN_TIME_MS \in Nat
  /\ DOOR_CLOSE_TIME_MS \in Nat
  /\ MaxLag \in Nat
  /\ RxSize \in Nat
  /\ ByteValues + DOOR_RELAY_PULSE_MS <= DOOR_OPEN_TIME_MS
  /\ DOOR_OPEN_TIME_MS <= DOOR_CLOSE_TIME_MS
  /\ DOOR_CLOSE_TIME_MS + 2 * MaxLag + DOOR_RELAY_PULSE_MS
       <= ByteValues * ByteValues

VARIABLES
  pc,                 \* where the main loop, or a routine it called, stands
  ret,                \* where doorClose returns to
  device_state,       \* "IDLE" or "UNLOCKED" (VERIFYING is never assigned)
  doorsense_last,
  doorsense_current,
  system_timer,       \* the 16-bit counter as its two bytes
  timerLo,            \* register holding the low byte of a load in progress
  pins,               \* the output pins that are high
  delay,              \* interrupts seen by the relay delay in progress
  rx,                 \* bytes of the host waiting in the CDC OUT endpoint
  ready,              \* the class driver finds the link ready: the device is
                      \* configured and has a line encoding
  torn,               \* the banks were wiped while a byte was asked for
  held,               \* a control interrupt has the processor
  door,               \* the sensor input: "OPEN" (or no sensor), "CLOSED"
  bolt,               \* "unlocked" once an open pulse has started,
                      \* "locked" once a close pulse has been given in full
  lag,                \* interrupts of this pass, relay delays apart
  elapsed             \* history: interrupts since the timer was last cleared

mcu  == <<pc, ret, device_state, doorsense_last, doorsense_current,
          timerLo, pins>>
usb  == <<rx, ready, torn>>
vars == <<mcu, system_timer, delay, usb, held, door, bolt, lag, elapsed>>

Command == {"D", "d", "other"}   \* "other": every byte the switch ignores
Pulses  == {"openPulse", "closePulse"}
Labels  == {"boot", "sense", "periodic", "periodicHi", "edge", "timeout",
            "timeoutHi", "commands", "receive", "openClearLo",
            "closeClearLo", "service"} \cup Pulses

Byte == 0 .. ByteValues - 1
Zero == [hi |-> 0, lo |-> 0]
Value(t) == t.hi * ByteValues + t.lo

(* What the comparison sees once the high byte is loaded too. *)
Loaded == system_timer.hi * ByteValues + timerLo

-----------------------------------------------------------------------------
(***************************************************************************)
(* Power-up: RAM is zeroed and every pin is low; the bolt and the door are *)
(* where they were.                                                        *)
(***************************************************************************)
PowerUp ==
  /\ pc = "boot"                /\ ret = "commands"
  /\ device_state = "IDLE"      /\ pins = {}
  /\ doorsense_last = "OPEN"    /\ doorsense_current = "OPEN"
  /\ system_timer = Zero        /\ timerLo = 0
  /\ delay = 0                  /\ lag = 0
  /\ elapsed = 0                /\ rx = << >>
  /\ ready = FALSE              /\ torn = FALSE
  /\ held = FALSE

Init ==
  /\ PowerUp
  /\ door \in {"OPEN", "CLOSED"}
  /\ bolt \in {"locked", "unlocked"}

(* main up to the loop: the hardware set-up and the initial assignments. *)
Boot ==
  /\ pc = "boot"
  /\ pc' = "sense"
  /\ device_state' = "IDLE"
  /\ doorsense_last' = "OPEN"
  /\ doorsense_current' = "OPEN"
  /\ pins' = {}
  /\ UNCHANGED <<ret, system_timer, timerLo, delay, usb, door, bolt, lag,
                 elapsed>>

(* Sample the door sensor; the LED shows an open door. *)
Sense ==
  /\ pc = "sense"
  /\ pc' = "periodic"
  /\ doorsense_last' = doorsense_current
  /\ doorsense_current' = door
  /\ pins' = IF door = "OPEN" THEN pins \cup {"LED"} ELSE pins \ {"LED"}
  /\ UNCHANGED <<ret, device_state, system_timer, timerLo, delay, usb, door,
                 bolt, lag, elapsed>>

(* doorClose, up to its delay; r is where it returns to. *)
BeginClose(r) ==
  /\ pc' = "closePulse"
  /\ ret' = r
  /\ pins' = pins \cup {"DOORCLOSE"}
  /\ delay' = 0

(* A test of the state and the timer, short-circuited: with the state s   *)
(* the low byte is loaded, otherwise the loop goes on at `next`.           *)
LoadLo(s, hiLabel, next) ==
  /\ \/ /\ device_state = s
        /\ timerLo' = system_timer.lo
        /\ pc' = hiLabel
     \/ /\ device_state # s
        /\ pc' = next
        /\ UNCHANGED timerLo
  /\ UNCHANGED <<ret, device_state, doorsense_last, doorsense_current,
                 system_timer, pins, delay, usb, door, bolt, lag, elapsed>>

(* Mutants: the timer is compared for equality, or one too late. *)
ExpiredExactly(limit) == Loaded = limit
ExpiredLate(limit)    == Loaded > limit

(* The comparison of the loaded timer, which both timeouts make. *)
Expired(limit) == Loaded >= limit

(* The high byte is loaded and the comparison made. *)
LoadHi(limit, next) ==
  /\ \/ Expired(limit) /\ BeginClose(next)
     \/ /\ ~Expired(limit)
        /\ pc' = next
        /\ UNCHANGED <<ret, pins, delay>>
  /\ UNCHANGED <<device_state, doorsense_last, doorsense_current,
                 system_timer, timerLo, usb, door, bolt, lag, elapsed>>

(* The periodic close pulse in IDLE. *)
PeriodicLo == pc = "periodic"   /\ LoadLo("IDLE", "periodicHi", "edge")
PeriodicHi == pc = "periodicHi" /\ LoadHi(DOOR_CLOSE_TIME_MS, "edge")

(* While unlocked, a door seen to close is locked at once. *)
ClosingEdge ==
  /\ device_state = "UNLOCKED"
  /\ doorsense_last = "OPEN"
  /\ doorsense_current = "CLOSED"

CloseOn(edge) ==
  /\ pc = "edge"
  /\ \/ edge /\ BeginClose("timeout")
     \/ /\ ~edge
        /\ pc' = "timeout"
        /\ UNCHANGED <<ret, pins, delay>>
  /\ UNCHANGED <<device_state, doorsense_last, doorsense_current,
                 system_timer, timerLo, usb, door, bolt, lag, elapsed>>

(* Mutant: the check is made in IDLE instead. *)
EdgeCheckIdle == CloseOn(device_state = "IDLE" /\ doorsense_last = "OPEN"
                                              /\ doorsense_current = "CLOSED")

EdgeCheck == CloseOn(ClosingEdge)

(* The end of the open time. *)
TimeoutLo == pc = "timeout"   /\ LoadLo("UNLOCKED", "timeoutHi", "commands")
TimeoutHi == pc = "timeoutHi" /\ LoadHi(DOOR_OPEN_TIME_MS, "commands")

-----------------------------------------------------------------------------
(***************************************************************************)
(* The command loop.  CDC_Device_BytesReceived says whether a byte waits,  *)
(* and CDC_Device_ReceiveByte asks again: the link may have changed in     *)
(* between.  Where the banks were wiped while such a routine ran, by a bus *)
(* reset or a configuration, it goes on with what it finds: another        *)
(* endpoint, or an empty bank.                                             *)
(***************************************************************************)
Waiting == ready /\ rx # << >>

CommandWaits ==
  /\ pc = "commands"
  /\ Waiting \/ torn
  /\ pc' = "receive"
  /\ torn' = FALSE
  /\ UNCHANGED <<ret, device_state, doorsense_last, doorsense_current,
                 system_timer, timerLo, pins, delay, rx, ready, door, bolt,
                 lag, elapsed>>

(* Mutant: the loop goes on while zero or more bytes are waiting. *)
CommandsNeverDone ==
  /\ pc = "commands"
  /\ ~Waiting
  /\ UNCHANGED vars

CommandsDone ==
  /\ pc = "commands"
  /\ ~Waiting \/ torn
  /\ pc' = "service"
  /\ torn' = FALSE
  /\ UNCHANGED <<ret, device_state, doorsense_last, doorsense_current,
                 system_timer, timerLo, pins, delay, rx, ready, door, bolt,
                 lag, elapsed>>

(* Mutant: the byte is looked at but left in the endpoint. *)
ReceivePeek(c) ==
  /\ pc = "receive"
  /\ Waiting /\ c = Head(rx)
  /\ torn' = FALSE
  /\ UNCHANGED <<rx, ready>>

(***************************************************************************)
(* CDC_Device_ReceiveByte: the next byte of the host; without one, -1,     *)
(* which no case of the switch is for; and any byte where it is torn.      *)
(***************************************************************************)
Receive(c) ==
  /\ pc = "receive"
  /\ \/ Waiting /\ c = Head(rx) /\ rx' = Tail(rx)
     \/ ~Waiting /\ c = "other" /\ UNCHANGED rx
     \/ torn /\ UNCHANGED rx
  /\ torn' = FALSE
  /\ UNCHANGED ready

(* Mutant: the high byte is not cleared. *)
ClearHiForgotten == UNCHANGED system_timer

(* The first half of `system_timer = 0`. *)
ClearHi == system_timer' = [system_timer EXCEPT !.hi = 0]

(* 'D': doorOpen sets the state and clears the high byte of the timer... *)
ReceiveOpen ==
  /\ Receive("D")
  /\ device_state' = "UNLOCKED"
  /\ ClearHi
  /\ pc' = "openClearLo"
  /\ UNCHANGED <<ret, doorsense_last, doorsense_current, timerLo, pins,
                 delay, door, bolt, lag, elapsed>>

(* ... then the low byte, disables the reader and energises the relay.    *)
OpenPulse ==
  /\ pc = "openClearLo"
  /\ pc' = "openPulse"
  /\ system_timer' = [system_timer EXCEPT !.lo = 0]
  /\ elapsed' = 0
  /\ pins' = pins \cup {"RFIDEN", "DOOROPEN"}
  /\ bolt' = "unlocked"
  /\ delay' = 0
  /\ UNCHANGED <<ret, device_state, doorsense_last, doorsense_current,
                 timerLo, usb, door, lag>>

(* _delay_ms counts cycles: 50 ms hold 49 or 50 interrupts, 1.004 ms apart. *)
DelayOver == delay >= DOOR_RELAY_PULSE_MS - 1

OpenRelease ==
  /\ pc = "openPulse"
  /\ DelayOver
  /\ pc' = "commands"
  /\ pins' = pins \ {"DOOROPEN"}
  /\ UNCHANGED <<ret, device_state, doorsense_last, doorsense_current,
                 system_timer, timerLo, delay, usb, door, bolt, lag, elapsed>>

(* 'd': doorClose. *)
ReceiveClose ==
  /\ Receive("d")
  /\ BeginClose("commands")
  /\ UNCHANGED <<device_state, doorsense_last, doorsense_current,
                 system_timer, timerLo, door, bolt, lag, elapsed>>

ReceiveOther ==
  /\ Receive("other")
  /\ pc' = "commands"
  /\ UNCHANGED <<ret, device_state, doorsense_last, doorsense_current,
                 system_timer, timerLo, pins, delay, door, bolt, lag,
                 elapsed>>

(***************************************************************************)
(* The rest of doorClose: release the relay, enable the reader, go to IDLE *)
(* and clear the timer, high byte first.                                   *)
(***************************************************************************)
Release(low) ==
  /\ pc = "closePulse"
  /\ DelayOver
  /\ pc' = "closeClearLo"
  /\ pins' = pins \ low
  /\ bolt' = "locked"
  /\ device_state' = "IDLE"
  /\ ClearHi
  /\ UNCHANGED <<ret, doorsense_last, doorsense_current, timerLo, delay, usb,
                 door, lag, elapsed>>

(* Mutants: the other relay is released; the reader stays disabled. *)
CloseReleaseOther  == Release({"DOOROPEN", "RFIDEN"})
CloseReleaseReader == Release({"DOORCLOSE"})

CloseRelease == Release({"DOORCLOSE", "RFIDEN"})

CloseReturn ==
  /\ pc = "closeClearLo"
  /\ pc' = ret
  /\ system_timer' = [system_timer EXCEPT !.lo = 0]
  /\ elapsed' = 0
  /\ UNCHANGED <<ret, device_state, doorsense_last, doorsense_current,
                 timerLo, pins, delay, usb, door, bolt, lag>>

(* The RFID loop and the USB tasks; the next pass of the loop follows.     *)
(* A control request may take the processor here as anywhere, also one     *)
(* that USB_USBTask serves itself, and keep it (Preempt).                  *)
Service ==
  /\ pc = "service"
  /\ pc' = "sense"
  /\ lag' = 0
  /\ UNCHANGED <<ret, device_state, doorsense_last, doorsense_current,
                 system_timer, timerLo, pins, delay, usb, door, bolt, elapsed>>

MainStep ==
  \/ Boot \/ Sense \/ PeriodicLo \/ PeriodicHi \/ EdgeCheck
  \/ TimeoutLo \/ TimeoutHi
  \/ CommandWaits \/ CommandsDone
  \/ ReceiveOpen \/ ReceiveClose \/ ReceiveOther
  \/ OpenPulse \/ OpenRelease \/ CloseRelease \/ CloseReturn \/ Service

(* The main program runs outside the control interrupts. *)
Main == ~held /\ MainStep /\ UNCHANGED held

-----------------------------------------------------------------------------
(***************************************************************************)
(* The timer interrupt.  Its increment is not preempted.                   *)
(***************************************************************************)
Incremented(t) ==
  IF t.lo < ByteValues - 1
  THEN [t EXCEPT !.lo = @ + 1]
  ELSE [hi |-> IF t.hi < ByteValues - 1 THEN t.hi + 1 ELSE 0, lo |-> 0]

(* Mutant: one interrupt more than the delay can hold. *)
InDelayOneMore == pc \in Pulses /\ delay <= DOOR_RELAY_PULSE_MS

InDelay == pc \in Pulses /\ delay < DOOR_RELAY_PULSE_MS

Tick ==
  /\ pc # "boot"
  /\ \/ InDelay /\ delay' = delay + 1 /\ UNCHANGED lag
     \/ ~InDelay /\ lag < MaxLag /\ lag' = lag + 1 /\ UNCHANGED delay
  /\ system_timer' = Incremented(system_timer)
  /\ elapsed' = elapsed + 1
  /\ UNCHANGED <<mcu, usb, held, door, bolt>>

(***************************************************************************)
(* A control request, in its interrupt or in USB_USBTask: it takes the     *)
(* processor at any step of the main program, and whether it ever gives it *)
(* back is up to the host (UsbControl).                                    *)
(***************************************************************************)
Preempt ==
  /\ pc # "boot" /\ ~held
  /\ held' = TRUE
  /\ UNCHANGED <<mcu, system_timer, delay, usb, door, bolt, lag, elapsed>>

Return ==
  /\ held
  /\ held' = FALSE
  /\ UNCHANGED <<mcu, system_timer, delay, usb, door, bolt, lag, elapsed>>

(***************************************************************************)
(* The environment: the host sends a byte, the link becomes ready or is    *)
(* not any more, a bus reset or a configuration wipes the endpoint,        *)
(* somebody moves the door, the supply of the MCU fails.                   *)
(***************************************************************************)
HostSend(c) ==
  /\ Len(rx) < RxSize
  /\ rx' = Append(rx, c)
  /\ UNCHANGED <<mcu, system_timer, delay, ready, torn, held, door, bolt, lag,
                 elapsed>>

LinkChanges ==
  /\ pc # "boot"
  /\ ready' = ~ready
  /\ UNCHANGED <<mcu, system_timer, delay, rx, torn, held, door, bolt, lag,
                 elapsed>>

LinkLost ==
  /\ pc # "boot"
  /\ rx' = << >> /\ ready' = FALSE
  /\ torn' = (torn \/ pc \in {"commands", "receive"})
  /\ UNCHANGED <<mcu, system_timer, delay, held, door, bolt, lag, elapsed>>

DoorMoves ==
  /\ door' = IF door = "OPEN" THEN "CLOSED" ELSE "OPEN"
  /\ UNCHANGED <<mcu, system_timer, delay, usb, held, bolt, lag, elapsed>>

Reset ==
  /\ pc' = "boot"               /\ ret' = "commands"
  /\ device_state' = "IDLE"     /\ pins' = {}
  /\ doorsense_last' = "OPEN"   /\ doorsense_current' = "OPEN"
  /\ system_timer' = Zero       /\ timerLo' = 0
  /\ delay' = 0                 /\ lag' = 0
  /\ elapsed' = 0               /\ rx' = << >>
  /\ ready' = FALSE             /\ torn' = FALSE
  /\ held' = FALSE
  /\ UNCHANGED <<door, bolt>>

Environment ==
  \/ \E c \in Command : HostSend(c)
  \/ LinkChanges \/ LinkLost \/ DoorMoves \/ Reset

Next == Main \/ Tick \/ Preempt \/ Return \/ Environment

Spec == Init /\ [][Next]_vars

(***************************************************************************)
(* The timer keeps running, and the main program executes an instruction   *)
(* between any two interrupts that return (the AVR does); that they do is  *)
(* not assumed, and nothing of the environment is bound to happen.         *)
(***************************************************************************)
FairSpec == Spec /\ SF_vars(Main) /\ WF_vars(Tick)

-----------------------------------------------------------------------------
(* Every variable has its type. *)
TypeOK ==
  /\ pc \in Labels
  /\ ret \in {"edge", "timeout", "commands"}
  /\ device_state \in {"IDLE", "UNLOCKED"}
  /\ doorsense_last \in {"OPEN", "CLOSED"}
  /\ doorsense_current \in {"OPEN", "CLOSED"}
  /\ system_timer \in [hi : Byte, lo : Byte]
  /\ timerLo \in Byte
  /\ pins \in SUBSET {"LED", "RFIDEN", "DOOROPEN", "DOORCLOSE"}
  /\ delay \in 0 .. DOOR_RELAY_PULSE_MS
  /\ rx \in Seq(Command) /\ Len(rx) <= RxSize
  /\ ready \in BOOLEAN /\ torn \in BOOLEAN /\ held \in BOOLEAN
  /\ door \in {"OPEN", "CLOSED"}
  /\ bolt \in {"locked", "unlocked"}
  /\ lag \in 0 .. MaxLag
  /\ elapsed \in Nat

(***************************************************************************)
(* Each relay is energised exactly while its routine sits in its delay, so *)
(* the two are never energised together and none is left energised,        *)
(* whatever the order of commands, timeouts and door movements.            *)
(***************************************************************************)
RelayDiscipline ==
  /\ "DOOROPEN" \in pins <=> pc = "openPulse"
  /\ "DOORCLOSE" \in pins <=> pc = "closePulse"

(***************************************************************************)
(* Outside the two routines the reader is disabled exactly in UNLOCKED,    *)
(* and UNLOCKED means the bolt has been opened: state, reader and bolt     *)
(* never drift apart.                                                      *)
(***************************************************************************)
InRoutine == pc \in Pulses \cup {"openClearLo", "closeClearLo"}

ReaderFollowsState ==
  ~InRoutine => /\ "RFIDEN" \in pins <=> device_state = "UNLOCKED"
                /\ device_state = "UNLOCKED" => bolt = "unlocked"

(***************************************************************************)
(* The 16-bit timer never reaches its wrap-around, although no test resets *)
(* it: a missed wrap would silently add 65 s to a timeout.                 *)
(***************************************************************************)
TimerLimit == DOOR_CLOSE_TIME_MS - 1 + 2 * MaxLag + DOOR_RELAY_PULSE_MS

TimerNeverWraps ==
  /\ Value(system_timer) <= TimerLimit
  /\ ~InRoutine => elapsed <= Value(system_timer)

(***************************************************************************)
(* An unlocked door is locked again within the open time, two passes of    *)
(* the loop and a relay pulse of the last 'D'.  After a reset, which       *)
(* forgets that the door was unlocked, the close time takes the place of   *)
(* the open time.                                                          *)
(***************************************************************************)
RelockTime ==
  IF device_state = "UNLOCKED" THEN DOOR_OPEN_TIME_MS ELSE DOOR_CLOSE_TIME_MS

RelockDeadline ==
  bolt = "unlocked" /\ pc # "openClearLo"
    => elapsed < RelockTime + 2 * MaxLag + DOOR_RELAY_PULSE_MS

(***************************************************************************)
(* A door seen to close while unlocked does not stay unlocked: if the last *)
(* two samples show a closing edge once the checks are done, the unlocking *)
(* came after them, in the command loop of the same pass.  A door that     *)
(* opens and closes between two samples is not seen.                       *)
(***************************************************************************)
EdgeLocks ==
  pc \in {"commands", "receive", "service"} /\ ClosingEdge
    => elapsed <= DOOR_RELAY_PULSE_MS + MaxLag

(***************************************************************************)
(* The open time is not cut short by more than the two torn accesses can   *)
(* account for: the load (up to a byte) and the clear (up to a byte and    *)
(* the interrupts that fell into it).                                      *)
(***************************************************************************)
TearSlack == 2 * (ByteValues - 1) + MaxLag

TimeoutFires == pc = "timeoutHi" /\ pc' = "closePulse"

NoEarlyTimeout == [][TimeoutFires => elapsed + TearSlack >= DOOR_OPEN_TIME_MS]_vars

(***************************************************************************)
(* What the comments say instead: the door goes back to IDLE "after open   *)
(* timeout" (main.c:98), DOOR_OPEN_TIME_MS after it was opened.            *)
(***************************************************************************)
TimeoutOnTime == [][TimeoutFires => elapsed >= DOOR_OPEN_TIME_MS]_vars

(***************************************************************************)
(* The loop, its interrupt and its timer keep the promises of DoorLock.    *)
(***************************************************************************)
LockMode ==
  CASE pc = "openClearLo" -> "granted"
    [] pc # "openClearLo" /\ device_state = "UNLOCKED" -> "holding"
    [] OTHER -> "resting"

Lock == INSTANCE DoorLock WITH
          Grant      <- "D",
          OpenLimit  <- DOOR_OPEN_TIME_MS + 2 * MaxLag + DOOR_RELAY_PULSE_MS,
          CloseLimit <- DOOR_CLOSE_TIME_MS + 2 * MaxLag + DOOR_RELAY_PULSE_MS,
          mode       <- LockMode,
          age        <- elapsed,
          queue      <- rx,
          stray      <- torn

ImplementsLock == Lock!Spec

(***************************************************************************)
(* As long as the control interrupts return again and again (InterruptsEnd *)
(* of UsbControl says when), the controller gives close pulses for ever,   *)
(* so that no door stays unlocked for ever, unless                         *)
(*   - the host, or what it seems to send, opens the door again and again, *)
(*   - the supply fails again and again, or                                *)
(*   - the loop finds a next command waiting for ever.                     *)
(***************************************************************************)
KeepsClosing ==
  []<>~held =>
    \/ []<>(pc = "closePulse")
    \/ []<>(pc = "openPulse")
    \/ []<>(pc = "boot")
    \/ []<>(pc = "receive") /\ <>[](pc \in {"commands", "receive"})
=============================================================================
