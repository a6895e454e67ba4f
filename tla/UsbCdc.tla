------------------------------- MODULE UsbCdc -------------------------------
(***************************************************************************)
(* The CDC class driver as main.c uses it: the command loop receives bytes *)
(* from the OUT endpoint, a report is sent byte by byte into the IN        *)
(* endpoint, and CDC_Device_USBTask hands what has gathered there to the   *)
(* host.  A routine asks whether the link is ready, selects an endpoint    *)
(* and then uses it, in steps; the session (UsbSession) changes between    *)
(* any two of them.                                                        *)
(*                                                                         *)
(* Bytes are numbered as the device (reports) and the host (commands) sent *)
(* them, so that what is lost, doubled or out of order can be told.        *)
(***************************************************************************)
EXTENDS Naturals, Sequences, UsbSession

CONSTANTS
  BankSize,               \* CDC_TXRX_EPSIZE
  USB_STREAM_TIMEOUT_MS,  \* frames a write waits for the host
  MaxReport,              \* bound: bytes reported
  MaxCommand              \* bound: bytes the host sends

ASSUME CdcAssumption ==
  /\ {"in", "out"} \subseteq DataEndpoints /\ "control" \notin DataEndpoints
  /\ BankSize \in Nat \ {0}
  /\ USB_STREAM_TIMEOUT_MS \in Nat
  /\ MaxReport \in Nat /\ MaxCommand \in Nat

VARIABLES
  pc,         \* place in the main loop
  remaining,  \* TimeoutMSRem
  bank,       \* bytes in the bank of the IN endpoint
  armed,      \* that bank is the host's to fetch
  rx, rxFull, \* the bank of the OUT endpoint, and whether the host filled it
  next,       \* the number of the next byte to report
  got,        \* history: numbers of the bytes the host has read
  lost,       \* history: those whose routine failed, or that were wiped
  nextCommand,  \* the number of the next byte of the host
  taken,      \* history: the commands the loop took
  dropped,    \* history: those wiped
  torn        \* history: a reset or a configuration fell into the routine
              \* of the class driver that runs

inVars   == <<bank, armed, next, got, lost>>
outVars  == <<rx, rxFull, nextCommand, taken, dropped>>
mainVars == <<pc, remaining, torn>>
vars     == <<sessionVars, mainVars, inVars, outVars>>

RangeOf(s) == {s[i] : i \in DOMAIN s}

Init ==
  /\ SessionInit
  /\ pc = "count" /\ remaining = 0 /\ torn = FALSE
  /\ bank = << >> /\ armed = FALSE
  /\ rx = << >> /\ rxFull = FALSE
  /\ next = 1 /\ got = {} /\ lost = {}
  /\ nextCommand = 1 /\ taken = {} /\ dropped = {}

-----------------------------------------------------------------------------
(* The flags and banks of the selected endpoint.  After a reset that is    *)
(* the control endpoint, whose flags may say anything.                     *)
Outcomes(e, b) == IF selection = e THEN {b} ELSE BOOLEAN

OutReceived == Outcomes("out", enabled /\ rxFull)
InReady     == Outcomes("in", enabled /\ ~armed)
HasRoom     == Outcomes("in", enabled /\ ~armed /\ Len(bank) < BankSize)

(* A bank that is the host's already is not sent again; one that it has    *)
(* just emptied is, with nothing in it.                                    *)
ClearIN  == armed' = IF selection = "in" THEN enabled ELSE armed
ClearOUT == rxFull' = (rxFull /\ selection # "out")

(* What every routine of the class driver asks first. *)
Ready == link = "configured" /\ lineEncoding

(* The main program runs outside the interrupts. *)
Main(p) == pc = p /\ ~inside

Enter(p, ok, no) ==
  /\ Main(p)
  /\ pc' = IF Ready THEN ok ELSE no
  /\ torn' = FALSE
  /\ UNCHANGED <<sessionVars, remaining, inVars, outVars>>

SelectAt(p, e, to) ==
  /\ Main(p)
  /\ MainSelects /\ selection' = e
  /\ pc' = to
  /\ UNCHANGED <<remaining, torn, inVars, outVars>>

Step(p, to) == Main(p) /\ pc' = to /\ UNCHANGED <<sessionVars, torn>>

-----------------------------------------------------------------------------
(* The command loop of main.c: CDC_Device_BytesReceived. *)
Count       == Enter("count", "countSelect", "report")
CountSelect == SelectAt("countSelect", "out", "countTest")

(* An empty packet is acknowledged here. *)
CountTest ==
  /\ \/ Step("countTest", "report") /\ FALSE \in OutReceived /\ UNCHANGED rxFull
     \/ Step("countTest", "take") /\ TRUE \in OutReceived
        /\ (selection = "out" => rx # << >>) /\ UNCHANGED rxFull
     \/ Step("countTest", "report") /\ TRUE \in OutReceived
        /\ (selection = "out" => rx = << >>) /\ ClearOUT
  /\ UNCHANGED <<remaining, inVars, rx, nextCommand, taken, dropped>>

(* CDC_Device_ReceiveByte.  Without a byte it returns -1, which no case of *)
(* the switch is for.                                                      *)
Take == Enter("take", "takeSelect", "count")

(* Mutant: the selection of CDC_Device_BytesReceived is trusted. *)
SelectionTrusted ==
  Step("takeSelect", "takeTest") /\ UNCHANGED <<remaining, inVars, outVars>>

TakeSelect == SelectAt("takeSelect", "out", "takeTest")

TakeTest ==
  /\ \/ Step("takeTest", "count") /\ FALSE \in OutReceived
     \/ Step("takeTest", "takeRead") /\ TRUE \in OutReceived
        /\ (selection = "out" => rx # << >>)
     \/ Step("takeTest", "takeClear") /\ TRUE \in OutReceived
        /\ (selection = "out" => rx = << >>)
  /\ UNCHANGED <<remaining, inVars, outVars>>

(* What a bank that is not there gives is any byte. *)
TakeRead ==
  /\ Step("takeRead", "takeClear")
  /\ IF selection = "out" /\ rx # << >>
       THEN taken' = taken \cup {Head(rx)} /\ rx' = Tail(rx)
       ELSE UNCHANGED <<taken, rx>>
  /\ UNCHANGED <<remaining, inVars, rxFull, nextCommand, dropped>>

(* Mutant: the bank is given back before it is empty. *)
EmptiedEarly == TRUE

Emptied == rx = << >>

(* The bank is given back when it is empty. *)
TakeClear ==
  /\ Step("takeClear", "count")
  /\ IF Emptied THEN ClearOUT ELSE UNCHANGED rxFull
  /\ UNCHANGED <<remaining, inVars, rx, nextCommand, taken, dropped>>

-----------------------------------------------------------------------------
(* A report, fputs: CDC_Device_SendByte for each byte, whatever became of  *)
(* the one before it.                                                      *)
Report ==
  /\ \/ Step("report", "task")
     \/ next <= MaxReport /\ Step("report", "send")
  /\ UNCHANGED <<remaining, inVars, outVars>>

Send ==
  /\ Ready
  /\ Enter("send", "sendSelect", "sendSelect")

(* The byte is not sent, and the caller is told. *)
Failed ==
  /\ lost' = lost \cup {next}
  /\ next' = next + 1
  /\ UNCHANGED <<bank, armed, got>>

SendUnready ==
  /\ ~Ready
  /\ Step("send", "report")
  /\ Failed
  /\ UNCHANGED <<remaining, outVars>>

SendSelect == SelectAt("sendSelect", "in", "sendTest")

(* Endpoint_IsReadWriteAllowed. *)
SendTest ==
  /\ \E room \in HasRoom :
       Step("sendTest", IF room THEN "sendWrite" ELSE "sendClear")
  /\ UNCHANGED <<remaining, inVars, outVars>>

(* The bank goes to the host, and a wait for it begins. *)
ClearAndGo(p, to) ==
  /\ Step(p, to)
  /\ ClearIN
  /\ remaining' = USB_STREAM_TIMEOUT_MS
  /\ UNCHANGED <<bank, next, got, lost, outVars>>

SendClear == ClearAndGo("sendClear", "sendWait")

(***************************************************************************)
(* Endpoint_WaitUntilReady, which the host ends, its departure or the      *)
(* timeout, counted in frames.                                             *)
(***************************************************************************)
Waiting == pc \in {"sendWait", "flushWait"}

WaitDone ==
  /\ TRUE \in InReady
  /\ \/ Step("sendWait", "sendWrite")
     \/ Step("flushWait", "flushEnd")
  /\ UNCHANGED <<remaining, inVars, outVars>>

(* Mutant: the error of the wait is not returned. *)
WaitFailedIgnored ==
  \/ Step("flushWait", "device") /\ UNCHANGED inVars
  \/ Step("sendWait", "sendWrite") /\ UNCHANGED inVars

(* An error of the wait is returned. *)
WaitFailed ==
  \/ Step("flushWait", "device") /\ UNCHANGED inVars
  \/ Step("sendWait", "report") /\ Failed

(* Mutant: the frames are not counted. *)
FrameUncounted ==
  /\ Waiting /\ ~inside
  /\ FALSE \in InReady /\ link # "gone" /\ remaining > 0
  /\ UNCHANGED vars

(* Mutant: the frame after the last is counted too. *)
FrameWraps ==
  /\ Waiting /\ ~inside
  /\ FALSE \in InReady /\ link # "gone"
  /\ remaining' = remaining - 1
  /\ UNCHANGED <<sessionVars, pc, torn, inVars, outVars>>

WaitFrame ==
  /\ Waiting /\ ~inside
  /\ FALSE \in InReady /\ link # "gone" /\ remaining > 0
  /\ remaining' = remaining - 1
  /\ UNCHANGED <<sessionVars, pc, torn, inVars, outVars>>

WaitEnds ==
  /\ FALSE \in InReady
  /\ link = "gone" \/ remaining = 0
  /\ WaitFailed
  /\ UNCHANGED <<remaining, outVars>>

(* Endpoint_Write_8.  A byte written to a bank the host has, or to another *)
(* endpoint, is gone; that is a loss the sender knows only of a torn       *)
(* routine.                                                                *)
SendWrite ==
  /\ Step("sendWrite", "report")
  /\ bank' = IF selection = "in" /\ enabled /\ ~armed /\ Len(bank) < BankSize
               THEN Append(bank, next) ELSE bank
  /\ lost' = IF torn /\ bank' = bank THEN lost \cup {next} ELSE lost
  /\ next' = next + 1
  /\ UNCHANGED <<remaining, armed, got, outVars>>

-----------------------------------------------------------------------------
(* CDC_Device_USBTask and CDC_Device_Flush. *)
Task       == Enter("task", "taskSelect", "device")
TaskSelect == SelectAt("taskSelect", "in", "taskTest")

TaskTest ==
  /\ \E ready \in InReady :
       Step("taskTest", IF ready THEN "flush" ELSE "device")
  /\ UNCHANGED <<remaining, inVars, outVars>>

Flush       == Enter("flush", "flushSelect", "device")
FlushSelect == SelectAt("flushSelect", "in", "flushClear")

FlushNothing ==
  /\ selection = "in" => bank = << >>
  /\ Step("flushClear", "device")
  /\ UNCHANGED <<remaining, inVars, outVars>>

(* A packet as large as the bank is followed by an empty one. *)
FlushPart ==
  /\ selection = "in" => Len(bank) \in 1 .. BankSize - 1
  /\ ClearAndGo("flushClear", "device")

FlushFull ==
  /\ selection = "in" => Len(bank) = BankSize
  /\ ClearAndGo("flushClear", "flushWait")

FlushEnd == ClearAndGo("flushEnd", "device")

(* USB_USBTask, which may begin a request, and round again. *)
Device ==
  /\ Main("device")
  /\ pc' = "count"
  /\ Request \/ UNCHANGED sessionVars
  /\ UNCHANGED <<remaining, torn, inVars, outVars>>

MainStep ==
  \/ Count \/ CountSelect \/ CountTest
  \/ Take \/ TakeSelect \/ TakeTest \/ TakeRead \/ TakeClear
  \/ Report \/ Send \/ SendUnready \/ SendSelect \/ SendTest \/ SendClear
  \/ WaitDone \/ WaitFrame \/ WaitEnds \/ SendWrite
  \/ Task \/ TaskSelect \/ TaskTest
  \/ Flush \/ FlushSelect \/ FlushNothing \/ FlushPart \/ FlushFull \/ FlushEnd
  \/ Device

-----------------------------------------------------------------------------
(* The places of a routine after it has asked whether the link is ready. *)
Routine == {"countSelect", "countTest", "takeSelect", "takeTest", "takeRead",
            "takeClear", "sendSelect", "sendTest", "sendClear", "sendWait",
            "sendWrite", "taskSelect", "taskTest", "flushSelect",
            "flushClear", "flushWait", "flushEnd"}

(* A reset or a configuration wipes the banks of the data endpoints. *)
Wipe ==
  /\ Reset \/ Configure
  /\ lost' = lost \cup RangeOf(bank)
  /\ dropped' = dropped \cup RangeOf(rx)
  /\ bank' = << >> /\ armed' = FALSE
  /\ rx' = << >> /\ rxFull' = FALSE
  /\ torn' = (torn \/ pc \in Routine)
  /\ UNCHANGED <<pc, remaining, next, got, nextCommand, taken>>

(* The rest of what the session does. *)
SessionStep ==
  /\ \/ Request \/ Return \/ StateChanges
     \/ LineEncodingChanges
  /\ UNCHANGED <<mainVars, inVars, outVars>>

(* The host's use of the data endpoints. *)
HostReads ==
  /\ link # "gone" /\ enabled /\ armed
  /\ got' = got \cup RangeOf(bank)
  /\ bank' = << >> /\ armed' = FALSE
  /\ UNCHANGED <<sessionVars, mainVars, outVars, next, lost>>

HostSends ==
  /\ link # "gone" /\ enabled /\ ~rxFull
  /\ \E n \in 0 .. BankSize :
       /\ nextCommand + n <= MaxCommand + 1
       /\ rx' = [i \in 1 .. n |-> nextCommand + i - 1]
       /\ nextCommand' = nextCommand + n
  /\ rxFull' = TRUE
  /\ UNCHANGED <<sessionVars, mainVars, inVars, taken, dropped>>

Next ==
  \/ MainStep
  \/ SessionStep \/ Wipe
  \/ HostReads \/ HostSends

Spec == Init /\ [][Next]_vars

(* The AVR runs the main program between two interrupts; frames come as    *)
(* long as the host is not gone.                                           *)
FairSpec == Spec /\ SF_vars(MainStep)

-----------------------------------------------------------------------------
(* Every variable has its type. *)
TypeOK ==
  /\ link \in Links /\ selection \in Endpoints
  /\ lineEncoding \in BOOLEAN /\ enabled \in BOOLEAN /\ inside \in BOOLEAN
  /\ pc \in Routine \cup {"count", "take", "report", "send", "task", "flush",
                          "device"}
  /\ remaining \in 0 .. USB_STREAM_TIMEOUT_MS
  /\ bank \in Seq(1 .. MaxReport) /\ Len(bank) <= BankSize
  /\ rx \in Seq(1 .. MaxCommand) /\ Len(rx) <= BankSize
  /\ armed \in BOOLEAN /\ rxFull \in BOOLEAN /\ torn \in BOOLEAN
  /\ next \in 1 .. MaxReport + 1 /\ nextCommand \in 1 .. MaxCommand + 1
  /\ got \subseteq 1 .. MaxReport /\ lost \subseteq 1 .. MaxReport
  /\ taken \subseteq 1 .. MaxCommand /\ dropped \subseteq 1 .. MaxCommand

(***************************************************************************)
(* Unless a reset or a new configuration fell into the routine, a byte is  *)
(* read only where the host has put one, and written only into a bank of   *)
(* the IN endpoint that has room for it, although the state was looked at  *)
(* steps before, and requests ran in between.                              *)
(***************************************************************************)
AccessesRight ==
  ~torn =>
    /\ pc = "takeRead" => selection = "out" /\ rx # << >>
    /\ pc = "sendWrite" =>
         selection = "in" /\ enabled /\ ~armed /\ Len(bank) < BankSize

(***************************************************************************)
(* A byte of a report is with the host, on its way, or lost for one of the *)
(* reasons a sender knows: its routine failed or was torn, or a reset or   *)
(* configuration wiped the bank.  None is doubled or overtakes another.    *)
(***************************************************************************)
ReportsAccounted ==
  /\ 1 .. next - 1 = got \cup lost \cup RangeOf(bank)
  /\ got \cap lost = {}
  /\ \A g \in got, i \in DOMAIN bank : g < bank[i]
  /\ \A i, j \in DOMAIN bank : i < j => bank[i] < bank[j]

(***************************************************************************)
(* A command is taken, waits in the bank, or was wiped; none is taken out  *)
(* of order or a second time.                                              *)
(***************************************************************************)
CommandsAccounted ==
  /\ 1 .. nextCommand - 1 = taken \cup dropped \cup RangeOf(rx)
  /\ \A t \in taken, i \in DOMAIN rx : t < rx[i]
  /\ taken \cap dropped = {}

(***************************************************************************)
(* As long as the interrupts return again and again (InterruptsEnd of      *)
(* UsbControl), the main loop goes round for ever: the host may stop       *)
(* reading, vanish or reset the device in the middle of a report.          *)
(***************************************************************************)
LoopRuns == []<>~inside => []<>(pc = "count")
=============================================================================
