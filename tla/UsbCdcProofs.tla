---------------------------- MODULE UsbCdcProofs ----------------------------
(***************************************************************************)
(* The safety properties of UsbCdc for banks, timeouts and runs of any     *)
(* size: what the class driver has looked at holds until it uses it, and   *)
(* no byte of a report or of a command goes astray.                        *)
(***************************************************************************)
EXTENDS UsbCdc, SequenceTheorems, TLAPS

(* A byte of a report is only sent while there is one. *)
SendPlaces == {"send", "sendSelect", "sendTest", "sendClear", "sendWait",
               "sendWrite"}

NextInv == pc \in SendPlaces => next <= MaxReport

(* Where a routine has its endpoint selected. *)
OutPlaces == {"countTest", "takeTest", "takeRead", "takeClear"}
InPlaces  == {"sendTest", "sendClear", "sendWait", "sendWrite"}

(* The bank a write waits for is the host's, empty or gone. *)
PlaceInv ==
  ~torn =>
    /\ pc \in OutPlaces => selection = "out"
    /\ pc \in InPlaces => selection = "in"
    /\ pc = "sendWait" => ~enabled \/ armed \/ bank = << >>

(* A bank that the host has not filled is empty. *)
FilledInv == rxFull \/ rx = << >>

(* What is lost is not on its way, ... *)
LostInv == lost \cap RangeOf(bank) = {}

(* ... nor is what was wiped, and commands wait in the order they came. *)
DroppedInv ==
  /\ dropped \cap RangeOf(rx) = {}
  /\ \A i, j \in DOMAIN rx : i < j => rx[i] < rx[j]

IInv == /\ TypeOK /\ NextInv
        /\ PlaceInv /\ FilledInv /\ AccessesRight
        /\ ReportsAccounted /\ LostInv
        /\ CommandsAccounted /\ DroppedInv

LEMMA ConstantTypes ==
  /\ "in" \in DataEndpoints /\ "out" \in DataEndpoints
  /\ DataEndpoints \subseteq Endpoints
  /\ BankSize \in Nat /\ BankSize > 0 /\ USB_STREAM_TIMEOUT_MS \in Nat
  /\ MaxReport \in Nat /\ MaxCommand \in Nat
BY CdcAssumption DEF CdcAssumption, Endpoints

-----------------------------------------------------------------------------
(* What a step does to the banks. *)

(* The banks of the IN endpoint change by one of these. *)
InStep ==
  \/ UNCHANGED <<bank, next, got, lost>>
  \/ pc \in SendPlaces /\ Failed
  \/ SendWrite
  \/ /\ lost' = lost \cup RangeOf(bank) /\ bank' = << >>
     /\ UNCHANGED <<next, got>>
  \/ /\ got' = got \cup RangeOf(bank) /\ bank' = << >>
     /\ UNCHANGED <<next, lost>>

LEMMA InSteps == ASSUME Next PROVE InStep
<1>1. CASE SendWrite BY <1>1 DEF InStep
<1>2. CASE MainStep /\ ~SendWrite
  <2>1. CASE SendUnready BY <2>1 DEF SendUnready, Step, Main, SendPlaces, InStep
  <2>2. CASE WaitEnds
    BY <2>2 DEF WaitEnds, WaitFailed, Step, Main, SendPlaces, InStep, inVars
  <2>3. CASE Count \/ CountSelect \/ CountTest \/ Take \/ TakeSelect
             \/ TakeTest \/ TakeRead \/ TakeClear \/ Report \/ Send
    BY <2>3 DEF Count, CountSelect, CountTest, Take, TakeSelect, TakeTest,
      TakeRead, TakeClear, Report, Send, Enter, SelectAt, inVars, InStep
  <2>4. CASE SendSelect \/ SendTest \/ SendClear \/ WaitDone \/ WaitFrame
             \/ Task \/ TaskSelect \/ TaskTest \/ Flush \/ FlushSelect
    BY <2>4 DEF SendSelect, SendTest, SendClear, WaitDone, WaitFrame, Task,
      TaskSelect, TaskTest, Flush, FlushSelect, Enter, SelectAt, ClearAndGo,
      inVars, InStep
  <2>5. CASE FlushNothing \/ FlushPart \/ FlushFull \/ FlushEnd \/ Device
    BY <2>5 DEF FlushNothing, FlushPart, FlushFull, FlushEnd, Device,
      ClearAndGo, inVars, InStep
  <2>6. QED BY <1>2, <2>1, <2>2, <2>3, <2>4, <2>5 DEF MainStep
<1>3. CASE SessionStep BY <1>3 DEF SessionStep, inVars, InStep
<1>4. CASE Wipe BY <1>4 DEF Wipe, InStep
<1>5. CASE HostReads BY <1>5 DEF HostReads, InStep
<1>6. CASE HostSends BY <1>6 DEF HostSends, inVars, InStep
<1>7. QED BY <1>1, <1>2, <1>3, <1>4, <1>5, <1>6 DEF Next

(* The bank of the OUT endpoint changes by one of these. *)
OutStep ==
  \/ UNCHANGED outVars
  \/ CountTest \/ TakeRead \/ TakeClear
  \/ /\ dropped' = dropped \cup RangeOf(rx) /\ rx' = << >> /\ rxFull' = FALSE
     /\ UNCHANGED <<nextCommand, taken>>
  \/ HostSends

LEMMA OutSteps == ASSUME Next PROVE OutStep
<1>1. CASE CountTest \/ TakeRead \/ TakeClear BY <1>1 DEF OutStep
<1>2. CASE MainStep /\ ~(CountTest \/ TakeRead \/ TakeClear)
  <2>1. CASE Count \/ CountSelect \/ Take \/ TakeSelect \/ TakeTest \/ Report
             \/ Send \/ SendUnready \/ SendSelect \/ SendTest \/ SendClear
    BY <2>1 DEF Count, CountSelect, Take, TakeSelect, TakeTest, Report, Send,
      SendUnready, SendSelect, SendTest, SendClear, Enter, SelectAt,
      ClearAndGo, OutStep
  <2>2. CASE WaitDone \/ WaitFrame \/ WaitEnds \/ SendWrite \/ Task
             \/ TaskSelect \/ TaskTest \/ Flush \/ FlushSelect
    BY <2>2 DEF WaitDone, WaitFrame, WaitEnds, SendWrite, Task, TaskSelect,
      TaskTest, Flush, FlushSelect, Enter, SelectAt, OutStep
  <2>3. CASE FlushNothing \/ FlushPart \/ FlushFull \/ FlushEnd \/ Device
    BY <2>3 DEF FlushNothing, FlushPart, FlushFull, FlushEnd, Device,
      ClearAndGo, OutStep
  <2>4. QED BY <1>2, <2>1, <2>2, <2>3 DEF MainStep
<1>3. CASE SessionStep BY <1>3 DEF SessionStep, OutStep
<1>4. CASE Wipe BY <1>4 DEF Wipe, OutStep
<1>5. CASE HostReads BY <1>5 DEF HostReads, OutStep
<1>6. CASE HostSends BY <1>6 DEF OutStep
<1>7. QED BY <1>1, <1>2, <1>3, <1>4, <1>5, <1>6 DEF Next

-----------------------------------------------------------------------------
(* Sequences of numbers. *)
LEMMA RangeType ==
  ASSUME NEW S, NEW q \in Seq(S)
  PROVE  RangeOf(q) \subseteq S
BY DEF RangeOf

LEMMA RangeEmpty == RangeOf(<< >>) = {}
BY DEF RangeOf

LEMMA Appended ==
  ASSUME NEW S, NEW q \in Seq(S), NEW e \in S
  PROVE  /\ Append(q, e) \in Seq(S)
         /\ Len(Append(q, e)) = Len(q) + 1
         /\ DOMAIN Append(q, e) = 1 .. Len(q) + 1
         /\ DOMAIN q = 1 .. Len(q)
         /\ \A i \in 1 .. Len(q) : Append(q, e)[i] = q[i]
         /\ Append(q, e)[Len(q) + 1] = e
         /\ Append(q, e) # q
         /\ RangeOf(Append(q, e)) = RangeOf(q) \cup {e}
<1>1. PICK n \in Nat : n = Len(q)
  OBVIOUS
<1>2. /\ Append(q, e) \in Seq(S)
      /\ Len(Append(q, e)) = n + 1
      /\ DOMAIN Append(q, e) = 1 .. n + 1
      /\ DOMAIN q = 1 .. n
      /\ \A i \in 1 .. n : Append(q, e)[i] = q[i]
      /\ Append(q, e)[n + 1] = e
  BY <1>1
<1>3. Append(q, e) # q
  BY <1>1, <1>2
<1>4. 1 .. n + 1 = (1 .. n) \cup {n + 1}
  OBVIOUS
<1>5. RangeOf(Append(q, e)) = RangeOf(q) \cup {e}
  BY <1>2, <1>4, Zenon DEF RangeOf
<1>6. QED BY <1>1, <1>2, <1>3, <1>5

LEMMA Tailed ==
  ASSUME NEW S, NEW q \in Seq(S), q # << >>
  PROVE  /\ Tail(q) \in Seq(S) /\ Head(q) \in S
         /\ Len(q) \in Nat \ {0} /\ Len(Tail(q)) = Len(q) - 1
         /\ DOMAIN Tail(q) = 1 .. Len(q) - 1
         /\ DOMAIN q = 1 .. Len(q)
         /\ Head(q) = q[1]
         /\ \A i \in 1 .. Len(q) - 1 : Tail(q)[i] = q[i + 1]
         /\ RangeOf(q) = {Head(q)} \cup RangeOf(Tail(q))
<1>1. PICK n \in Nat : n = Len(q)
  OBVIOUS
<1>2. n > 0
  BY <1>1, EmptySeq
<1>3. /\ Tail(q) \in Seq(S) /\ Head(q) \in S
      /\ Len(Tail(q)) = n - 1
      /\ DOMAIN Tail(q) = 1 .. n - 1
      /\ DOMAIN q = 1 .. n
      /\ Head(q) = q[1]
      /\ \A i \in 1 .. n - 1 : Tail(q)[i] = q[i + 1]
  BY <1>1, <1>2
<1>4. RangeOf(q) = {Head(q)} \cup RangeOf(Tail(q))
  <2>1. ASSUME NEW i \in 1 .. n
        PROVE  q[i] \in {Head(q)} \cup RangeOf(Tail(q))
    <3>1. CASE i = 1 BY <3>1, <1>3
    <3>2. CASE i # 1
      <4>1. i - 1 \in 1 .. n - 1 /\ (i - 1) + 1 = i
        BY <3>2
      <4>2. QED BY <4>1, <1>3 DEF RangeOf
    <3>3. QED BY <3>1, <3>2
  <2>2. \A i \in 1 .. n - 1 : i + 1 \in 1 .. n
    OBVIOUS
  <2>3. 1 \in 1 .. n
    BY <1>2
  <2>4. {Head(q)} \cup RangeOf(Tail(q)) \subseteq RangeOf(q)
    BY <1>3, <2>2, <2>3 DEF RangeOf
  <2>5. RangeOf(q) \subseteq {Head(q)} \cup RangeOf(Tail(q))
    BY <1>3, <2>1 DEF RangeOf
  <2>6. QED BY <2>4, <2>5
<1>5. QED BY <1>1, <1>2, <1>3, <1>4

(* What the host puts in the bank: n numbers from m on. *)
LEMMA Numbered ==
  ASSUME NEW m \in Nat, m > 0, NEW n \in Nat, NEW k \in Nat, m + n <= k + 1,
         NEW q, q = [i \in 1 .. n |-> m + i - 1]
  PROVE  /\ q \in Seq(1 .. k) /\ Len(q) = n /\ DOMAIN q = 1 .. n
         /\ \A i \in 1 .. n : q[i] = m + i - 1
         /\ RangeOf(q) = m .. m + n - 1
<1>1. \A i \in 1 .. n : q[i] = m + i - 1 /\ q[i] \in 1 .. k
  OBVIOUS
<1>2. q \in Seq(1 .. k) /\ Len(q) = n /\ DOMAIN q = 1 .. n
  BY <1>1
<1>3. RangeOf(q) \subseteq m .. m + n - 1
  BY <1>1, <1>2 DEF RangeOf
<1>4. ASSUME NEW j \in m .. m + n - 1 PROVE j \in RangeOf(q)
  <2>1. j - m + 1 \in 1 .. n /\ m + (j - m + 1) - 1 = j
    OBVIOUS
  <2>2. QED BY <2>1, <1>1, <1>2 DEF RangeOf
<1>5. QED BY <1>1, <1>2, <1>3, <1>4

-----------------------------------------------------------------------------
(* The reports. *)
InTypes ==
  /\ bank \in Seq(1 .. MaxReport) /\ Len(bank) <= BankSize
  /\ next \in 1 .. MaxReport + 1
  /\ got \subseteq 1 .. MaxReport /\ lost \subseteq 1 .. MaxReport

LEMMA InTypesStep == ASSUME IInv, InStep PROVE InTypes'
<1> USE ConstantTypes
<1>1. InTypes /\ NextInv
  BY DEF IInv, TypeOK, InTypes
<1>2. RangeOf(bank) \subseteq 1 .. MaxReport
  BY <1>1, RangeType DEF InTypes
<1>3. << >> \in Seq(1 .. MaxReport) /\ Len(<< >>) <= BankSize
  OBVIOUS
<1>4. CASE UNCHANGED <<bank, next, got, lost>>
  BY <1>1, <1>4 DEF InTypes
<1>5. CASE pc \in SendPlaces /\ Failed
  BY <1>1, <1>5 DEF InTypes, Failed, NextInv
<1>6. CASE SendWrite
  <2>1. next \in 1 .. MaxReport /\ next + 1 \in 1 .. MaxReport + 1
    BY <1>1, <1>6 DEF SendWrite, Step, Main, NextInv, SendPlaces, InTypes
  <2>2. \/ bank' = bank
        \/ bank' = Append(bank, next) /\ Len(bank) < BankSize
    BY <1>6 DEF SendWrite
  <2>3. bank' \in Seq(1 .. MaxReport) /\ Len(bank') <= BankSize
    <3>1. CASE bank' = bank BY <3>1, <1>1 DEF InTypes
    <3>2. CASE bank' = Append(bank, next) /\ Len(bank) < BankSize
      <4>1. bank' \in Seq(1 .. MaxReport) /\ Len(bank') = Len(bank) + 1
        BY <3>2, <2>1, <1>1, Appended DEF InTypes
      <4>2. PICK n \in Nat : n = Len(bank)
        BY <1>1 DEF InTypes
      <4>3. QED BY <3>2, <4>1, <4>2
    <3>3. QED BY <2>2, <3>1, <3>2
  <2>4. lost' \subseteq lost \cup {next} /\ got' = got /\ next' = next + 1
    BY <1>6 DEF SendWrite
  <2>5. QED BY <1>1, <2>1, <2>3, <2>4 DEF InTypes
<1>7. CASE /\ lost' = lost \cup RangeOf(bank) /\ bank' = << >>
           /\ UNCHANGED <<next, got>>
  BY <1>1, <1>2, <1>3, <1>7 DEF InTypes
<1>8. CASE /\ got' = got \cup RangeOf(bank) /\ bank' = << >>
           /\ UNCHANGED <<next, lost>>
  BY <1>1, <1>2, <1>3, <1>8 DEF InTypes
<1>9. QED BY <1>4, <1>5, <1>6, <1>7, <1>8 DEF InStep

LEMMA ReportsStep ==
  ASSUME IInv, InStep
  PROVE  (ReportsAccounted /\ LostInv)'
<1> USE ConstantTypes
<1>1. /\ InTypes /\ NextInv /\ AccessesRight /\ ReportsAccounted /\ LostInv
      /\ RangeOf(bank) \subseteq 1 .. MaxReport
  BY RangeType DEF IInv, TypeOK, InTypes
<1>2. /\ 1 .. next - 1 = got \cup lost \cup RangeOf(bank)
      /\ got \cap lost = {} /\ lost \cap RangeOf(bank) = {}
      /\ got \cap RangeOf(bank) = {}
      /\ next \in Nat
  <2>1. /\ \A g \in got, i \in DOMAIN bank : g < bank[i]
        /\ got \subseteq Nat
    BY <1>1 DEF ReportsAccounted, InTypes
  <2>2. ASSUME NEW g \in got, NEW i \in DOMAIN bank, g = bank[i]
        PROVE  FALSE
    <3>1. g < g /\ g \in Nat
      BY <2>1, <2>2
    <3>2. QED BY <3>1
  <2>3. got \cap RangeOf(bank) = {}
    BY <2>2 DEF RangeOf
  <2>4. QED BY <1>1, <2>3 DEF ReportsAccounted, LostInv, InTypes
<1>3. DOMAIN << >> = {} /\ RangeOf(<< >>) = {}
  BY RangeEmpty
<1>4. /\ 1 .. (next + 1) - 1 = (1 .. next - 1) \cup {next}
      /\ next \notin 1 .. next - 1
  <2>1. next \in Nat /\ next >= 1
    BY <1>1 DEF InTypes
  <2>2. QED BY <2>1
<1>5. CASE UNCHANGED <<bank, next, got, lost>>
  BY <1>1, <1>5 DEF ReportsAccounted, LostInv, RangeOf
<1>6. CASE /\ bank' = bank /\ got' = got /\ next' = next + 1
           /\ lost' = lost \cup {next}
  <2>1. 1 .. next' - 1 = got' \cup lost' \cup RangeOf(bank')
    BY <1>2, <1>4, <1>6
  <2>2. got' \cap lost' = {} /\ lost' \cap RangeOf(bank') = {}
    BY <1>2, <1>4, <1>6
  <2>3. QED BY <1>1, <1>6, <2>1, <2>2 DEF ReportsAccounted, LostInv, RangeOf
<1>7. CASE SendWrite
  <2>1. got' = got /\ next' = next + 1 /\ pc = "sendWrite"
    BY <1>7 DEF SendWrite, Step, Main
  <2>2. next \in 1 .. MaxReport /\ bank \in Seq(1 .. MaxReport)
    BY <1>1, <2>1 DEF NextInv, SendPlaces, InTypes
  <2>3. CASE bank' = bank
    <3>1. torn
      <4>1. CASE ~torn
        <5>1. bank' = Append(bank, next)
          BY <4>1, <1>1, <1>7, <2>1 DEF SendWrite, AccessesRight
        <5>2. Append(bank, next) # bank
          BY <2>2, Appended
        <5>3. QED BY <5>1, <5>2, <2>3
      <4>2. QED BY <4>1
    <3>2. lost' = lost \cup {next}
      BY <3>1, <1>7, <2>3 DEF SendWrite
    <3>3. QED BY <1>6, <2>1, <2>3, <3>2
  <2>4. CASE bank' # bank
    <3>1. bank' = Append(bank, next) /\ lost' = lost
      BY <1>7, <2>4 DEF SendWrite
    <3>2. PICK n \in Nat : n = Len(bank)
      BY <2>2
    <3>3. /\ DOMAIN bank' = 1 .. n + 1 /\ DOMAIN bank = 1 .. n
          /\ \A i \in 1 .. n : bank'[i] = bank[i]
          /\ bank'[n + 1] = next
          /\ RangeOf(bank') = RangeOf(bank) \cup {next}
      BY <3>1, <3>2, <2>2, Appended
    <3>4. 1 .. next' - 1 = got' \cup lost' \cup RangeOf(bank')
      BY <1>2, <1>4, <2>1, <3>1, <3>3
    <3>5. got' \cap lost' = {} /\ lost' \cap RangeOf(bank') = {}
      BY <1>2, <1>4, <2>1, <3>1, <3>3
    <3>6. \A i \in 1 .. n : bank[i] \in 1 .. next - 1
      BY <1>2, <3>3 DEF RangeOf
    <3>7. \A g \in got : g \in 1 .. next - 1
      BY <1>2
    <3>8. ASSUME NEW g \in got', NEW i \in DOMAIN bank'
          PROVE  g < bank'[i]
      <4>1. CASE i = n + 1
        BY <4>1, <2>1, <3>3, <3>7, <1>2
      <4>2. CASE i \in 1 .. n
        BY <4>2, <2>1, <3>3, <1>1 DEF ReportsAccounted
      <4>3. QED BY <3>3, <4>1, <4>2
    <3>9. ASSUME NEW i \in DOMAIN bank', NEW j \in DOMAIN bank', i < j
          PROVE  bank'[i] < bank'[j]
      <4>1. i \in 1 .. n
        BY <3>2, <3>3, <3>9
      <4>2. CASE j = n + 1
        BY <4>1, <4>2, <3>3, <3>6, <1>2
      <4>3. CASE j \in 1 .. n
        BY <4>1, <4>3, <3>3, <3>9, <1>1 DEF ReportsAccounted
      <4>4. QED BY <3>3, <4>2, <4>3
    <3>10. QED BY <3>4, <3>5, <3>8, <3>9 DEF ReportsAccounted, LostInv
  <2>5. QED BY <2>3, <2>4
<1>8. CASE /\ lost' = lost \cup RangeOf(bank) /\ bank' = << >>
           /\ UNCHANGED <<next, got>>
  BY <1>2, <1>3, <1>8 DEF ReportsAccounted, LostInv
<1>9. CASE /\ got' = got \cup RangeOf(bank) /\ bank' = << >>
           /\ UNCHANGED <<next, lost>>
  BY <1>2, <1>3, <1>9 DEF ReportsAccounted, LostInv
<1>10. CASE Failed
  BY <1>6, <1>10 DEF Failed
<1>11. QED BY <1>5, <1>7, <1>8, <1>9, <1>10 DEF InStep

-----------------------------------------------------------------------------
(* The commands. *)
OutTypes ==
  /\ rx \in Seq(1 .. MaxCommand) /\ Len(rx) <= BankSize
  /\ rxFull \in BOOLEAN
  /\ nextCommand \in 1 .. MaxCommand + 1
  /\ taken \subseteq 1 .. MaxCommand /\ dropped \subseteq 1 .. MaxCommand

OutInv == OutTypes /\ FilledInv /\ CommandsAccounted /\ DroppedInv

LEMMA CommandsStep == ASSUME OutInv, OutStep PROVE OutInv'
<1> USE ConstantTypes
<1>1. OutTypes /\ FilledInv /\ CommandsAccounted /\ DroppedInv
  BY DEF OutInv
<1>2. /\ nextCommand \in Nat /\ nextCommand > 0
      /\ taken \subseteq Nat /\ dropped \subseteq Nat
      /\ RangeOf(rx) \subseteq 1 .. MaxCommand
      /\ 1 .. nextCommand - 1 = taken \cup dropped \cup RangeOf(rx)
      /\ taken \cap dropped = {} /\ dropped \cap RangeOf(rx) = {}
      /\ taken \cap RangeOf(rx) = {}
  <2>1. /\ taken \subseteq Nat
        /\ \A t \in taken, i \in DOMAIN rx : t < rx[i]
    BY <1>1 DEF OutTypes, CommandsAccounted
  <2>2. ASSUME NEW t \in taken, NEW i \in DOMAIN rx, t = rx[i]
        PROVE  FALSE
    <3>1. t < t /\ t \in Nat
      BY <2>1, <2>2
    <3>2. QED BY <3>1
  <2>3. taken \cap RangeOf(rx) = {}
    BY <2>2 DEF RangeOf
  <2>4. RangeOf(rx) \subseteq 1 .. MaxCommand
    BY <1>1, RangeType DEF OutTypes
  <2>5. QED BY <1>1, <2>3, <2>4 DEF OutTypes, CommandsAccounted, DroppedInv
<1>3. /\ DOMAIN << >> = {} /\ RangeOf(<< >>) = {}
      /\ << >> \in Seq(1 .. MaxCommand) /\ Len(<< >>) <= BankSize
  BY RangeEmpty
<1>4. CASE UNCHANGED outVars
  BY <1>1, <1>4 DEF outVars, OutInv, OutTypes, FilledInv, CommandsAccounted,
    DroppedInv, RangeOf
<1>5. CASE /\ rxFull' \in BOOLEAN /\ (rxFull' \/ rx = << >>)
           /\ UNCHANGED <<rx, nextCommand, taken, dropped>>
  BY <1>1, <1>5 DEF OutInv, OutTypes, FilledInv, CommandsAccounted,
    DroppedInv, RangeOf
<1>6. CASE CountTest
  <2>1. UNCHANGED <<rx, nextCommand, taken, dropped>>
    BY <1>6 DEF CountTest
  <2>2. \/ UNCHANGED rxFull
        \/ (selection = "out" => rx = << >>) /\ ClearOUT
    BY <1>6 DEF CountTest
  <2>3. rxFull' \in BOOLEAN /\ (rxFull' \/ rx = << >>)
    BY <1>1, <2>2 DEF ClearOUT, OutTypes, FilledInv
  <2>4. QED BY <1>5, <2>1, <2>3
<1>7. CASE TakeClear
  <2>1. UNCHANGED <<rx, nextCommand, taken, dropped>>
    BY <1>7 DEF TakeClear
  <2>2. \/ UNCHANGED rxFull
        \/ rx = << >> /\ ClearOUT
    BY <1>7 DEF TakeClear, Emptied
  <2>3. rxFull' \in BOOLEAN /\ (rxFull' \/ rx = << >>)
    BY <1>1, <2>2 DEF ClearOUT, OutTypes, FilledInv
  <2>4. QED BY <1>5, <2>1, <2>3
<1>8. CASE TakeRead
  <2>1. UNCHANGED <<rxFull, nextCommand, dropped>>
    BY <1>8 DEF TakeRead
  <2>2. CASE selection = "out" /\ rx # << >>
    <3>1. taken' = taken \cup {Head(rx)} /\ rx' = Tail(rx)
      BY <1>8, <2>2 DEF TakeRead
    <3>2. PICK n \in Nat : n = Len(rx)
      BY <1>1 DEF OutTypes
    <3>3. /\ rx' \in Seq(1 .. MaxCommand) /\ Head(rx) \in 1 .. MaxCommand
          /\ n > 0 /\ Len(rx') = n - 1
          /\ DOMAIN rx' = 1 .. n - 1 /\ DOMAIN rx = 1 .. n
          /\ Head(rx) = rx[1]
          /\ \A i \in 1 .. n - 1 : rx'[i] = rx[i + 1]
          /\ RangeOf(rx) = {Head(rx)} \cup RangeOf(rx')
      <4>1. rx \in Seq(1 .. MaxCommand)
        BY <1>1 DEF OutTypes
      <4>2. QED BY <2>2, <3>1, <3>2, <4>1, Tailed
    <3>4. OutTypes' /\ FilledInv'
      <4>1. rxFull
        BY <1>1, <2>2 DEF FilledInv
      <4>2. Len(rx') <= BankSize
        BY <1>1, <3>2, <3>3 DEF OutTypes
      <4>3. QED BY <1>1, <2>1, <3>1, <3>3, <4>1, <4>2 DEF OutTypes, FilledInv
    <3>5. /\ 1 .. nextCommand' - 1 = taken' \cup dropped' \cup RangeOf(rx')
          /\ taken' \cap dropped' = {}
          /\ dropped' \cap RangeOf(rx') = {}
      BY <1>2, <2>1, <3>1, <3>3
    <3>6. \A i, j \in 1 .. n : i < j => rx[i] < rx[j]
      BY <1>1, <3>3 DEF DroppedInv
    <3>7. ASSUME NEW t \in taken', NEW i \in DOMAIN rx' PROVE t < rx'[i]
      <4>1. i \in 1 .. n - 1 /\ i + 1 \in 1 .. n /\ 1 \in 1 .. n /\ 1 < i + 1
        BY <3>2, <3>3
      <4>2. rx'[i] = rx[i + 1]
        BY <3>3, <4>1
      <4>3. CASE t = Head(rx)
        BY <3>3, <3>6, <4>1, <4>2, <4>3
      <4>4. CASE t \in taken
        BY <1>1, <3>3, <4>1, <4>2, <4>4 DEF CommandsAccounted
      <4>5. QED BY <3>1, <4>3, <4>4
    <3>8. ASSUME NEW i \in DOMAIN rx', NEW j \in DOMAIN rx', i < j
          PROVE  rx'[i] < rx'[j]
      <4>1. /\ i + 1 \in 1 .. n /\ j + 1 \in 1 .. n /\ i + 1 < j + 1
            /\ i \in 1 .. n - 1 /\ j \in 1 .. n - 1
        BY <3>2, <3>3, <3>8
      <4>2. QED BY <3>3, <3>6, <4>1
    <3>9. QED
      BY <3>4, <3>5, <3>7, <3>8 DEF OutInv, CommandsAccounted, DroppedInv
  <2>3. CASE ~(selection = "out" /\ rx # << >>)
    <3>1. UNCHANGED <<taken, rx>>
      BY <1>8, <2>3, Zenon DEF TakeRead
    <3>2. QED BY <1>1, <1>5, <2>1, <3>1 DEF OutTypes, FilledInv
  <2>4. QED BY <2>2, <2>3
<1>9. CASE /\ dropped' = dropped \cup RangeOf(rx) /\ rx' = << >>
           /\ rxFull' = FALSE /\ UNCHANGED <<nextCommand, taken>>
  <2>1. OutTypes' /\ FilledInv'
    BY <1>1, <1>2, <1>3, <1>9 DEF OutTypes, FilledInv
  <2>2. CommandsAccounted' /\ DroppedInv'
    BY <1>2, <1>3, <1>9 DEF CommandsAccounted, DroppedInv
  <2>3. QED BY <2>1, <2>2 DEF OutInv
<1>10. CASE HostSends
  <2>1. PICK n \in 0 .. BankSize :
          /\ nextCommand + n <= MaxCommand + 1
          /\ rx' = [i \in 1 .. n |-> nextCommand + i - 1]
          /\ nextCommand' = nextCommand + n
    BY <1>10 DEF HostSends
  <2>2. rxFull' = TRUE /\ UNCHANGED <<taken, dropped>> /\ rx = << >>
    BY <1>1, <1>10 DEF HostSends, FilledInv
  <2>3. /\ rx' \in Seq(1 .. MaxCommand) /\ Len(rx') = n /\ DOMAIN rx' = 1 .. n
        /\ \A i \in 1 .. n : rx'[i] = nextCommand + i - 1
        /\ RangeOf(rx') = nextCommand .. nextCommand + n - 1
    BY <1>2, <2>1, Numbered
  <2>4. OutTypes' /\ FilledInv'
    <3>1. nextCommand' \in 1 .. MaxCommand + 1
      BY <1>2, <2>1
    <3>2. QED BY <1>1, <2>1, <2>2, <2>3, <3>1 DEF OutTypes, FilledInv
  <2>5. 1 .. nextCommand - 1 = taken \cup dropped
    BY <1>2, <1>3, <2>2
  <2>6. 1 .. nextCommand' - 1 = taken' \cup dropped' \cup RangeOf(rx')
    <3>1. 1 .. (nextCommand + n) - 1
            = (1 .. nextCommand - 1) \cup (nextCommand .. nextCommand + n - 1)
      BY <1>2
    <3>2. QED BY <2>1, <2>2, <2>3, <2>5, <3>1
  <2>7. \A t \in taken \cup dropped : t \in Nat /\ t < nextCommand
    BY <1>2, <2>5
  <2>8. \A t \in taken', i \in DOMAIN rx' : t < rx'[i]
    BY <1>2, <2>2, <2>3, <2>7
  <2>9. dropped' \cap RangeOf(rx') = {}
    BY <1>2, <2>2, <2>3, <2>7
  <2>10. \A i, j \in DOMAIN rx' : i < j => rx'[i] < rx'[j]
    BY <1>2, <2>3
  <2>11. QED
    BY <1>2, <2>2, <2>4, <2>6, <2>8, <2>9, <2>10
      DEF OutInv, CommandsAccounted, DroppedInv
<1>11. QED BY <1>4, <1>6, <1>7, <1>8, <1>9, <1>10 DEF OutStep

-----------------------------------------------------------------------------
(* The main program. *)
MainTypes ==
  /\ link \in Links /\ selection \in Endpoints
  /\ lineEncoding \in BOOLEAN /\ enabled \in BOOLEAN /\ inside \in BOOLEAN
  /\ pc \in Routine \cup {"count", "take", "report", "send", "task", "flush",
                          "device"}
  /\ remaining \in 0 .. USB_STREAM_TIMEOUT_MS
  /\ armed \in BOOLEAN /\ torn \in BOOLEAN

MainInv == MainTypes /\ NextInv /\ PlaceInv /\ AccessesRight

(* A routine begins, and nothing has fallen into it. *)
LEMMA EnterStep ==
  ASSUME NEW p, NEW ok, NEW no, MainInv, Enter(p, ok, no),
         {ok, no} \subseteq (Routine \cup {"count", "take", "report", "send",
           "task", "flush", "device"}) \ (OutPlaces \cup InPlaces),
         ok \in SendPlaces => p = "send", no \notin SendPlaces
  PROVE  MainInv'
<1>1. /\ pc = p /\ pc' \in {ok, no} /\ torn' = FALSE
      /\ pc' = ok \/ pc' = no
      /\ UNCHANGED <<link, lineEncoding, enabled, selection, inside, remaining,
                     armed, next>>
  BY DEF Enter, Main, sessionVars, inVars
<1>2. MainTypes'
  BY <1>1 DEF MainInv, MainTypes
<1>3. NextInv'
  BY <1>1 DEF MainInv, NextInv, SendPlaces
<1>4. (PlaceInv /\ AccessesRight)'
  BY <1>1 DEF PlaceInv, AccessesRight, OutPlaces, InPlaces
<1>5. QED BY <1>2, <1>3, <1>4 DEF MainInv

(* An endpoint is selected: the places after it are not yet those of use. *)
LEMMA SelectStep ==
  ASSUME NEW p, NEW e, NEW to, MainInv, SelectAt(p, e, to),
         \/ e = "out" /\ to \in {"countTest", "takeTest"}
         \/ e = "in" /\ to = "sendTest" /\ p = "sendSelect"
         \/ e = "in" /\ to \in {"taskTest", "flushClear"}
  PROVE  MainInv'
<1>1. /\ pc = p /\ pc' = to /\ selection' = e
      /\ e \in {"in", "out"}
      /\ UNCHANGED <<link, lineEncoding, enabled, inside, remaining,
                     armed, next, torn, bank, rx>>
  BY DEF SelectAt, Main, MainSelects, inVars, outVars
<1>2. MainTypes'
  BY <1>1, ConstantTypes DEF MainInv, MainTypes, Routine
<1>3. NextInv'
  BY <1>1 DEF MainInv, NextInv, SendPlaces
<1>4. (PlaceInv /\ AccessesRight)'
  BY <1>1 DEF PlaceInv, AccessesRight, OutPlaces, InPlaces
<1>5. QED BY <1>2, <1>3, <1>4 DEF MainInv

LEMMA MainStepInv == ASSUME MainInv, OutInv, MainStep PROVE MainInv'
<1>0. /\ MainTypes /\ NextInv /\ PlaceInv /\ AccessesRight
      /\ USB_STREAM_TIMEOUT_MS \in Nat
  BY ConstantTypes DEF MainInv
<1>1. CASE Count \/ Take \/ Send \/ Task \/ Flush
  <2> USE EnterStep DEF Routine, OutPlaces, InPlaces, SendPlaces
  <2>1. CASE Count BY <2>1 DEF Count
  <2>2. CASE Take BY <2>2 DEF Take
  <2>3. CASE Send
    <3>1. Enter("send", "sendSelect", "sendSelect") /\ Ready
      BY <2>3 DEF Send
    <3>2. pc = "send" /\ pc' = "sendSelect" /\ torn' = FALSE
          /\ UNCHANGED <<link, lineEncoding, enabled, selection, inside,
                         remaining, armed, next>>
      BY <3>1 DEF Enter, Main, sessionVars, inVars
    <3>3. QED
      BY <1>0, <3>2 DEF MainInv, MainTypes, NextInv, PlaceInv, AccessesRight
  <2>4. CASE Task BY <2>4 DEF Task
  <2>5. CASE Flush BY <2>5 DEF Flush
  <2>6. QED BY <1>1, <2>1, <2>2, <2>3, <2>4, <2>5
<1>2. CASE CountSelect \/ TakeSelect \/ SendSelect \/ TaskSelect \/ FlushSelect
  BY <1>2, SelectStep DEF CountSelect, TakeSelect, SendSelect, TaskSelect,
    FlushSelect
<1>3. CASE CountTest \/ TakeTest
  <2>1. /\ pc' \in {"take", "report", "count", "takeRead", "takeClear"}
        /\ UNCHANGED <<link, lineEncoding, enabled, selection, inside,
                       remaining, armed, torn>>
        /\ rx' = rx
        /\ pc' \in {"takeRead", "takeClear"} => pc = "takeTest"
        /\ pc' = "takeRead" /\ selection = "out" => rx # << >>
    BY <1>3 DEF CountTest, TakeTest, Step, Main, sessionVars, inVars, outVars
  <2>2. MainTypes'
    BY <1>0, <2>1 DEF MainTypes, Routine
  <2>3. NextInv'
    BY <2>1 DEF NextInv, SendPlaces
  <2>4. (PlaceInv /\ AccessesRight)'
    BY <1>0, <2>1 DEF PlaceInv, AccessesRight, OutPlaces, InPlaces
  <2>5. QED BY <2>2, <2>3, <2>4 DEF MainInv
<1>4. CASE TakeRead \/ TakeClear
  <2>1. /\ pc' \in {"takeClear", "count"}
        /\ pc \in {"takeRead", "takeClear"}
        /\ UNCHANGED <<link, lineEncoding, enabled, selection, inside,
                       remaining, armed, torn>>
    BY <1>4 DEF TakeRead, TakeClear, Step, Main, sessionVars, inVars
  <2>2. MainTypes'
    BY <1>0, <2>1 DEF MainTypes, Routine
  <2>3. NextInv'
    BY <2>1 DEF NextInv, SendPlaces
  <2>4. (PlaceInv /\ AccessesRight)'
    BY <1>0, <2>1 DEF PlaceInv, AccessesRight, OutPlaces, InPlaces
  <2>5. QED BY <2>2, <2>3, <2>4 DEF MainInv
<1>5. CASE Report \/ SendUnready \/ SendWrite \/ Device \/ FlushNothing
  <2>1. /\ pc' \in {"task", "send", "report", "count", "device"}
        /\ pc' = "send" => next <= MaxReport /\ next' = next
        /\ UNCHANGED <<link, lineEncoding, enabled, selection, remaining,
                       armed, torn>>
        /\ inside' \in {inside, TRUE}
    BY <1>5 DEF Report, SendUnready, SendWrite, Device, FlushNothing, Failed,
      Step, Main, Request, sessionVars, inVars
  <2>2. MainTypes'
    BY <1>0, <2>1 DEF MainTypes, Routine
  <2>3. NextInv'
    BY <2>1 DEF NextInv, SendPlaces
  <2>4. (PlaceInv /\ AccessesRight)'
    BY <2>1 DEF PlaceInv, AccessesRight, OutPlaces, InPlaces
  <2>5. QED BY <2>2, <2>3, <2>4 DEF MainInv
<1>6. CASE SendTest
  <2>1. PICK room \in HasRoom :
          /\ pc = "sendTest"
          /\ pc' = IF room THEN "sendWrite" ELSE "sendClear"
    BY <1>6 DEF SendTest, Step, Main
  <2>2. UNCHANGED <<link, lineEncoding, enabled, selection, inside, remaining,
                    armed, torn, bank, next>>
    BY <1>6 DEF SendTest, Step, sessionVars, inVars
  <2>3. CASE pc' = "sendWrite"
    <3>1. room
      BY <2>1, <2>3
    <3>2. selection = "in" => enabled /\ ~armed /\ Len(bank) < BankSize
      BY <3>1 DEF HasRoom, Outcomes
    <3>3. MainTypes' /\ NextInv'
      BY <1>0, <2>1, <2>2, <2>3 DEF MainTypes, Routine, NextInv, SendPlaces
    <3>4. ~torn => selection = "in"
      BY <1>0, <2>1 DEF PlaceInv, InPlaces
    <3>5. (PlaceInv /\ AccessesRight)'
      BY <2>2, <2>3, <3>2, <3>4 DEF PlaceInv, AccessesRight, OutPlaces, InPlaces
    <3>6. QED BY <3>3, <3>5 DEF MainInv
  <2>4. CASE pc' = "sendClear"
    <3>1. MainTypes' /\ NextInv'
      BY <1>0, <2>1, <2>2, <2>4 DEF MainTypes, Routine, NextInv, SendPlaces
    <3>2. (PlaceInv /\ AccessesRight)'
      BY <1>0, <2>1, <2>2, <2>4
        DEF PlaceInv, AccessesRight, OutPlaces, InPlaces
    <3>3. QED BY <3>1, <3>2 DEF MainInv
  <2>5. QED BY <2>1, <2>3, <2>4
<1>7. CASE SendClear \/ FlushPart \/ FlushFull \/ FlushEnd
  <2>1. /\ pc' \in {"sendWait", "flushWait", "device"}
        /\ pc' = "sendWait" => pc = "sendClear"
        /\ armed' = IF selection = "in" THEN enabled ELSE armed
        /\ remaining' = USB_STREAM_TIMEOUT_MS
        /\ UNCHANGED <<link, lineEncoding, enabled, selection, inside, torn,
                       bank, next>>
    BY <1>7 DEF SendClear, FlushPart, FlushFull, FlushEnd, ClearAndGo, ClearIN,
      Step, Main, sessionVars
  <2>2. MainTypes'
    BY <1>0, <2>1 DEF MainTypes, Routine
  <2>3. NextInv'
    BY <1>0, <2>1 DEF NextInv, SendPlaces
  <2>4. (PlaceInv /\ AccessesRight)'
    BY <1>0, <2>1 DEF PlaceInv, AccessesRight, OutPlaces, InPlaces, MainTypes
  <2>5. QED BY <2>2, <2>3, <2>4 DEF MainInv
<1>8. CASE WaitDone
  <2>1. /\ \/ pc = "sendWait" /\ pc' = "sendWrite"
           \/ pc' = "flushEnd"
        /\ UNCHANGED <<link, lineEncoding, enabled, selection, inside,
                       remaining, armed, torn, bank, next>>
        /\ selection = "in" => enabled /\ ~armed
    BY <1>8 DEF WaitDone, InReady, Outcomes, Step, Main, sessionVars, inVars
  <2>2. MainTypes'
    BY <1>0, <2>1 DEF MainTypes, Routine
  <2>3. NextInv'
    BY <1>0, <2>1 DEF NextInv, SendPlaces
  <2>4. bank = << >> => Len(bank) < BankSize
    BY ConstantTypes
  <2>5. (PlaceInv /\ AccessesRight)'
    BY <1>0, <2>1, <2>4 DEF PlaceInv, AccessesRight, OutPlaces, InPlaces
  <2>6. QED BY <2>2, <2>3, <2>5 DEF MainInv
<1>9. CASE WaitFrame
  <2>1. /\ remaining' = remaining - 1 /\ remaining > 0
        /\ UNCHANGED <<link, lineEncoding, enabled, selection, inside,
                       armed, torn, bank, next, pc>>
        /\ pc \in {"sendWait", "flushWait"}
    BY <1>9 DEF WaitFrame, Waiting, sessionVars, inVars
  <2>2. MainTypes'
    BY <1>0, <2>1 DEF MainTypes
  <2>3. NextInv'
    BY <1>0, <2>1 DEF NextInv
  <2>4. (PlaceInv /\ AccessesRight)'
    BY <1>0, <2>1 DEF PlaceInv, AccessesRight, OutPlaces, InPlaces
  <2>5. QED BY <2>2, <2>3, <2>4 DEF MainInv
<1>10. CASE WaitEnds \/ TaskTest
  <2>1. /\ pc' \in {"device", "report", "flush"}
        /\ UNCHANGED <<link, lineEncoding, enabled, selection, inside,
                       remaining, armed, torn>>
    BY <1>10 DEF WaitEnds, WaitFailed, TaskTest, Failed, Step, sessionVars,
      inVars
  <2>2. MainTypes'
    BY <1>0, <2>1 DEF MainTypes, Routine
  <2>3. (NextInv /\ PlaceInv /\ AccessesRight)'
    BY <2>1 DEF NextInv, SendPlaces, PlaceInv, AccessesRight, OutPlaces,
      InPlaces
  <2>4. QED BY <2>2, <2>3 DEF MainInv
<1>11. QED
  BY <1>1, <1>2, <1>3, <1>4, <1>5, <1>6, <1>7, <1>8, <1>9, <1>10 DEF MainStep

LEMMA OthersStepInv ==
  ASSUME MainInv, OutInv, SessionStep \/ Wipe \/ HostReads \/ HostSends
  PROVE  MainInv'
<1>0. MainTypes /\ NextInv /\ PlaceInv /\ AccessesRight
  BY DEF MainInv
<1>1. CASE SessionStep
  <2>1. /\ UNCHANGED <<enabled, selection, pc, remaining, torn, bank, armed,
                       next, rx>>
        /\ link' = link \/ link' \in Links
        /\ lineEncoding' = lineEncoding \/ lineEncoding' \in BOOLEAN
        /\ inside' \in {inside, TRUE, FALSE}
    BY <1>1 DEF SessionStep, Request, Return, StateChanges,
      LineEncodingChanges, mainVars, inVars, outVars
  <2>2. MainTypes'
    BY <1>0, <2>1 DEF MainTypes
  <2>3. (NextInv /\ PlaceInv /\ AccessesRight)'
    BY <1>0, <2>1 DEF NextInv, PlaceInv, AccessesRight
  <2>4. QED BY <2>2, <2>3 DEF MainInv
<1>2. CASE Wipe
  <2>1. /\ UNCHANGED <<pc, remaining, next, inside>>
        /\ armed' = FALSE
        /\ torn' = (torn \/ pc \in Routine)
        /\ link' \in {link, "other"} /\ lineEncoding' \in {lineEncoding, FALSE}
        /\ enabled' \in BOOLEAN /\ selection' \in {selection, "control"}
    BY <1>2 DEF Wipe, Reset, Configure
  <2>2. MainTypes'
    BY <1>0, <2>1 DEF MainTypes, Links, Endpoints
  <2>3. NextInv'
    BY <1>0, <2>1 DEF NextInv
  <2>4. ~torn' => pc' \notin OutPlaces \cup InPlaces
    BY <2>1 DEF Routine, OutPlaces, InPlaces
  <2>5. (PlaceInv /\ AccessesRight)'
    BY <2>4 DEF PlaceInv, AccessesRight, OutPlaces, InPlaces
  <2>6. QED BY <2>2, <2>3, <2>5 DEF MainInv
<1>3. CASE HostReads
  <2>1. /\ UNCHANGED <<link, lineEncoding, enabled, selection, inside, pc,
                       remaining, torn, next, rx>>
        /\ armed /\ armed' = FALSE /\ bank' = << >>
    BY <1>3 DEF HostReads, sessionVars, mainVars, outVars
  <2>2. MainTypes'
    BY <1>0, <2>1 DEF MainTypes
  <2>3. (NextInv /\ PlaceInv /\ AccessesRight)'
    BY <1>0, <2>1 DEF NextInv, PlaceInv, AccessesRight
  <2>4. QED BY <2>2, <2>3 DEF MainInv
<1>4. CASE HostSends
  <2>1. /\ UNCHANGED <<link, lineEncoding, enabled, selection, inside, pc,
                       remaining, torn, next, armed, bank>>
        /\ ~rxFull
    BY <1>4 DEF HostSends, sessionVars, mainVars, inVars
  <2>2. rx = << >>
    BY <2>1 DEF OutInv, FilledInv
  <2>3. MainTypes'
    BY <1>0, <2>1 DEF MainTypes
  <2>4. (NextInv /\ PlaceInv /\ AccessesRight)'
    BY <1>0, <2>1, <2>2 DEF NextInv, PlaceInv, AccessesRight
  <2>5. QED BY <2>3, <2>4 DEF MainInv
<1>5. QED BY <1>1, <1>2, <1>3, <1>4

-----------------------------------------------------------------------------
LEMMA Parts == IInv <=> /\ MainInv /\ InTypes /\ OutInv
                        /\ ReportsAccounted /\ LostInv
BY DEF IInv, TypeOK, MainInv, MainTypes, InTypes, OutInv, OutTypes

LEMMA InitInv == Init => IInv
<1> SUFFICES ASSUME Init PROVE IInv
  OBVIOUS
<1> USE ConstantTypes
<1>1. /\ link = "gone" /\ lineEncoding = FALSE /\ enabled = FALSE
      /\ selection = "control" /\ inside = FALSE
      /\ pc = "count" /\ remaining = 0 /\ torn = FALSE
      /\ bank = << >> /\ armed = FALSE /\ rx = << >> /\ rxFull = FALSE
      /\ next = 1 /\ got = {} /\ lost = {}
      /\ nextCommand = 1 /\ taken = {} /\ dropped = {}
  BY DEF Init, SessionInit
<1>2. /\ 1 .. 1 - 1 = {} /\ DOMAIN << >> = {} /\ RangeOf(<< >>) = {}
      /\ Len(<< >>) = 0
  BY RangeEmpty
<1>3. MainInv
  <2>1. MainTypes
    <3>1. "control" \in Endpoints /\ "gone" \in Links
      BY DEF Links, Endpoints
    <3>2. 0 \in 0 .. USB_STREAM_TIMEOUT_MS
      OBVIOUS
    <3>3. QED BY <1>1, <3>1, <3>2 DEF MainTypes
  <2>2. NextInv /\ PlaceInv /\ AccessesRight
    BY <1>1 DEF NextInv, SendPlaces, PlaceInv, AccessesRight, OutPlaces,
      InPlaces
  <2>3. QED BY <2>1, <2>2 DEF MainInv
<1>4. InTypes
  BY <1>1, <1>2 DEF InTypes
<1>5. ReportsAccounted /\ LostInv
  BY <1>1, <1>2 DEF ReportsAccounted, LostInv
<1>6. OutInv
  <2>1. OutTypes
    <3>1. << >> \in Seq(1 .. MaxCommand) /\ 1 \in 1 .. MaxCommand + 1
      OBVIOUS
    <3>2. Len(rx) <= BankSize
      BY <1>1, <1>2
    <3>3. QED BY <1>1, <3>1, <3>2 DEF OutTypes
  <2>2. FilledInv BY <1>1 DEF FilledInv
  <2>3. CommandsAccounted /\ DroppedInv
    BY <1>1, <1>2 DEF CommandsAccounted, DroppedInv
  <2>4. QED BY <2>1, <2>2, <2>3 DEF OutInv
<1>7. QED BY <1>3, <1>4, <1>5, <1>6, Parts

LEMMA StepInv == IInv /\ [Next]_vars => IInv'
<1> SUFFICES ASSUME IInv, [Next]_vars PROVE IInv'
  OBVIOUS
<1>0. /\ MainInv /\ InTypes /\ OutInv /\ ReportsAccounted /\ LostInv
  BY Parts
<1>1. CASE Next
  <2>1. InTypes' /\ (ReportsAccounted /\ LostInv)'
    BY <1>1, InSteps, InTypesStep, ReportsStep
  <2>2. OutInv'
    BY <1>0, <1>1, OutSteps, CommandsStep
  <2>3. MainInv'
    BY <1>0, <1>1, MainStepInv, OthersStepInv DEF Next
  <2>4. IInv' <=> (/\ MainInv /\ InTypes /\ OutInv
                   /\ ReportsAccounted /\ LostInv)'
    BY DEF IInv, TypeOK, MainInv, MainTypes, InTypes, OutInv, OutTypes
  <2>5. QED BY <2>1, <2>2, <2>3, <2>4
<1>2. CASE UNCHANGED vars
  BY <1>2 DEF IInv, TypeOK, NextInv, PlaceInv, FilledInv, AccessesRight,
    ReportsAccounted, LostInv, CommandsAccounted, DroppedInv, RangeOf, vars,
    sessionVars, mainVars, inVars, outVars
<1>3. QED BY <1>1, <1>2

LEMMA Invariance == Spec => []IInv
BY InitInv, StepInv, PTL DEF Spec

(* Every variable of the class driver and of its banks keeps its type:     *)
(* no bank holds more than it can, and the wait counts down, never past 0. *)
THEOREM TypeCorrect == Spec => []TypeOK
<1>1. IInv => TypeOK BY DEF IInv
<1>2. QED BY <1>1, Invariance, PTL

(* Unless a reset or a configuration fell into the routine, what it found  *)
(* of an endpoint still holds when it reads or writes the bank.            *)
THEOREM AccessesSafe == Spec => []AccessesRight
<1>1. IInv => AccessesRight BY DEF IInv
<1>2. QED BY <1>1, Invariance, PTL

(* No byte of a report vanishes without the sender knowing, is doubled, or *)
(* overtakes another.                                                      *)
THEOREM ReportsKept == Spec => []ReportsAccounted
<1>1. IInv => ReportsAccounted BY DEF IInv
<1>2. QED BY <1>1, Invariance, PTL

(* No byte of a command is taken twice, out of order, or after a wipe.     *)
THEOREM CommandsKept == Spec => []CommandsAccounted
<1>1. IInv => CommandsAccounted BY DEF IInv
<1>2. QED BY <1>1, Invariance, PTL

(* The main loop does to the session only what UsbSession lets a main      *)
(* program do: what UsbControl implements is all that it relies on.        *)
THEOREM UsesSession == Spec => SessionSpec
<1>1. Init => SessionInit BY DEF Init
<1>2. [Next]_vars => [SessionNext]_sessionVars
  <2> SUFFICES ASSUME [Next]_vars PROVE [SessionNext]_sessionVars
    OBVIOUS
  <2>1. CASE CountSelect \/ TakeSelect \/ SendSelect \/ TaskSelect
             \/ FlushSelect
    BY <2>1 DEF CountSelect, TakeSelect, SendSelect, TaskSelect, FlushSelect,
      SelectAt, SessionNext
  <2>2. CASE Device BY <2>2 DEF Device, SessionNext
  <2>3. CASE SessionStep BY <2>3 DEF SessionStep, SessionNext
  <2>4. CASE Wipe BY <2>4 DEF Wipe, SessionNext
  <2>5. CASE HostReads \/ HostSends BY <2>5 DEF HostReads, HostSends
  <2>6. CASE Count \/ Take \/ Send \/ Task \/ Flush
    BY <2>6 DEF Count, Take, Send, Task, Flush, Enter, sessionVars
  <2>7. CASE CountTest \/ TakeTest \/ TakeRead \/ TakeClear \/ Report
    BY <2>7 DEF CountTest, TakeTest, TakeRead, TakeClear, Report, Step
  <2>8. CASE SendUnready \/ SendTest \/ SendClear \/ WaitDone \/ WaitFrame
             \/ WaitEnds \/ SendWrite
    BY <2>8 DEF SendUnready, SendTest, SendClear, ClearAndGo, WaitDone,
      WaitFrame, WaitEnds, WaitFailed, SendWrite, Step
  <2>9. CASE TaskTest \/ FlushNothing \/ FlushPart \/ FlushFull \/ FlushEnd
    BY <2>9 DEF TaskTest, FlushNothing, FlushPart, FlushFull, FlushEnd,
      ClearAndGo, Step
  <2>10. CASE UNCHANGED vars BY <2>10 DEF vars, sessionVars
  <2>11. QED
    BY <2>1, <2>2, <2>3, <2>4, <2>5, <2>6, <2>7, <2>8, <2>9, <2>10
      DEF Next, MainStep
<1>3. QED BY <1>1, <1>2, PTL DEF Spec, SessionSpec
=============================================================================
