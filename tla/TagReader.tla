----------------------------- MODULE TagReader -----------------------------
(***************************************************************************)
(* The way of a tag through the panel MCU: the card reader sends it over   *)
(* the UART, the RFID loop of main.c takes the bytes through               *)
(* readOrDumpBuffer (CharBuffer) and reports each line to the host.        *)
(*                                                                         *)
(* The UART holds UartDepth bytes.  It is polled only in the RFID loop, so *)
(* the bytes that arrive while the main loop is elsewhere (in a relay      *)
(* delay, or blocked on the USB) are lost.  The reader is not part of the  *)
(* sources; they expect of it lines of TAG_LENGTH characters between       *)
(* newlines, and that RFIDEN turns it off.                                 *)
(***************************************************************************)
EXTENDS CharBuffer, FiniteSets

CONSTANTS
  Card,
  TAG_LENGTH,
  UartDepth

(* The characters of a card are told apart by their place in its number. *)
Digit(card, i) == <<card, i>>
Number(card)   == [i \in 1 .. TAG_LENGTH |-> Digit(card, i)]
TagChar        == (Card \X (1 .. TAG_LENGTH)) \cup {NUL}

ASSUME TagAssumption ==
  /\ TAG_LENGTH \in Nat \ {0}
  /\ TAG_LENGTH < CHAR_BUFFER_SIZE
  /\ UartDepth \in Nat \ {0}
  /\ Char = TagChar
  /\ NUL \notin Card \X (1 .. TAG_LENGTH)

VARIABLES
  pc,             \* "loop", or "rfid" inside the RFID loop
  device_state,   \* as in DoorControl; RFIDEN follows it
  sending,        \* what the reader sends: the card, and the bytes sent of
                  \* its line, 0 between lines
  intact,         \* history: the UART took every byte sent of this line
  gap,            \* history: bytes were lost just before the next one
  uart,           \* bytes received and not polled yet
  gaps,           \* history: gaps in `line`, 2 for more than one
  report,         \* the line just reported to the host, or NoReport
  heard           \* history: the card whose intact line just ended

readerVars == <<sending, intact, gap>>
tagVars    == <<pc, device_state, uart, gaps, report, heard>>
vars       == <<bufferVars, readerVars, tagVars>>

NoCard   == "none"
NoReport == [kind |-> "none", text |-> << >>]

(* A line: a newline, the number, a newline. *)
LineByte(card, i) ==
  IF i \in 1 .. TAG_LENGTH THEN Digit(card, i) ELSE NEWLINE

(* A byte in the UART, with its history: whether bytes were lost before    *)
(* it, and the card whose intact line it ends.                             *)
UartByte(c, afterGap, endOf) == [ch |-> c, gap |-> afterGap, ends |-> endOf]

Init ==
  /\ InitBuffer
  /\ pc = "loop"
  /\ device_state = "IDLE"
  /\ sending \in [card : Card, next : {0}]
  /\ intact = TRUE
  /\ gap = FALSE
  /\ uart = << >>
  /\ gaps = 0
  /\ report = NoReport
  /\ heard = NoCard

-----------------------------------------------------------------------------
(* A byte reaches the UART, or finds it full and is lost. *)
Arrive(c, endOf) ==
  \/ /\ Len(uart) < UartDepth
     /\ uart' = Append(uart, UartByte(c, gap, endOf))
     /\ gap' = FALSE
  \/ /\ Len(uart) = UartDepth
     /\ gap' = TRUE
     /\ UNCHANGED uart

(* The reader sends the next byte.  It begins a line only when enabled. *)
ReaderSends ==
  LET i    == sending.next
      last_byte == i = TAG_LENGTH + 1
      lost == Len(uart) = UartDepth
      good == (intact \/ i = 0) /\ ~lost
  IN
  /\ i = 0 => device_state = "IDLE"
  /\ Arrive(LineByte(sending.card, i),
            IF last_byte /\ good THEN sending.card ELSE NoCard)
  /\ intact' = good
  /\ \/ ~last_byte /\ sending' = [sending EXCEPT !.next = i + 1]
     \/ last_byte /\ sending' \in [card : Card, next : {0}]
  /\ UNCHANGED <<bufferVars, pc, device_state, gaps, report, heard>>

(* The line picks up a disturbance that reads as a NUL. *)
Noise ==
  /\ Arrive(NUL, NoCard)
  /\ intact' = FALSE
  /\ UNCHANGED <<bufferVars, pc, device_state, sending, gaps, report, heard>>

(***************************************************************************)
(* The main loop, away from the RFID loop: doorOpen and doorClose change   *)
(* the state and RFIDEN.  A reader that is turned off may finish its line  *)
(* or break it off.                                                        *)
(***************************************************************************)
DoorOpen ==
  /\ pc = "loop"
  /\ device_state' = "UNLOCKED"
  /\ \/ UNCHANGED readerVars
     \/ /\ sending.next > 0
        /\ sending' = [sending EXCEPT !.next = 0]
        /\ gap' = TRUE
        /\ intact' = FALSE
  /\ UNCHANGED <<bufferVars, pc, uart, gaps, report, heard>>

DoorClose ==
  /\ pc = "loop"
  /\ device_state' = "IDLE"
  /\ UNCHANGED <<bufferVars, readerVars, pc, uart, gaps, report, heard>>

EnterRfid ==
  /\ pc = "loop"
  /\ pc' = "rfid"
  /\ UNCHANGED <<bufferVars, readerVars, device_state, uart, gaps, report,
                 heard>>

(* Mutant: the length is not checked. *)
ReportKindUnchecked(b) == IF device_state = "IDLE" THEN "TAG" ELSE "BADREAD"

(* A line of the length of a tag is one, while IDLE. *)
ReportKind(b) ==
  IF Strlen(b) = TAG_LENGTH /\ device_state = "IDLE" THEN "TAG" ELSE "BADREAD"

(* The loop takes one byte and reports the line it ends, if it does. *)
TakeByte ==
  /\ pc = "rfid"
  /\ uart # << >>
  /\ Head(uart).ch \in Newline \/ Len(line) < MaxLine
  /\ ReadOrDumpBuffer(Head(uart).ch)
  /\ uart' = Tail(uart)
  /\ report' = IF ready' THEN [kind |-> ReportKind(buffer'),
                               text |-> Text(buffer')]
                         ELSE NoReport
  /\ heard' = Head(uart).ends
  /\ gaps' = LET before == IF ready \/ line = << >> THEN 0 ELSE gaps
                 here   == Head(uart).gap \/ Head(uart).ch = NUL
             IN  IF here /\ before < 2 THEN before + 1 ELSE before
  /\ UNCHANGED <<readerVars, pc, device_state>>

RfidDone ==
  /\ pc = "rfid"
  /\ uart = << >>
  /\ pc' = "loop"
  /\ report' = NoReport
  /\ heard' = NoCard
  /\ UNCHANGED <<bufferVars, readerVars, device_state, uart, gaps>>

Next ==
  \/ ReaderSends \/ Noise
  \/ DoorOpen \/ DoorClose \/ EnterRfid \/ TakeByte \/ RfidDone

Spec == Init /\ [][Next]_vars

-----------------------------------------------------------------------------
(* Every variable has its type. *)
TypeOK ==
  /\ BufferTypeOK
  /\ pc \in {"loop", "rfid"}
  /\ device_state \in {"IDLE", "UNLOCKED"}
  /\ sending \in [card : Card, next : 0 .. TAG_LENGTH + 1]
  /\ intact \in BOOLEAN /\ gap \in BOOLEAN
  /\ uart \in Seq([ch : Char \cup Newline, gap : BOOLEAN,
                   ends : Card \cup {NoCard}])
  /\ Len(uart) <= UartDepth
  /\ gaps \in 0 .. 2
  /\ report.kind \in {"none", "TAG", "BADREAD"}
  /\ heard \in Card \cup {NoCard}

(***************************************************************************)
(* A line that reaches the UART whole is reported as its card's tag, with  *)
(* whatever remains of broken lines in the buffer and the UART before it:  *)
(* its first newline flushes them.                                         *)
(***************************************************************************)
WholeLineReported ==
  heard # NoCard /\ device_state = "IDLE"
    => report = [kind |-> "TAG", text |-> Number(heard)]

(***************************************************************************)
(* Bytes lost between two lines of the same card splice them, and the      *)
(* newlines between are lost too.  With one gap, a splice that has the     *)
(* length of a tag still is that card's tag, and so where a disturbance    *)
(* that reads as a NUL (Noise) made the gap or fell elsewhere in the line. *)
(***************************************************************************)
SameCard(l) == \E card \in Card : \A i \in 1 .. Len(l) :
                 l[i] \in {NUL} \cup {Digit(card, j) : j \in 1 .. TAG_LENGTH}

SpliceIsTag ==
  report.kind = "TAG" /\ gaps <= 1 /\ SameCard(last)
    /\ Len(last) < CHAR_BUFFER_SIZE
    => \E card \in Card : report.text = Number(card)
=============================================================================
