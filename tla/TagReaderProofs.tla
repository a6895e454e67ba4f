-------------------------- MODULE TagReaderProofs --------------------------
(***************************************************************************)
(* Theorems of TagReader, for any cards, length of a tag, size of the      *)
(* buffer and depth of the UART: the types, and that a line which reaches  *)
(* the UART whole is reported as its card's tag.                           *)
(***************************************************************************)
EXTENDS TagReader, CharBufferProofs

(* What was received up to the m-th byte that waits in the UART ends with  *)
(* a newline and the first k characters of the card: all of it waits, or   *)
(* the RFID loop has taken the newline and some of the characters.         *)
Received(q, l, m, card, k) ==
  IF m > k
    THEN /\ q[m - k].ch = NEWLINE
         /\ \A i \in 1 .. k : q[m - k + i].ch = Digit(card, i)
    ELSE /\ \A i \in 1 .. m : q[i].ch = Digit(card, k - m + i)
         /\ Len(l) = k - m
         /\ \A i \in 1 .. k - m : l[i] = Digit(card, i)

(* The line being sent, the lines that ended, and the main loop. *)
SentInv == intact /\ sending.next > 0 =>
             Received(uart, line, Len(uart), sending.card, sending.next - 1)

EndedInv ==
  \A j \in 1 .. Len(uart) : uart[j].ends # NoCard =>
    uart[j].ch = NEWLINE /\ Received(uart, line, j - 1, uart[j].ends, TAG_LENGTH)

LoopInv == pc = "loop" => heard = NoCard

IInv == TypeOK /\ BufferIsTail /\ SentInv /\ EndedInv /\ LoopInv
          /\ WholeLineReported

Entry == [ch : Char \cup Newline, gap : BOOLEAN, ends : Card \cup {NoCard}]

LEMMA ConstantTypes ==
  /\ TAG_LENGTH \in Nat \ {0} /\ TAG_LENGTH < CHAR_BUFFER_SIZE
  /\ UartDepth \in Nat \ {0}
  /\ \A card \in Card, i \in 1 .. TAG_LENGTH :
       Digit(card, i) \in Char /\ Digit(card, i) # NUL /\ Digit(card, i) # NEWLINE
<1>1. \A card \in Card, i \in 1 .. TAG_LENGTH :
        Digit(card, i) \in Card \X (1 .. TAG_LENGTH)
  BY DEF Digit
<1>2. NUL \notin Card \X (1 .. TAG_LENGTH) /\ Char = TagChar
  BY TagAssumption DEF TagAssumption
<1>3. \A card \in Card, i \in 1 .. TAG_LENGTH :
        Digit(card, i) \in Char /\ Digit(card, i) # NUL
  BY <1>1, <1>2 DEF TagChar
<1>4. \A card \in Card, i \in 1 .. TAG_LENGTH : Digit(card, i) # NEWLINE
  BY <1>3, BufferAssumption DEF BufferAssumption
<1>5. QED BY <1>3, <1>4, TagAssumption DEF TagAssumption

(* The first of the bytes that wait, and the others. *)
LEMMA Waiting ==
  ASSUME TypeOK, uart # << >>
  PROVE  /\ uart \in Seq(Entry) /\ Head(uart) \in Entry /\ Head(uart) = uart[1]
         /\ Tail(uart) \in Seq(Entry) /\ Len(uart) \in Nat \ {0}
         /\ Len(Tail(uart)) = Len(uart) - 1
         /\ \A j \in 1 .. Len(uart) - 1 : Tail(uart)[j] = uart[j + 1]
<1>1. uart \in Seq(Entry)
  BY DEF TypeOK, Entry
<1>2. QED BY <1>1

-----------------------------------------------------------------------------
(* To the buffer, a step of the reader is a call of readOrDumpBuffer or    *)
(* nothing.                                                                *)
LEMMA BufferUse == TypeOK /\ [Next]_vars => [NextBuffer]_bufferVars
<1> SUFFICES ASSUME TypeOK, [Next]_vars PROVE [NextBuffer]_bufferVars
  OBVIOUS
<1>1. CASE TakeByte
  <2>1. Head(uart).ch \in Char \cup Newline
    BY <1>1, Waiting DEF TakeByte, Entry
  <2>2. QED BY <1>1, <2>1 DEF TakeByte, NextBuffer
<1>2. QED
  BY <1>1 DEF Next, ReaderSends, Noise, DoorOpen, DoorClose, EnterRfid, RfidDone,
     vars

(* A byte arrives behind those that wait, or not at all. *)
LEMMA Arrival ==
  ASSUME TypeOK, NEW c \in Char \cup Newline, NEW e \in Card \cup {NoCard},
         Arrive(c, e)
  PROVE  /\ uart' \in Seq(Entry) /\ Len(uart') <= UartDepth /\ gap' \in BOOLEAN
         /\ \A j \in 1 .. Len(uart) : uart'[j] = uart[j]
         /\ Len(uart) # UartDepth =>
              /\ Len(uart') = Len(uart) + 1
              /\ uart'[Len(uart) + 1].ch = c /\ uart'[Len(uart) + 1].ends = e
              /\ uart'[Len(uart) + 1].gap = gap /\ gap' = FALSE
         /\ Len(uart) = UartDepth => uart' = uart /\ gap' = TRUE
<1>1. uart \in Seq(Entry) /\ Len(uart) \in Nat /\ Len(uart) <= UartDepth
  BY DEF TypeOK, Entry
<1>2. CASE Len(uart) < UartDepth
  <2> DEFINE u == UartByte(c, gap, e)
  <2>1. u \in Entry /\ u.ch = c /\ u.ends = e /\ u.gap = gap
    BY DEF UartByte, Entry, TypeOK
  <2>2. uart' = Append(uart, u) /\ gap' = FALSE
    BY <1>2, ConstantTypes DEF Arrive
  <2> HIDE DEF u
  <2>3. /\ uart' \in Seq(Entry) /\ Len(uart') = Len(uart) + 1
        /\ uart'[Len(uart) + 1] = u
        /\ \A j \in 1 .. Len(uart) : uart'[j] = uart[j]
    BY <1>1, <2>1, <2>2
  <2>4. Len(uart) + 1 <= UartDepth /\ Len(uart) # UartDepth
    BY <1>1, <1>2, ConstantTypes
  <2>5. uart'[Len(uart) + 1].ch = c /\ uart'[Len(uart) + 1].ends = e
        /\ uart'[Len(uart) + 1].gap = gap
    BY <2>1, <2>3
  <2>6. Len(uart') <= UartDepth /\ gap' \in BOOLEAN
    BY <2>2, <2>3, <2>4
  <2>7. QED BY <2>2, <2>3, <2>4, <2>5, <2>6, Zenon
<1>3. CASE Len(uart) = UartDepth
  <2>1. ~(Len(uart) < UartDepth)
    BY <1>1, <1>3, ConstantTypes
  <2>2. uart' = uart /\ gap' = TRUE
    BY <2>1 DEF Arrive
  <2>3. \A j \in 1 .. Len(uart) : uart'[j] = uart[j]
    BY <2>2, Zenon
  <2>4. uart' \in Seq(Entry) /\ Len(uart') <= UartDepth /\ gap' \in BOOLEAN
    BY <1>1, <2>2
  <2>5. QED BY <1>3, <2>2, <2>3, <2>4, Zenon
<1>4. Len(uart) < UartDepth \/ Len(uart) = UartDepth
  BY <1>1, ConstantTypes
<1>5. QED BY <1>2, <1>3, <1>4

-----------------------------------------------------------------------------
(* Types. *)
LEMMA InitInv == Init => IInv
<1> SUFFICES ASSUME Init PROVE IInv
  OBVIOUS
<1>1. BufferTypeOK /\ BufferIsTail
  BY BufferInit DEF Init
<1>2. uart = << >> /\ uart \in Seq(Entry) /\ Len(uart) = 0
  BY DEF Init
<1>3. sending \in [card : Card, next : 0 .. TAG_LENGTH + 1] /\ sending.next = 0
  BY ConstantTypes DEF Init
<1>4. TypeOK
  <2>1. Len(uart) <= UartDepth
    BY <1>2, ConstantTypes
  <2>2. uart \in Seq([ch : Char \cup Newline, gap : BOOLEAN,
                     ends : Card \cup {NoCard}])
    BY <1>2 DEF Entry
  <2>3. gaps \in 0 .. 2 /\ heard \in Card \cup {NoCard} /\ report.kind = "none"
    BY DEF Init, NoReport
  <2>4. QED BY <1>1, <1>3, <2>1, <2>2, <2>3 DEF Init, TypeOK
<1>5. QED
  BY <1>1, <1>2, <1>3, <1>4
     DEF Init, IInv, SentInv, EndedInv, LoopInv, WholeLineReported

(* The next byte of a line, and what becomes of the line. *)
LEMMA SendType ==
  TypeOK /\ ReaderSends =>
    /\ LineByte(sending.card, sending.next) \in Char \cup Newline
    /\ sending \in [card : Card, next : 0 .. TAG_LENGTH + 1]
    /\ sending' \in [card : Card, next : 0 .. TAG_LENGTH + 1]
    /\ intact' \in BOOLEAN
<1> SUFFICES ASSUME TypeOK, ReaderSends
             PROVE  /\ LineByte(sending.card, sending.next) \in Char \cup Newline
                    /\ sending \in [card : Card, next : 0 .. TAG_LENGTH + 1]
                    /\ sending' \in [card : Card, next : 0 .. TAG_LENGTH + 1]
                    /\ intact' \in BOOLEAN
  OBVIOUS
<1>1. /\ sending \in [card : Card, next : 0 .. TAG_LENGTH + 1]
      /\ sending.card \in Card /\ sending.next \in 0 .. TAG_LENGTH + 1
  BY DEF TypeOK
<1>2. LineByte(sending.card, sending.next) \in Char \cup Newline
  BY <1>1, ConstantTypes DEF LineByte, Newline
<1>3. sending' \in [card : Card, next : 0 .. TAG_LENGTH + 1]
  BY <1>1, ConstantTypes DEF ReaderSends
<1>4. intact' \in BOOLEAN
  BY DEF ReaderSends
<1>5. QED BY <1>1, <1>2, <1>3, <1>4

LEMMA TypeStep ==
  TypeOK /\ BufferIsTail /\ [Next]_vars => TypeOK' /\ BufferIsTail'
<1> SUFFICES ASSUME TypeOK, BufferIsTail, [Next]_vars
             PROVE  TypeOK' /\ BufferIsTail'
  OBVIOUS
<1>1. BufferTypeOK' /\ BufferIsTail'
  BY BufferUse, BufferStep DEF TypeOK
<1>2. CASE ReaderSends
  <2> DEFINE c == LineByte(sending.card, sending.next)
             e == IF sending.next = TAG_LENGTH + 1
                       /\ (intact \/ sending.next = 0) /\ ~(Len(uart) = UartDepth)
                    THEN sending.card ELSE NoCard
  <2>1. Arrive(c, e)
    BY <1>2 DEF ReaderSends
  <2>2. c \in Char \cup Newline /\ e \in Card \cup {NoCard}
    BY <1>2, SendType
  <2> HIDE DEF c, e
  <2>3. uart' \in Seq(Entry) /\ Len(uart') <= UartDepth /\ gap' \in BOOLEAN
    BY <2>1, <2>2, Arrival
  <2>4. QED
    BY <1>1, <1>2, <2>3, SendType DEF TypeOK, ReaderSends, Entry
<1>3. CASE Noise
  <2>1. NUL \in Char \cup Newline /\ NoCard \in Card \cup {NoCard}
    BY BufferAssumption DEF BufferAssumption
  <2>2. uart' \in Seq(Entry) /\ Len(uart') <= UartDepth /\ gap' \in BOOLEAN
    BY <1>3, <2>1, Arrival DEF Noise
  <2>3. QED
    BY <1>1, <1>3, <2>2 DEF TypeOK, Noise, Entry
<1>4. CASE DoorOpen
  <2>1. /\ sending' \in [card : Card, next : 0 .. TAG_LENGTH + 1]
        /\ intact' \in BOOLEAN /\ gap' \in BOOLEAN
    <3>1. [sending EXCEPT !.next = 0] \in [card : Card, next : 0 .. TAG_LENGTH + 1]
      BY ConstantTypes DEF TypeOK
    <3>2. CASE UNCHANGED readerVars
      BY <3>2 DEF TypeOK, readerVars
    <3>3. CASE ~UNCHANGED readerVars
      BY <1>4, <3>1, <3>3 DEF DoorOpen
    <3>4. QED BY <3>2, <3>3
  <2>2. QED
    BY <1>1, <1>4, <2>1 DEF DoorOpen, TypeOK
<1>5. CASE TakeByte
  <2>1. /\ uart' \in Seq(Entry) /\ Len(uart') <= UartDepth
        /\ heard' \in Card \cup {NoCard}
    <3>1. /\ uart # << >> /\ uart' = Tail(uart) /\ heard' = Head(uart).ends
      BY <1>5 DEF TakeByte
    <3>2. Len(uart) \in Nat /\ Len(uart) <= UartDepth
      BY <3>1, Waiting DEF TypeOK
    <3>3. QED BY <3>1, <3>2, Waiting, ConstantTypes DEF Entry
  <2>2. gaps' \in 0 .. 2
    BY <1>5 DEF TakeByte, TypeOK
  <2>3. report'.kind \in {"none", "TAG", "BADREAD"}
    BY <1>5 DEF TakeByte, ReportKind, NoReport
  <2>4. QED
    BY <1>1, <1>5, <2>1, <2>2, <2>3 DEF TakeByte, TypeOK, readerVars, Entry
<1>6. CASE DoorClose \/ EnterRfid \/ RfidDone
  BY <1>1, <1>6 DEF DoorClose, EnterRfid, RfidDone, TypeOK, readerVars, NoReport
<1>7. CASE UNCHANGED vars
  BY <1>1, <1>7 DEF vars, readerVars, tagVars, TypeOK
<1>8. QED BY <1>2, <1>3, <1>4, <1>5, <1>6, <1>7 DEF Next

-----------------------------------------------------------------------------
(* Bytes that arrive change nothing about those before them, ... *)
LEMMA ReceivedKept ==
  ASSUME NEW m \in 0 .. Len(uart), NEW card, NEW k \in 0 .. TAG_LENGTH,
         Len(uart) \in Nat, Received(uart, line, m, card, k),
         line' = line, \A j \in 1 .. Len(uart) : uart'[j] = uart[j]
  PROVE  Received(uart', line', m, card, k)
<1>0. TAG_LENGTH \in Nat
  BY ConstantTypes
<1>1. CASE m > k
  <2>1. m - k \in 1 .. Len(uart) /\ \A i \in 1 .. k : m - k + i \in 1 .. Len(uart)
    BY <1>0, <1>1
  <2>2. QED BY <1>1, <2>1 DEF Received
<1>2. CASE ~(m > k)
  <2>1. \A i \in 1 .. m : i \in 1 .. Len(uart)
    BY <1>0
  <2>2. QED BY <1>2, <2>1 DEF Received
<1>3. QED BY <1>1, <1>2

(* ... the next character of the card makes one more, ... *)
LEMMA ReceivedMore ==
  ASSUME NEW q, NEW l, NEW m \in Nat, NEW card, NEW k \in 0 .. TAG_LENGTH - 1,
         Received(q, l, m, card, k), q[m + 1].ch = Digit(card, k + 1)
  PROVE  Received(q, l, m + 1, card, k + 1)
<1>0. TAG_LENGTH \in Nat
  BY ConstantTypes
<1>1. CASE m > k
  <2>1. m + 1 > k + 1 /\ (m + 1) - (k + 1) = m - k
    BY <1>1
  <2>2. \A i \in 1 .. k + 1 : q[m - k + i].ch = Digit(card, i)
    <3> SUFFICES ASSUME NEW i \in 1 .. k + 1
                 PROVE  q[m - k + i].ch = Digit(card, i)
      OBVIOUS
    <3>1. CASE i \in 1 .. k
      BY <1>1, <3>1 DEF Received
    <3>2. CASE i = k + 1
      <4>1. m - k + i = m + 1
        BY <3>2
      <4>2. QED BY <3>2, <4>1
    <3>3. QED BY <3>1, <3>2
  <2>3. q[m - k].ch = NEWLINE
    BY <1>1 DEF Received
  <2>4. QED BY <2>1, <2>2, <2>3 DEF Received
<1>2. CASE ~(m > k)
  <2>1. ~(m + 1 > k + 1) /\ (k + 1) - (m + 1) = k - m
    BY <1>2
  <2>2. \A i \in 1 .. m + 1 : q[i].ch = Digit(card, k - m + i)
    <3> SUFFICES ASSUME NEW i \in 1 .. m + 1
                 PROVE  q[i].ch = Digit(card, k - m + i)
      OBVIOUS
    <3>1. CASE i \in 1 .. m
      BY <1>2, <3>1 DEF Received
    <3>2. CASE i = m + 1
      <4>1. k - m + i = k + 1
        BY <3>2
      <4>2. QED BY <3>2, <4>1
    <3>3. QED BY <3>1, <3>2
  <2>3. /\ Len(l) = k - m
        /\ \A i \in 1 .. k - m : l[i] = Digit(card, i)
    BY <1>2 DEF Received
  <2>4. QED BY <2>1, <2>2, <2>3 DEF Received
<1>3. QED BY <1>1, <1>2

(* ... and the RFID loop moves the first byte that waits into the line. *)
LEMMA ReceivedTaken ==
  ASSUME TypeOK, BufferIsTail, TakeByte,
         NEW m \in 1 .. Len(uart), NEW card \in Card, NEW k \in 0 .. TAG_LENGTH,
         Received(uart, line, m, card, k)
  PROVE  Received(uart', line', m - 1, card, k)
<1>0. /\ uart # << >> /\ uart' = Tail(uart) /\ TAG_LENGTH \in Nat
      /\ ReadOrDumpBuffer(uart[1].ch)
  BY Waiting, ConstantTypes DEF TakeByte
<1>1. PICK n \in Nat \ {0} : n = Len(uart)
  BY <1>0, Waiting
<1>2. \A j \in 1 .. n - 1 : uart'[j] = uart[j + 1]
  BY <1>0, <1>1, Waiting
<1>3. CASE m > k + 1
  <2>1. /\ m - 1 > k /\ m - k > 0 /\ m - 1 - k \in 1 .. n - 1
        /\ (m - 1 - k) + 1 = m - k
    BY <1>1, <1>3
  <2>2. uart'[m - 1 - k].ch = NEWLINE
    BY <1>2, <1>3, <2>1 DEF Received
  <2>3. \A i \in 1 .. k : uart'[m - 1 - k + i].ch = Digit(card, i)
    <3> SUFFICES ASSUME NEW i \in 1 .. k
                 PROVE  uart'[m - 1 - k + i].ch = Digit(card, i)
      OBVIOUS
    <3>1. m - 1 - k + i \in 1 .. n - 1 /\ (m - 1 - k + i) + 1 = m - k + i
      BY <1>1, <1>3
    <3>2. uart[m - k + i].ch = Digit(card, i)
      BY <1>3 DEF Received
    <3>3. QED BY <1>2, <3>1, <3>2
  <2>4. QED BY <2>1, <2>2, <2>3 DEF Received
<1>4. CASE m = k + 1
  <2>1. uart[1].ch = NEWLINE
    BY <1>4 DEF Received
  <2>2. line' = << >>
    BY <1>0, <2>1 DEF ReadOrDumpBuffer, Newline, SkipNewline, EndLine, BufferIsTail
  <2>3. \A i \in 1 .. k : uart'[i].ch = Digit(card, i)
    <3> SUFFICES ASSUME NEW i \in 1 .. k PROVE uart'[i].ch = Digit(card, i)
      OBVIOUS
    <3>1. i \in 1 .. n - 1 /\ m - k + i = i + 1
      BY <1>1, <1>4
    <3>2. uart[m - k + i].ch = Digit(card, i)
      BY <1>4 DEF Received
    <3>3. QED BY <1>2, <3>1, <3>2
  <2>4. m - 1 = k /\ Len(line') = 0
    BY <1>4, <2>2
  <2>5. QED BY <2>3, <2>4 DEF Received
<1>5. CASE m <= k
  <2>0. m \in Nat \ {0} /\ k - m \in Nat /\ ~(m > k) /\ ~(m - 1 > k)
    BY <1>1, <1>5
  <2>1. uart[1].ch = Digit(card, k - m + 1)
    BY <1>1, <1>5, <2>0 DEF Received
  <2>2. Digit(card, k - m + 1) \in Char /\ Digit(card, k - m + 1) # NEWLINE
    <3>1. k - m + 1 \in 1 .. TAG_LENGTH
      BY <1>0, <1>1, <1>5
    <3>2. QED BY <3>1, ConstantTypes
  <2>3. line' = Append(line, Digit(card, k - m + 1))
    BY <1>0, <2>1, <2>2 DEF ReadOrDumpBuffer, Newline, Store
  <2>4. /\ Len(line) = k - m /\ line \in Seq(Char)
        /\ \A i \in 1 .. k - m : line[i] = Digit(card, i)
    BY <2>0 DEF Received, TypeOK, BufferTypeOK
  <2>5. Len(line') = k - (m - 1)
    BY <2>0, <2>2, <2>3, <2>4
  <2>6. \A i \in 1 .. k - (m - 1) : line'[i] = Digit(card, i)
    <3> SUFFICES ASSUME NEW i \in 1 .. k - (m - 1)
                 PROVE  line'[i] = Digit(card, i)
      OBVIOUS
    <3>1. CASE i \in 1 .. k - m
      BY <2>0, <2>2, <2>3, <2>4, <3>1
    <3>2. CASE i = k - m + 1
      BY <2>0, <2>2, <2>3, <2>4, <3>2
    <3>3. QED BY <2>0, <3>1, <3>2
  <2>7. \A i \in 1 .. m - 1 : uart'[i].ch = Digit(card, k - (m - 1) + i)
    <3> SUFFICES ASSUME NEW i \in 1 .. m - 1
                 PROVE  uart'[i].ch = Digit(card, k - (m - 1) + i)
      OBVIOUS
    <3>1. /\ i \in 1 .. n - 1 /\ i + 1 \in 1 .. m
          /\ k - (m - 1) + i = k - m + (i + 1)
      BY <1>1, <2>0
    <3>2. uart[i + 1].ch = Digit(card, k - m + (i + 1))
      BY <2>0, <3>1 DEF Received
    <3>3. QED BY <1>2, <3>1, <3>2
  <2>8. QED BY <2>0, <2>5, <2>6, <2>7 DEF Received
<1>6. QED BY <1>1, <1>3, <1>4, <1>5

(***************************************************************************)
(* The newline that ends a whole line finds its number in the buffer and   *)
(* nothing else, however much the buffer held before.                      *)
(***************************************************************************)
LEMMA EndedReported ==
  ASSUME TypeOK, BufferIsTail, EndedInv, TakeByte
  PROVE  WholeLineReported'
<1> SUFFICES ASSUME heard' # NoCard, device_state' = "IDLE"
             PROVE  report' = [kind |-> "TAG", text |-> Number(heard)']
  BY DEF WholeLineReported, Number
<1>1. /\ uart # << >> /\ heard' = uart[1].ends /\ heard' \in Card
      /\ ReadOrDumpBuffer(uart[1].ch)
  BY Waiting DEF TakeByte, Entry
<1>2. 1 \in 1 .. Len(uart)
  BY <1>1, Waiting
<1>3. uart[1].ch = NEWLINE /\ Received(uart, line, 0, heard', TAG_LENGTH)
  BY <1>1, <1>2 DEF EndedInv
<1>4. /\ Len(line) = TAG_LENGTH /\ line \in Seq(Char)
      /\ \A i \in 1 .. TAG_LENGTH : line[i] = Digit(heard', i)
  BY <1>3, ConstantTypes DEF Received, TypeOK, BufferTypeOK
<1>5. line = Number(heard)'
  BY <1>4 DEF Number
<1>6. Fits(line)
  BY <1>1, <1>4, ConstantTypes DEF Fits
<1>7. EndLine
  <2>1. line # << >>
    BY <1>4, ConstantTypes
  <2>2. QED BY <1>1, <1>3, <2>1 DEF ReadOrDumpBuffer, Newline, SkipNewline,
                 BufferIsTail
<1>8. Strlen(buffer') = TAG_LENGTH /\ Text(buffer') = line /\ ready'
  BY <1>4, <1>6, <1>7, EndLineText DEF TypeOK, EndLine
<1>9. device_state = "IDLE"
  BY DEF TakeByte
<1>10. QED BY <1>5, <1>8, <1>9 DEF TakeByte, ReportKind

-----------------------------------------------------------------------------
(* The invariant, for what arrives and for what is taken. *)
LEMMA SendStep ==
  TypeOK /\ SentInv /\ EndedInv /\ ReaderSends => SentInv' /\ EndedInv'
<1> SUFFICES ASSUME TypeOK, SentInv, EndedInv, ReaderSends
             PROVE  SentInv' /\ EndedInv'
  OBVIOUS
<1> DEFINE i == sending.next
           card == sending.card
           full == Len(uart) = UartDepth
           good == (intact \/ i = 0) /\ ~full
           c == LineByte(card, i)
           e == IF i = TAG_LENGTH + 1 /\ good THEN card ELSE NoCard
<1>1. /\ Arrive(c, e) /\ intact' = good /\ line' = line
      /\ i # TAG_LENGTH + 1 => sending' = [sending EXCEPT !.next = i + 1]
      /\ i = TAG_LENGTH + 1 => sending'.next = 0
  BY DEF ReaderSends, bufferVars
<1>2. /\ c \in Char \cup Newline /\ card \in Card /\ i \in 0 .. TAG_LENGTH + 1
      /\ e \in Card \cup {NoCard}
      /\ i # TAG_LENGTH + 1 => sending'.next = i + 1 /\ sending'.card = card
  BY <1>1, SendType
<1>3. PICK n \in Nat : n = Len(uart) /\ n <= UartDepth
  BY DEF TypeOK
<1>4. /\ i \in 1 .. TAG_LENGTH => c = Digit(card, i)
      /\ i \notin 1 .. TAG_LENGTH => c = NEWLINE
  BY DEF LineByte
<1>5. e # NoCard => e = card /\ i = TAG_LENGTH + 1 /\ good
  OBVIOUS
<1>6. good => (intact \/ i = 0) /\ ~full
  OBVIOUS
<1>7. full => ~good
  OBVIOUS
<1> HIDE DEF i, card, good, c, e
<1>8. /\ \A j \in 1 .. n : uart'[j] = uart[j]
      /\ ~full => /\ Len(uart') = n + 1
                  /\ uart'[n + 1].ch = c /\ uart'[n + 1].ends = e
      /\ full => uart' = uart
  <2>1. CASE full
    BY <1>1, <1>2, <1>3, <2>1, Arrival
  <2>2. CASE ~full
    BY <1>1, <1>2, <1>3, <2>2, Arrival
  <2>3. QED BY <2>1, <2>2
<1>9. ASSUME good, i > 0 PROVE Received(uart', line', n, card, i - 1)
  <2>1. intact /\ i - 1 \in 0 .. TAG_LENGTH
    BY <1>2, <1>6, <1>9, ConstantTypes
  <2>2. Received(uart, line, n, card, i - 1)
    BY <1>3, <1>9, <2>1 DEF SentInv, i, card
  <2>3. n \in 0 .. Len(uart) /\ Len(uart) \in Nat
    BY <1>3
  <2>4. QED
    BY <1>1, <1>3, <1>8, <2>1, <2>2, <2>3, ReceivedKept
<1>10. SentInv'
  <2> SUFFICES ASSUME good, sending'.next > 0
               PROVE  Received(uart', line', Len(uart'), sending'.card,
                               sending'.next - 1)
    BY <1>1 DEF SentInv
  <2>1. /\ i \in 0 .. TAG_LENGTH /\ sending'.next - 1 = i /\ sending'.card = card
        /\ Len(uart') = n + 1 /\ uart'[n + 1].ch = c
    <3>1. i # TAG_LENGTH + 1
      BY <1>1
    <3>2. QED BY <1>2, <1>6, <1>8, <3>1, ConstantTypes
  <2>2. CASE i = 0
    <3>1. c = NEWLINE
      BY <1>4, <2>2
    <3>2. QED BY <2>1, <2>2, <3>1 DEF Received
  <2>3. CASE i > 0
    <3>1. /\ i \in 1 .. TAG_LENGTH /\ i - 1 \in 0 .. TAG_LENGTH - 1
          /\ (i - 1) + 1 = i
      BY <2>1, <2>3, ConstantTypes
    <3>2. uart'[n + 1].ch = Digit(card, (i - 1) + 1)
      BY <1>4, <2>1, <3>1
    <3>3. Received(uart', line', n + 1, card, (i - 1) + 1)
      BY <1>9, <2>3, <3>1, <3>2, ReceivedMore
    <3>4. QED BY <2>1, <3>1, <3>3
  <2>4. QED BY <2>1, <2>2, <2>3, ConstantTypes
<1>11. EndedInv'
  <2> SUFFICES ASSUME NEW j \in 1 .. Len(uart'), uart'[j].ends # NoCard
               PROVE  /\ uart'[j].ch = NEWLINE
                      /\ Received(uart', line', j - 1, uart'[j].ends, TAG_LENGTH)
    BY DEF EndedInv
  <2>1. CASE j \in 1 .. n
    <3>1. /\ uart'[j] = uart[j] /\ uart[j].ch = NEWLINE
          /\ Received(uart, line, j - 1, uart[j].ends, TAG_LENGTH)
      BY <1>3, <1>8, <2>1 DEF EndedInv
    <3>2. /\ j - 1 \in 0 .. Len(uart) /\ Len(uart) \in Nat
          /\ TAG_LENGTH \in 0 .. TAG_LENGTH
      BY <1>3, <2>1, ConstantTypes
    <3>3. QED BY <1>1, <1>3, <1>8, <3>1, <3>2, ReceivedKept
  <2>2. CASE ~full /\ j = n + 1
    <3>1. e # NoCard /\ uart'[j].ends = card /\ uart'[j].ch = c
      BY <1>5, <1>8, <2>2
    <3>2. good /\ i = TAG_LENGTH + 1
      BY <1>5, <3>1
    <3>3. c = NEWLINE /\ i > 0 /\ i - 1 = TAG_LENGTH /\ j - 1 = n
      BY <1>3, <1>4, <2>2, <3>2, ConstantTypes
    <3>4. QED BY <1>9, <3>1, <3>2, <3>3
  <2>3. QED BY <1>3, <1>8, <2>1, <2>2
<1>12. QED BY <1>10, <1>11

LEMMA NoiseStep == TypeOK /\ EndedInv /\ Noise => SentInv' /\ EndedInv'
<1> SUFFICES ASSUME TypeOK, EndedInv, Noise PROVE SentInv' /\ EndedInv'
  OBVIOUS
<1>1. Arrive(NUL, NoCard) /\ intact' = FALSE /\ line' = line
  BY DEF Noise, bufferVars
<1>2. NUL \in Char \cup Newline /\ NoCard \in Card \cup {NoCard}
  BY BufferAssumption DEF BufferAssumption
<1>3. PICK n \in Nat : n = Len(uart) /\ n <= UartDepth
  BY DEF TypeOK
<1>4. /\ \A j \in 1 .. n : uart'[j] = uart[j]
      /\ \/ Len(uart') = n + 1 /\ uart'[n + 1].ends = NoCard
         \/ Len(uart') = n
  <2>1. CASE n # UartDepth
    BY <1>1, <1>2, <1>3, <2>1, Arrival
  <2>2. CASE n = UartDepth
    BY <1>1, <1>2, <1>3, <2>2, Arrival
  <2>3. QED BY <2>1, <2>2
<1>5. SentInv'
  BY <1>1 DEF SentInv
<1>6. EndedInv'
  <2> SUFFICES ASSUME NEW j \in 1 .. Len(uart'), uart'[j].ends # NoCard
               PROVE  /\ uart'[j].ch = NEWLINE
                      /\ Received(uart', line', j - 1, uart'[j].ends, TAG_LENGTH)
    BY DEF EndedInv
  <2>1. j \in 1 .. n
    BY <1>3, <1>4
  <2>2. /\ uart'[j] = uart[j] /\ uart[j].ch = NEWLINE
        /\ Received(uart, line, j - 1, uart[j].ends, TAG_LENGTH)
    BY <1>3, <1>4, <2>1 DEF EndedInv
  <2>3. /\ j - 1 \in 0 .. Len(uart) /\ Len(uart) \in Nat
        /\ TAG_LENGTH \in 0 .. TAG_LENGTH
    BY <1>3, <2>1, ConstantTypes
  <2>4. QED BY <1>1, <1>3, <1>4, <2>2, <2>3, ReceivedKept
<1>7. QED BY <1>5, <1>6

LEMMA TakeStep ==
  TypeOK /\ BufferIsTail /\ SentInv /\ EndedInv /\ TakeByte =>
    SentInv' /\ EndedInv'
<1> SUFFICES ASSUME TypeOK, BufferIsTail, SentInv, EndedInv, TakeByte
             PROVE  SentInv' /\ EndedInv'
  OBVIOUS
<1>1. /\ uart # << >> /\ uart' = Tail(uart) /\ UNCHANGED <<sending, intact>>
      /\ TAG_LENGTH \in 0 .. TAG_LENGTH /\ TAG_LENGTH \in Nat
  BY ConstantTypes DEF TakeByte, readerVars
<1>2. PICK n \in Nat \ {0} : n = Len(uart)
  BY <1>1, Waiting
<1>3. /\ uart \in Seq(Entry) /\ Len(uart') = n - 1
      /\ \A j \in 1 .. n - 1 : uart'[j] = uart[j + 1]
  BY <1>1, <1>2, Waiting
<1>4. SentInv'
  <2> SUFFICES ASSUME intact, sending.next > 0
               PROVE  Received(uart', line', n - 1, sending.card, sending.next - 1)
    BY <1>1, <1>3 DEF SentInv
  <2>1. /\ Received(uart, line, n, sending.card, sending.next - 1)
        /\ sending.next - 1 \in 0 .. TAG_LENGTH /\ sending.card \in Card
    BY <1>1, <1>2 DEF SentInv, TypeOK
  <2>2. n \in 1 .. Len(uart)
    BY <1>2
  <2>3. QED BY <2>1, <2>2, ReceivedTaken
<1>5. EndedInv'
  <2> SUFFICES ASSUME NEW j \in 1 .. n - 1, uart'[j].ends # NoCard
               PROVE  /\ uart'[j].ch = NEWLINE
                      /\ Received(uart', line', j - 1, uart'[j].ends, TAG_LENGTH)
    BY <1>3 DEF EndedInv
  <2>1. /\ j + 1 \in 1 .. Len(uart) /\ j \in 1 .. Len(uart) /\ (j + 1) - 1 = j
        /\ uart'[j] = uart[j + 1]
    BY <1>2, <1>3
  <2>2. /\ uart[j + 1].ch = NEWLINE
        /\ Received(uart, line, j, uart[j + 1].ends, TAG_LENGTH)
    BY <2>1 DEF EndedInv
  <2>3. uart[j + 1].ends \in Card
    <3>1. uart[j + 1] \in Entry
      BY <1>3, <2>1
    <3>2. uart[j + 1].ends # NoCard
      BY <2>1
    <3>3. QED BY <3>1, <3>2 DEF Entry
  <2>4. QED BY <1>1, <2>1, <2>2, <2>3, ReceivedTaken
<1>6. QED BY <1>4, <1>5

LEMMA InvStep == IInv /\ [Next]_vars => IInv'
<1> SUFFICES ASSUME IInv, [Next]_vars PROVE IInv'
  OBVIOUS
<1> USE DEF IInv
<1>1. TypeOK' /\ BufferIsTail'
  BY TypeStep
<1>2. CASE ReaderSends
  BY <1>1, <1>2, SendStep
     DEF ReaderSends, LoopInv, WholeLineReported, Number, Digit
<1>3. CASE Noise
  BY <1>1, <1>3, NoiseStep DEF Noise, LoopInv, WholeLineReported, Number, Digit
<1>4. CASE TakeByte
  <2>1. LoopInv'
    BY <1>4 DEF TakeByte, LoopInv
  <2>2. QED BY <1>1, <1>4, <2>1, TakeStep, EndedReported
<1>5. CASE DoorOpen
  <2>1. SentInv'
    BY <1>5 DEF DoorOpen, readerVars, bufferVars, SentInv
  <2>2. EndedInv'
    BY <1>5 DEF DoorOpen, bufferVars, EndedInv
  <2>3. QED BY <1>1, <1>5, <2>1, <2>2 DEF DoorOpen, LoopInv, WholeLineReported
<1>6. CASE DoorClose
  BY <1>1, <1>6 DEF DoorClose, readerVars, bufferVars, SentInv, EndedInv, LoopInv,
     WholeLineReported
<1>7. CASE EnterRfid \/ RfidDone
  BY <1>1, <1>7 DEF EnterRfid, RfidDone, readerVars, bufferVars, SentInv, EndedInv,
     LoopInv, WholeLineReported, Number, Digit
<1>8. CASE UNCHANGED vars
  BY <1>1, <1>8 DEF vars, readerVars, tagVars, bufferVars, SentInv, EndedInv,
     LoopInv, WholeLineReported, Number, Digit
<1>9. QED BY <1>2, <1>3, <1>4, <1>5, <1>6, <1>7, <1>8 DEF Next

LEMMA Invariance == Spec => []IInv
<1>1. QED BY InitInv, InvStep, PTL DEF Spec

(* Every variable keeps its type; the UART never holds more than it can. *)
THEOREM TypeCorrect == Spec => []TypeOK
<1>1. IInv => TypeOK
  BY DEF IInv
<1>2. QED BY <1>1, Invariance, PTL

(* A line that reaches the UART whole is reported as its card's tag,       *)
(* whatever was left in buffer and UART by the lines before it.            *)
THEOREM WholeLinesReported == Spec => []WholeLineReported
<1>1. IInv => WholeLineReported
  BY DEF IInv
<1>2. QED BY <1>1, Invariance, PTL

(* The tag reader uses the line buffer as CharBuffer specifies it, so that *)
(* what is proved of the buffer holds in it.                               *)
THEOREM UsesBuffer == Spec => SpecBuffer
<1>1. Init => InitBuffer
  BY DEF Init
<1>2. IInv /\ [Next]_vars => [NextBuffer]_bufferVars
  BY BufferUse DEF IInv
<1>3. QED BY <1>1, <1>2, Invariance, PTL DEF Spec, SpecBuffer
=============================================================================
