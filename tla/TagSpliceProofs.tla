-------------------------- MODULE TagSpliceProofs --------------------------
(***************************************************************************)
(* A theorem of TagReader on lines with lost bytes, for any cards, length  *)
(* of a tag, size of the buffer and depth of the UART: a splice of one     *)
(* card's lines over one gap, some of whose bytes may read as NULs, is     *)
(* reported as a tag only when it is that card's.                          *)
(***************************************************************************)
EXTENDS TagReaderProofs

(* What the reader sends after x. *)
Follows(x, y) ==
  \/ x = NEWLINE /\ (y = NEWLINE \/ \E card \in Card : y = Digit(card, 1))
  \/ \E card \in Card, i \in 1 .. TAG_LENGTH :
       x = Digit(card, i) /\ y = LineByte(card, i + 1)

(* A NUL is no character of the reader's and says nothing of the next. *)
Linked(x, y) == x = NUL \/ y = NUL \/ Follows(x, y)

(* The byte received before the i-th of those that wait, the last that the *)
(* line took for the first; at its start the line has taken a newline.     *)
Before(q, l, i) == IF i > 1 THEN q[i - 1].ch
                   ELSE IF l = << >> THEN NEWLINE ELSE l[Len(l)]

UartLinks ==
  \A i \in 1 .. Len(uart) :
    ~uart[i].gap => Linked(Before(uart, line, i), uart[i].ch)

SendLink ==
  ~gap => Linked(Before(uart, line, Len(uart) + 1),
                 LineByte(sending.card, sending.next))

(* From one position of the line to another it is a card's number, from    *)
(* its k-th character on.                                                  *)
Run(l, from, to, card, k) ==
  /\ k \in Nat \ {0} /\ k + (to - from) <= TAG_LENGTH
  /\ \A i \in from .. to : l[i] = Digit(card, k + (i - from))

(* The beginning of one number; or that of one and then, after a gap or a  *)
(* NUL in its place, a part of another.                                    *)
Whole(l) == \E card \in Card : Run(l, 1, Len(l), card, 1)

SplitAt(l, j) ==
  \E first, second \in Card, k \in Nat :
    /\ Run(l, 1, j, first, 1)
    /\ \/ l[j + 1] = NUL /\ Run(l, j + 2, Len(l), second, k)
       \/ Run(l, j + 1, Len(l), second, k)

Split(l) == \E j \in 0 .. Len(l) - 1 : SplitAt(l, j)

LineInv ==
  /\ ready => line = << >>
  /\ line # << >> /\ gaps = 0 => Whole(line)
  /\ line # << >> /\ gaps = 1 => Split(line)

SpliceInv == UartLinks /\ SendLink /\ LineInv /\ SpliceIsTag

-----------------------------------------------------------------------------
(* The characters are told apart by their card and place. *)
LEMMA Digits ==
  /\ \A c1, c2, i, j : Digit(c1, i) = Digit(c2, j) => c1 = c2 /\ i = j
  /\ NEWLINE # NUL
<1>1. \A c1, c2, i, j : Digit(c1, i) = Digit(c2, j) => c1 = c2 /\ i = j
  BY DEF Digit
<1>2. QED BY <1>1, BufferAssumption DEF BufferAssumption

(* After a character of a card comes its next, after the last a newline. *)
LEMMA AfterDigit ==
  ASSUME NEW card \in Card, NEW i \in 1 .. TAG_LENGTH, NEW y, y # NUL,
         Linked(Digit(card, i), y)
  PROVE  y = LineByte(card, i + 1)
<1>1. Digit(card, i) # NUL /\ Digit(card, i) # NEWLINE
  BY ConstantTypes
<1>2. Follows(Digit(card, i), y)
  BY <1>1 DEF Linked
<1>3. PICK c \in Card, j \in 1 .. TAG_LENGTH :
        Digit(card, i) = Digit(c, j) /\ y = LineByte(c, j + 1)
  BY <1>1, <1>2 DEF Follows
<1>4. QED BY <1>3, Digits

(* A line begins with the first character of a number. *)
LEMMA AfterNewline ==
  ASSUME NEW y, y # NUL, y # NEWLINE, Linked(NEWLINE, y)
  PROVE  \E card \in Card : y = Digit(card, 1)
<1>1. Follows(NEWLINE, y)
  BY Digits DEF Linked
<1>2. \A card \in Card, i \in 1 .. TAG_LENGTH : NEWLINE # Digit(card, i)
  BY ConstantTypes
<1>3. QED BY <1>1, <1>2 DEF Follows

(* Any character but a NUL is one of a card's. *)
LEMMA CharIsDigit ==
  ASSUME NEW y \in Char, y # NUL
  PROVE  \E card \in Card, k \in 1 .. TAG_LENGTH : y = Digit(card, k)
<1>1. y \in Card \X (1 .. TAG_LENGTH)
  BY TagAssumption DEF TagAssumption, TagChar
<1>2. QED BY <1>1 DEF Digit

(* The reader's next byte follows the last one. *)
LEMMA NextByteLinked ==
  ASSUME NEW card \in Card, NEW next \in Card, NEW i \in 0 .. TAG_LENGTH + 1
  PROVE  /\ i # TAG_LENGTH + 1 => Linked(LineByte(card, i), LineByte(card, i + 1))
         /\ i = TAG_LENGTH + 1 => Linked(LineByte(card, i), LineByte(next, 0))
<1>0. TAG_LENGTH \in Nat \ {0}
  BY ConstantTypes
<1>1. CASE i \in 1 .. TAG_LENGTH
  <2>1. LineByte(card, i) = Digit(card, i) /\ i # TAG_LENGTH + 1
    BY <1>0, <1>1 DEF LineByte
  <2>2. QED BY <1>1, <2>1 DEF Linked, Follows
<1>2. CASE i = 0
  <2>1. LineByte(card, i) = NEWLINE /\ LineByte(card, i + 1) = Digit(card, 1)
    BY <1>0, <1>2 DEF LineByte
  <2>2. QED BY <1>0, <1>2, <2>1 DEF Linked, Follows
<1>3. CASE i = TAG_LENGTH + 1
  <2>1. LineByte(card, i) = NEWLINE /\ LineByte(next, 0) = NEWLINE
    BY <1>0, <1>3 DEF LineByte
  <2>2. QED BY <1>3, <2>1 DEF Linked, Follows
<1>4. QED BY <1>0, <1>1, <1>2, <1>3

-----------------------------------------------------------------------------
(* The bytes in the order they were received. *)

(* A byte that arrives is linked to the one before it, unless bytes were   *)
(* lost between; it comes before whatever the reader sends next.           *)
LEMMA ArrivalLinked ==
  ASSUME TypeOK, UartLinks,
         NEW c \in Char \cup Newline, NEW e \in Card \cup {NoCard},
         Arrive(c, e), line' = line,
         ~gap => Linked(Before(uart, line, Len(uart) + 1), c),
         Linked(c, LineByte(sending.card, sending.next)')
  PROVE  UartLinks' /\ SendLink'
<1>1. PICK n \in Nat : n = Len(uart)
  BY DEF TypeOK
<1>2. \A j \in 1 .. n : uart'[j] = uart[j]
  BY <1>1, Arrival
<1>3. CASE n = UartDepth
  <2>1. uart' = uart /\ gap' = TRUE
    BY <1>1, <1>3, Arrival
  <2>2. QED BY <2>1 DEF UartLinks, SendLink
<1>4. CASE n # UartDepth
  <2>1. /\ Len(uart') = n + 1 /\ uart'[n + 1].ch = c
        /\ uart'[n + 1].gap = gap /\ gap' = FALSE
    BY <1>1, <1>4, Arrival
  <2>2. \A i \in 1 .. n + 1 : Before(uart', line', i) = Before(uart, line, i)
    BY <1>2 DEF Before
  <2>3. UartLinks'
    <3> SUFFICES ASSUME NEW i \in 1 .. n + 1, ~uart'[i].gap
                 PROVE  Linked(Before(uart', line', i), uart'[i].ch)
      BY <2>1 DEF UartLinks
    <3>1. CASE i \in 1 .. n
      BY <1>1, <1>2, <2>2, <3>1 DEF UartLinks
    <3>2. CASE i = n + 1
      BY <1>1, <2>1, <2>2, <3>2
    <3>3. QED BY <3>1, <3>2
  <2>4. Before(uart', line', Len(uart') + 1) = c
    BY <2>1 DEF Before
  <2>5. SendLink'
    BY <2>4 DEF SendLink
  <2>6. QED BY <2>3, <2>5
<1>5. QED BY <1>3, <1>4

(* The RFID loop moves the first byte that waits into the line. *)
LEMMA TakenLast ==
  ASSUME TypeOK, BufferIsTail, TakeByte
  PROVE  /\ Before(uart', line', 1) = uart[1].ch
         /\ uart[1].ch \in Newline => line' = << >>
         /\ uart[1].ch \notin Newline =>
              /\ line' = Append(line, uart[1].ch) /\ ~ready'
              /\ uart[1].ch \in Char
<1>1. /\ uart # << >> /\ ReadOrDumpBuffer(uart[1].ch)
      /\ uart[1].ch \in Char \cup Newline
  BY Waiting DEF TakeByte, Entry
<1>2. CASE uart[1].ch \in Newline
  <2>1. line' = << >>
    BY <1>1, <1>2 DEF ReadOrDumpBuffer, SkipNewline, EndLine, BufferIsTail
  <2>2. QED BY <1>2, <2>1 DEF Before, Newline
<1>3. CASE uart[1].ch \notin Newline
  <2>1. line' = Append(line, uart[1].ch) /\ ~ready' /\ uart[1].ch \in Char
    BY <1>1, <1>3 DEF ReadOrDumpBuffer, Store
  <2>2. line \in Seq(Char)
    BY DEF TypeOK, BufferTypeOK
  <2>3. line' # << >> /\ line'[Len(line')] = uart[1].ch
    BY <2>1, <2>2
  <2>4. QED BY <1>3, <2>1, <2>3 DEF Before
<1>4. QED BY <1>2, <1>3

LEMMA TakenLinked ==
  ASSUME TypeOK, BufferIsTail, UartLinks, SendLink, TakeByte
  PROVE  UartLinks' /\ SendLink'
<1>1. PICK n \in Nat \ {0} : n = Len(uart)
  BY Waiting DEF TakeByte
<1>2. /\ Len(uart') = n - 1 /\ UNCHANGED <<sending, gap>>
      /\ \A j \in 1 .. n - 1 : uart'[j] = uart[j + 1]
  BY <1>1, Waiting DEF TakeByte, readerVars
<1>3. \A i \in 1 .. n : Before(uart', line', i) = Before(uart, line, i + 1)
  <2> SUFFICES ASSUME NEW i \in 1 .. n
               PROVE  Before(uart', line', i) = Before(uart, line, i + 1)
    OBVIOUS
  <2>1. CASE i = 1
    <3>1. Before(uart, line, 2) = uart[1].ch
      BY DEF Before
    <3>2. QED BY <2>1, <3>1, TakenLast
  <2>2. CASE i > 1
    <3>1. i - 1 \in 1 .. n - 1 /\ (i - 1) + 1 = i /\ (i + 1) - 1 = i /\ i + 1 > 1
      BY <2>2
    <3>2. QED BY <1>2, <2>2, <3>1 DEF Before
  <2>3. QED BY <2>1, <2>2
<1>4. UartLinks'
  <2> SUFFICES ASSUME NEW i \in 1 .. n - 1, ~uart'[i].gap
               PROVE  Linked(Before(uart', line', i), uart'[i].ch)
    BY <1>2 DEF UartLinks
  <2>1. i + 1 \in 1 .. n /\ i \in 1 .. n /\ uart'[i] = uart[i + 1]
    BY <1>2
  <2>2. QED BY <1>1, <1>3, <2>1 DEF UartLinks
<1>5. SendLink'
  <2>1. Len(uart') + 1 = n /\ n \in 1 .. n
    BY <1>2
  <2>2. Before(uart', line', Len(uart') + 1) = Before(uart, line, Len(uart) + 1)
    BY <1>1, <1>3, <2>1
  <2>3. QED BY <1>2, <2>2 DEF SendLink
<1>6. QED BY <1>4, <1>5

LEMMA SendLinked ==
  ASSUME TypeOK, UartLinks, SendLink, ReaderSends
  PROVE  UartLinks' /\ SendLink'
<1> DEFINE i == sending.next
           card == sending.card
           c == LineByte(card, i)
           e == IF i = TAG_LENGTH + 1 /\ intact' THEN card ELSE NoCard
<1>1. /\ Arrive(c, e) /\ line' = line
      /\ i # TAG_LENGTH + 1 => sending' = [sending EXCEPT !.next = i + 1]
      /\ i = TAG_LENGTH + 1 => sending'.next = 0
  BY DEF ReaderSends, bufferVars
<1>2. /\ c \in Char \cup Newline /\ card \in Card /\ i \in 0 .. TAG_LENGTH + 1
      /\ sending'.card \in Card
      /\ i # TAG_LENGTH + 1 => sending'.next = i + 1 /\ sending'.card = card
  BY <1>1, SendType
<1>3. e \in Card \cup {NoCard}
  BY <1>2
<1>4. Linked(c, LineByte(sending'.card, sending'.next))
  BY <1>1, <1>2, NextByteLinked
<1>5. ~gap => Linked(Before(uart, line, Len(uart) + 1), c)
  BY DEF SendLink
<1> HIDE DEF i, card, c, e
<1>6. QED BY <1>1, <1>2, <1>3, <1>4, <1>5, ArrivalLinked

LEMMA NoiseLinked ==
  ASSUME TypeOK, UartLinks, SendLink, Noise
  PROVE  UartLinks' /\ SendLink'
<1>1. Arrive(NUL, NoCard) /\ line' = line
  BY DEF Noise, bufferVars
<1>2. NUL \in Char \cup Newline /\ NoCard \in Card \cup {NoCard}
  BY BufferAssumption DEF BufferAssumption
<1>3. \A x : Linked(x, NUL) /\ Linked(NUL, x)
  BY DEF Linked
<1>4. QED BY <1>1, <1>2, <1>3, ArrivalLinked

-----------------------------------------------------------------------------
(* The line as it grows. *)
LEMMA RunChar ==
  ASSUME NEW l, NEW from \in Nat, NEW to \in Int, NEW card \in Card, NEW k,
         Run(l, from, to, card, k), NEW i \in from .. to
  PROVE  /\ k + (i - from) \in 1 .. TAG_LENGTH
         /\ l[i] = Digit(card, k + (i - from)) /\ l[i] # NUL
<1>1. k + (i - from) \in 1 .. TAG_LENGTH
  BY ConstantTypes DEF Run
<1>2. l[i] = Digit(card, k + (i - from))
  BY DEF Run
<1>3. QED BY <1>1, <1>2, ConstantTypes

LEMMA RunKept ==
  ASSUME NEW l \in Seq(Char), NEW c \in Char, NEW from \in Nat \ {0},
         NEW to \in Int, to <= Len(l), NEW card \in Card, NEW k,
         Run(l, from, to, card, k)
  PROVE  Run(Append(l, c), from, to, card, k)
<1>1. \A i \in from .. to : Append(l, c)[i] = l[i]
  OBVIOUS
<1>2. QED BY <1>1 DEF Run

LEMMA RunMore ==
  ASSUME NEW l \in Seq(Char), NEW c \in Char, c # NUL,
         NEW from \in 1 .. Len(l), NEW card \in Card, NEW k,
         Run(l, from, Len(l), card, k), Linked(l[Len(l)], c)
  PROVE  Run(Append(l, c), from, Len(l) + 1, card, k)
<1>1. PICK n \in Nat \ {0} : n = Len(l)
  OBVIOUS
<1>2. /\ k \in Nat \ {0} /\ TAG_LENGTH \in Nat /\ n \in from .. n
      /\ k + (n - from) \in 1 .. TAG_LENGTH /\ l[n] = Digit(card, k + (n - from))
  BY <1>1, RunChar, ConstantTypes DEF Run
<1>3. c = LineByte(card, k + (n - from) + 1)
  BY <1>1, <1>2, AfterDigit
<1>4. c # NEWLINE
  BY BufferAssumption DEF BufferAssumption
<1>5. /\ k + (n - from) + 1 \in 1 .. TAG_LENGTH
      /\ c = Digit(card, k + (n - from) + 1)
  BY <1>3, <1>4 DEF LineByte
<1>6. ASSUME NEW i \in from .. n + 1
      PROVE  Append(l, c)[i] = Digit(card, k + (i - from))
  <2>1. CASE i \in from .. n
    <3>1. Append(l, c)[i] = l[i]
      BY <1>1, <2>1
    <3>2. QED BY <1>1, <2>1, <3>1 DEF Run
  <2>2. CASE i = n + 1
    <3>1. Append(l, c)[i] = c /\ k + (i - from) = k + (n - from) + 1
      BY <1>1, <1>2, <2>2
    <3>2. QED BY <1>5, <3>1
  <2>3. i \in from .. n \/ i = n + 1
    BY <1>1
  <2>4. QED BY <2>1, <2>2, <2>3
<1>7. k + ((n + 1) - from) <= TAG_LENGTH
  BY <1>2, <1>5
<1>8. QED BY <1>1, <1>2, <1>6, <1>7 DEF Run

(* A character that follows keeps the line whole, or split where it is;    *)
(* one after a gap, or a NUL, splits it here.                              *)
LEMMA WholeGrows ==
  ASSUME NEW l \in Seq(Char), NEW c \in Char, c # NUL,
         IF l = << >> THEN Linked(NEWLINE, c) ELSE Whole(l) /\ Linked(l[Len(l)], c)
  PROVE  Whole(Append(l, c))
<1>0. TAG_LENGTH \in Nat \ {0} /\ Len(Append(l, c)) = Len(l) + 1
  BY ConstantTypes
<1>1. CASE l = << >>
  <2>1. c # NEWLINE
    BY BufferAssumption DEF BufferAssumption
  <2>2. PICK card \in Card : c = Digit(card, 1)
    BY <1>1, <2>1, AfterNewline
  <2>3. Len(l) = 0 /\ Append(l, c)[1] = c
    BY <1>1
  <2>4. \A i \in 1 .. 1 : Append(l, c)[i] = Digit(card, 1 + (i - 1))
    BY <2>2, <2>3
  <2>5. Run(Append(l, c), 1, 1, card, 1)
    BY <1>0, <2>4 DEF Run
  <2>6. QED BY <1>0, <2>3, <2>5 DEF Whole
<1>2. CASE l # << >>
  <2>1. PICK card \in Card : Run(l, 1, Len(l), card, 1)
    BY <1>2 DEF Whole
  <2>2. 1 \in 1 .. Len(l)
    BY <1>2
  <2>3. Run(Append(l, c), 1, Len(l) + 1, card, 1)
    BY <1>2, <2>1, <2>2, RunMore
  <2>4. QED BY <1>0, <2>3 DEF Whole
<1>3. QED BY <1>1, <1>2

LEMMA SplitHere ==
  ASSUME NEW l \in Seq(Char), NEW c \in Char, l = << >> \/ Whole(l), Card # {}
  PROVE  Split(Append(l, c))
<1>0. TAG_LENGTH \in Nat \ {0} /\ Len(Append(l, c)) = Len(l) + 1
  BY ConstantTypes
<1>1. PICK n \in Nat : n = Len(l)
  OBVIOUS
<1>2. PICK first \in Card : Run(Append(l, c), 1, n, first, 1)
  <2>1. CASE l = << >>
    <3>1. PICK card \in Card : TRUE
      OBVIOUS
    <3>2. n = 0
      BY <1>1, <2>1
    <3>3. Run(Append(l, c), 1, n, card, 1)
      BY <1>0, <3>2 DEF Run
    <3>4. QED BY <3>3
  <2>2. CASE Whole(l)
    <3>1. PICK card \in Card : Run(l, 1, n, card, 1)
      BY <1>1, <2>2 DEF Whole
    <3>2. Run(Append(l, c), 1, n, card, 1)
      BY <1>1, <3>1, RunKept
    <3>3. QED BY <3>2
  <2>3. QED BY <2>1, <2>2
<1>3. Append(l, c)[n + 1] = c /\ n \in 0 .. Len(Append(l, c)) - 1
  BY <1>0, <1>1
<1>4. CASE c = NUL
  <2>1. Run(Append(l, c), n + 2, n + 1, first, 1)
    BY <1>0 DEF Run
  <2>2. SplitAt(Append(l, c), n)
    BY <1>0, <1>1, <1>2, <1>3, <1>4, <2>1 DEF SplitAt
  <2>3. QED BY <1>3, <2>2 DEF Split
<1>5. CASE c # NUL
  <2>1. PICK second \in Card, k \in 1 .. TAG_LENGTH : c = Digit(second, k)
    BY <1>5, CharIsDigit
  <2>2. \A i \in n + 1 .. n + 1 : Append(l, c)[i] = Digit(second, k + (i - (n + 1)))
    BY <1>0, <1>3, <2>1
  <2>3. Run(Append(l, c), n + 1, n + 1, second, k)
    <3>1. k \in Nat \ {0} /\ k + ((n + 1) - (n + 1)) <= TAG_LENGTH
      BY <1>0, <2>1
    <3>2. QED BY <2>2, <3>1 DEF Run
  <2>4. SplitAt(Append(l, c), n)
    BY <1>0, <1>1, <1>2, <2>1, <2>3 DEF SplitAt
  <2>5. QED BY <1>3, <2>4 DEF Split
<1>6. QED BY <1>4, <1>5

LEMMA SplitGrows ==
  ASSUME NEW l \in Seq(Char), l # << >>, NEW c \in Char, c # NUL, Split(l),
         Linked(l[Len(l)], c)
  PROVE  Split(Append(l, c))
<1>0. TAG_LENGTH \in Nat \ {0} /\ Len(Append(l, c)) = Len(l) + 1
  BY ConstantTypes
<1>1. PICK n \in Nat \ {0} : n = Len(l)
  OBVIOUS
<1>2. PICK j \in 0 .. n - 1 : SplitAt(l, j)
  BY <1>1 DEF Split
<1>3. PICK first \in Card, second \in Card, k \in Nat :
        /\ Run(l, 1, j, first, 1)
        /\ \/ l[j + 1] = NUL /\ Run(l, j + 2, n, second, k)
           \/ Run(l, j + 1, n, second, k)
  BY <1>1, <1>2 DEF SplitAt
<1>4. Run(Append(l, c), 1, j, first, 1)
  BY <1>1, <1>3, RunKept
<1>5. Append(l, c)[j + 1] = l[j + 1] /\ j \in 0 .. Len(Append(l, c)) - 1
  BY <1>0, <1>1
<1>6. CASE l[j + 1] = NUL /\ Run(l, j + 2, n, second, k) /\ j + 1 < n
  <2>1. j + 2 \in 1 .. Len(l)
    BY <1>1, <1>6
  <2>2. Run(Append(l, c), j + 2, n + 1, second, k)
    BY <1>1, <1>6, <2>1, RunMore
  <2>3. SplitAt(Append(l, c), j)
    BY <1>0, <1>1, <1>4, <1>5, <1>6, <2>2 DEF SplitAt
  <2>4. QED BY <1>5, <2>3 DEF Split
<1>7. CASE l[j + 1] = NUL /\ j + 1 = n
  <2>1. PICK card \in Card, m \in 1 .. TAG_LENGTH : c = Digit(card, m)
    BY CharIsDigit
  <2>2. \A i \in j + 2 .. n + 1 : Append(l, c)[i] = Digit(card, m + (i - (j + 2)))
    BY <1>1, <1>7, <2>1
  <2>3. Run(Append(l, c), j + 2, n + 1, card, m)
    <3>1. m \in Nat \ {0} /\ m + ((n + 1) - (j + 2)) <= TAG_LENGTH
      BY <1>0, <1>7, <2>1
    <3>2. QED BY <2>2, <3>1 DEF Run
  <2>4. SplitAt(Append(l, c), j)
    BY <1>0, <1>1, <1>4, <1>5, <1>7, <2>1, <2>3 DEF SplitAt
  <2>5. QED BY <1>5, <2>4 DEF Split
<1>8. CASE Run(l, j + 1, n, second, k)
  <2>1. j + 1 \in 1 .. Len(l)
    BY <1>1
  <2>2. Run(Append(l, c), j + 1, n + 1, second, k)
    BY <1>1, <1>8, <2>1, RunMore
  <2>3. SplitAt(Append(l, c), j)
    BY <1>0, <1>1, <1>4, <2>2 DEF SplitAt
  <2>4. QED BY <1>5, <2>3 DEF Split
<1>9. QED BY <1>1, <1>3, <1>6, <1>7, <1>8

-----------------------------------------------------------------------------
(* The gaps counted when a byte is taken. *)
LEMMA GapsTaken ==
  ASSUME TypeOK, LineInv, TakeByte
  PROVE  LET before == IF line = << >> THEN 0 ELSE gaps
             here   == uart[1].gap \/ uart[1].ch = NUL
         IN  /\ gaps' = 0 => before = 0 /\ ~here
             /\ gaps' = 1 => IF here THEN before = 0 ELSE before = 1
<1> DEFINE before == IF line = << >> THEN 0 ELSE gaps
           here   == uart[1].gap \/ uart[1].ch = NUL
<1>1. before \in 0 .. 2
  BY DEF TypeOK
<1>2. before = IF ready \/ line = << >> THEN 0 ELSE gaps
  BY DEF LineInv
<1>3. gaps' = IF here /\ before < 2 THEN before + 1 ELSE before
  BY <1>2, Waiting DEF TakeByte
<1> HIDE DEF before, here
<1>4. /\ gaps' = 0 => before = 0 /\ ~here
      /\ gaps' = 1 => IF here THEN before = 0 ELSE before = 1
  BY <1>1, <1>3
<1>5. QED BY <1>4 DEF before, here

LEMMA TakenLine ==
  ASSUME TypeOK, BufferIsTail, UartLinks, LineInv, TakeByte
  PROVE  LineInv'
<1>1. /\ uart # << >> /\ uart[1].ch \in Char \cup Newline
      /\ ReadOrDumpBuffer(uart[1].ch)
  BY Waiting DEF TakeByte, Entry
<1>2. CASE uart[1].ch \in Newline
  BY <1>2, TakenLast DEF LineInv
<1>3. CASE uart[1].ch \notin Newline
  <2> DEFINE c == uart[1].ch
  <2>1. line' = Append(line, c) /\ ~ready' /\ c \in Char /\ line \in Seq(Char)
    BY <1>3, TakenLast DEF TypeOK, BufferTypeOK
  <2>2. Card # {}
    BY DEF TypeOK
  <2>3. 1 \in 1 .. Len(uart)
    BY <1>1, Waiting
  <2>4. ASSUME ~uart[1].gap
        PROVE  Linked(IF line = << >> THEN NEWLINE ELSE line[Len(line)], c)
    BY <2>3, <2>4 DEF UartLinks, Before
  <2> HIDE DEF c
  <2>5. ASSUME gaps' = 0 PROVE Whole(line')
    <3>1. ~uart[1].gap /\ c # NUL /\ (line # << >> => gaps = 0)
      BY <2>5, GapsTaken DEF c
    <3>2. line # << >> => Whole(line)
      BY <3>1 DEF LineInv
    <3>3. QED BY <2>1, <2>4, <3>1, <3>2, WholeGrows
  <2>6. ASSUME gaps' = 1 PROVE Split(line')
    <3>1. CASE uart[1].gap \/ c = NUL
      <4>1. line = << >> \/ gaps = 0
        BY <2>6, <3>1, GapsTaken DEF c
      <4>2. line = << >> \/ Whole(line)
        BY <4>1 DEF LineInv
      <4>3. QED BY <2>1, <2>2, <4>2, SplitHere
    <3>2. CASE ~uart[1].gap /\ c # NUL
      <4>1. line # << >> /\ gaps = 1
        BY <2>6, <3>2, GapsTaken DEF c
      <4>2. Split(line)
        BY <4>1 DEF LineInv
      <4>3. QED BY <2>1, <2>4, <3>2, <4>1, <4>2, SplitGrows
    <3>3. QED BY <3>1, <3>2
  <2>7. QED BY <2>1, <2>5, <2>6 DEF LineInv
<1>4. QED BY <1>2, <1>3

-----------------------------------------------------------------------------
(* The line that a newline ends, read from the buffer up to its first NUL. *)
LEMMA EndLineUpTo ==
  ASSUME BufferTypeOK, BufferIsTail, EndLine, Len(line) < CHAR_BUFFER_SIZE,
         NEW j \in 0 .. Len(line), j = Len(line) \/ line[j + 1] = NUL,
         \A i \in 1 .. j : line[i] # NUL
  PROVE  Strlen(buffer') = j /\ Text(buffer') = [i \in 1 .. j |-> line[i]]
<1>1. /\ buffer' \in [Index -> Char] /\ Len(line) \in Index
      /\ buffer'[Len(line)] = NUL
      /\ \A i \in 0 .. Len(line) - 1 : buffer'[i] = line[i + 1]
  BY EndLineBuffer
<1>2. PICK n \in Index : n = Len(line)
  BY <1>1
<1>3. j \in Index /\ j \in 0 .. n /\ n \in Nat /\ j \in Nat
  BY <1>2, BufferAssumption DEF Index, BufferAssumption
<1>4. buffer'[j] = NUL
  <2>1. CASE j = n
    BY <1>1, <1>2, <2>1
  <2>2. CASE j # n
    <3>1. j \in 0 .. n - 1
      BY <1>2, <1>3, <2>2 DEF Index
    <3>2. QED BY <1>1, <1>2, <2>2, <3>1
  <2>3. QED BY <2>1, <2>2
<1>5. ASSUME NEW i \in 0 .. j - 1 PROVE buffer'[i] # NUL
  <2>1. i + 1 \in 1 .. j /\ i \in 0 .. n - 1
    BY <1>3
  <2>2. QED BY <1>1, <1>2, <2>1
<1>6. Strlen(buffer') = j /\ Text(buffer') = [i \in 1 .. j |-> buffer'[i - 1]]
  BY <1>1, <1>3, <1>4, <1>5, TextBefore
<1>7. [i \in 1 .. j |-> buffer'[i - 1]] = [i \in 1 .. j |-> line[i]]
  <2> SUFFICES ASSUME NEW i \in 1 .. j PROVE buffer'[i - 1] = line[i]
    OBVIOUS
  <2>1. i - 1 \in 0 .. n - 1 /\ (i - 1) + 1 = i
    BY <1>2, <1>3 DEF Index
  <2>2. QED BY <1>1, <1>2, <2>1
<1>8. QED BY <1>6, <1>7

(* A run from the beginning of a number, of its length, is the number. *)
LEMMA RunIsNumber ==
  ASSUME NEW l, NEW card \in Card, Run(l, 1, TAG_LENGTH, card, 1)
  PROVE  [i \in 1 .. TAG_LENGTH |-> l[i]] = Number(card)
<1>1. \A i \in 1 .. TAG_LENGTH : l[i] = Digit(card, i)
  BY ConstantTypes DEF Run
<1>2. QED BY <1>1 DEF Number

(***************************************************************************)
(* A line of one card, split once, that has no NUL and the length of a tag *)
(* is its number: the part after the gap ends with the number's last       *)
(* character, so it begins where the part before the gap left off.         *)
(***************************************************************************)
LEMMA SpliceIsNumber ==
  ASSUME NEW l \in Seq(Char), Len(l) = TAG_LENGTH, SameCard(l),
         NEW j \in 0 .. TAG_LENGTH - 1,
         NEW first \in Card, NEW second \in Card, NEW k \in Nat,
         Run(l, 1, j, first, 1), Run(l, j + 1, TAG_LENGTH, second, k),
         Linked(l[TAG_LENGTH], NEWLINE)
  PROVE  \E card \in Card : [i \in 1 .. TAG_LENGTH |-> l[i]] = Number(card)
<1>0. PICK n \in Nat \ {0} : n = TAG_LENGTH
  BY ConstantTypes
<1>1. k + (n - (j + 1)) \in 1 .. n /\ l[n] = Digit(second, k + (n - (j + 1)))
  <2>1. n \in j + 1 .. n
    BY <1>0
  <2>2. QED BY <1>0, <2>1, RunChar
<1>2. NEWLINE = LineByte(second, k + (n - (j + 1)) + 1)
  BY <1>0, <1>1, AfterDigit, Digits
<1>3. k + (n - (j + 1)) = n
  <2>1. ASSUME k + (n - (j + 1)) + 1 \in 1 .. n PROVE FALSE
    BY <1>0, <1>2, <2>1, ConstantTypes DEF LineByte
  <2>2. QED BY <1>0, <1>1, <2>1
<1>4. k = j + 1
  BY <1>0, <1>3
<1>5. PICK card \in Card : \A i \in 1 .. n :
        l[i] \in {NUL} \cup {Digit(card, m) : m \in 1 .. n}
  BY <1>0 DEF SameCard
<1>6. ASSUME NEW i \in 1 .. n PROVE l[i] = Digit(card, i)
  <2>1. l[i] # NUL /\ \E c \in Card : l[i] = Digit(c, i)
    <3>1. CASE i \in 1 .. j
      <4>1. l[i] = Digit(first, i) /\ i \in 1 .. TAG_LENGTH
        BY <1>0, <3>1 DEF Run
      <4>2. QED BY <4>1, ConstantTypes
    <3>2. CASE i \in j + 1 .. n
      <4>1. k + (i - (j + 1)) = i
        BY <1>4, <3>2
      <4>2. l[i] = Digit(second, k + (i - (j + 1))) /\ l[i] # NUL
        BY <1>0, <3>2, RunChar
      <4>3. QED BY <4>1, <4>2
    <3>3. i \in 1 .. j \/ i \in j + 1 .. n
      BY <1>0
    <3>4. QED BY <3>1, <3>2, <3>3
  <2>2. PICK m \in 1 .. n : l[i] = Digit(card, m)
    BY <1>5, <2>1
  <2>3. QED BY <2>1, <2>2, Digits
<1>7. [i \in 1 .. TAG_LENGTH |-> l[i]] = Number(card)
  BY <1>0, <1>6 DEF Number
<1>8. QED BY <1>7

LEMMA TakenSplice ==
  ASSUME TypeOK, BufferIsTail, UartLinks, LineInv, TakeByte
  PROVE  SpliceIsTag'
<1> SUFFICES ASSUME report'.kind = "TAG", gaps' <= 1, SameCard(last'),
                    Len(last') < CHAR_BUFFER_SIZE
             PROVE  \E card \in Card : report'.text = Number(card)
  BY DEF SpliceIsTag, SameCard, Number, Digit
<1>1. /\ uart # << >> /\ uart[1].ch \in Char \cup Newline
      /\ ReadOrDumpBuffer(uart[1].ch)
  BY Waiting DEF TakeByte, Entry
<1>2. ready' /\ report' = [kind |-> ReportKind(buffer'), text |-> Text(buffer')]
  BY DEF TakeByte, NoReport
<1>3. Strlen(buffer') = TAG_LENGTH /\ report'.text = Text(buffer')
  BY <1>2 DEF ReportKind
<1>4. EndLine /\ last' = line /\ uart[1].ch = NEWLINE
  BY <1>1, <1>2 DEF ReadOrDumpBuffer, SkipNewline, Store, EndLine, Newline
<1>5. BufferTypeOK /\ line # << >> /\ line \in Seq(Char)
  BY <1>4 DEF EndLine, BufferIsTail, TypeOK, BufferTypeOK
<1>6. PICK n \in Nat \ {0} : n = Len(line) /\ n < CHAR_BUFFER_SIZE
  BY <1>4, <1>5
<1>7. gaps' \in 0 .. 1
  <2>1. gaps' \in 0 .. 2
    BY TypeStep DEF Next, TypeOK
  <2>2. QED BY <2>1
<1>8. ASSUME NEW j \in 0 .. n, j = n \/ line[j + 1] = NUL, NEW card \in Card,
             Run(line, 1, j, card, 1)
      PROVE  report'.text = Number(card)
  <2>1. \A i \in 1 .. j : line[i] # NUL
    BY <1>8, RunChar
  <2>2. Strlen(buffer') = j /\ Text(buffer') = [i \in 1 .. j |-> line[i]]
    BY <1>4, <1>5, <1>6, <1>8, <2>1, EndLineUpTo
  <2>3. j = TAG_LENGTH
    BY <1>3, <2>2
  <2>4. QED BY <1>3, <1>8, <2>2, <2>3, RunIsNumber
<1>9. CASE gaps = 0
  <2>1. PICK card \in Card : Run(line, 1, n, card, 1)
    BY <1>5, <1>6, <1>9 DEF LineInv, Whole
  <2>2. QED BY <1>8, <2>1
<1>10. CASE gaps = 1 /\ ~uart[1].gap
  <2>1. PICK j \in 0 .. n - 1 : SplitAt(line, j)
    BY <1>5, <1>6, <1>10 DEF LineInv, Split
  <2>2. PICK first \in Card, second \in Card, k \in Nat :
          /\ Run(line, 1, j, first, 1)
          /\ \/ line[j + 1] = NUL /\ Run(line, j + 2, n, second, k)
             \/ Run(line, j + 1, n, second, k)
    BY <1>6, <2>1 DEF SplitAt
  <2>3. j \in 0 .. n
    BY <2>1
  <2>4. CASE line[j + 1] = NUL
    BY <1>8, <2>2, <2>3, <2>4
  <2>5. CASE Run(line, j + 1, n, second, k)
    <3>1. \A i \in 1 .. n : line[i] # NUL
      <4> SUFFICES ASSUME NEW i \in 1 .. n PROVE line[i] # NUL
        OBVIOUS
      <4>1. i \in 1 .. j \/ i \in j + 1 .. n
        BY <2>1
      <4>2. CASE i \in 1 .. j
        BY <2>1, <2>2, <4>2, RunChar
      <4>3. CASE i \in j + 1 .. n
        BY <2>1, <2>5, <4>3, RunChar
      <4>4. QED BY <4>1, <4>2, <4>3
    <3>2. Strlen(buffer') = n /\ Text(buffer') = [i \in 1 .. n |-> line[i]]
      BY <1>4, <1>5, <1>6, <3>1, EndLineUpTo
    <3>3. n = TAG_LENGTH
      BY <1>3, <3>2
    <3>4. Linked(line[n], NEWLINE)
      <4>1. 1 \in 1 .. Len(uart)
        BY <1>1, Waiting
      <4>2. Linked(Before(uart, line, 1), uart[1].ch)
        BY <1>10, <4>1 DEF UartLinks
      <4>3. QED BY <1>4, <1>5, <1>6, <4>2 DEF Before
    <3>5. \E card \in Card : [i \in 1 .. TAG_LENGTH |-> line[i]] = Number(card)
      BY <1>4, <1>5, <1>6, <2>1, <2>2, <2>5, <3>3, <3>4, SpliceIsNumber
    <3>6. QED BY <1>3, <3>2, <3>3, <3>5
  <2>6. QED BY <2>2, <2>4, <2>5
<1>11. gaps = 0 \/ (gaps = 1 /\ ~uart[1].gap)
  BY <1>5, <1>7, GapsTaken
<1>12. QED BY <1>9, <1>10, <1>11

-----------------------------------------------------------------------------
LEMMA SpliceInit == Init => SpliceInv
<1> SUFFICES ASSUME Init PROVE SpliceInv
  OBVIOUS
<1>1. /\ uart = << >> /\ line = << >> /\ Len(uart) = 0 /\ sending.next = 0
      /\ report.kind = "none" /\ ready = FALSE
  BY DEF Init, InitBuffer, NoReport
<1>2. Before(uart, line, Len(uart) + 1) = NEWLINE
  BY <1>1 DEF Before
<1>3. LineByte(sending.card, sending.next) = NEWLINE
  BY <1>1 DEF LineByte
<1>4. SendLink
  BY <1>2, <1>3 DEF SendLink, Linked, Follows
<1>5. UartLinks /\ LineInv /\ SpliceIsTag
  BY <1>1 DEF UartLinks, LineInv, SpliceIsTag
<1>6. QED BY <1>4, <1>5 DEF SpliceInv

LEMMA SpliceStep ==
  TypeOK /\ BufferIsTail /\ SpliceInv /\ [Next]_vars => SpliceInv'
<1> SUFFICES ASSUME TypeOK, BufferIsTail, SpliceInv, [Next]_vars
             PROVE  SpliceInv'
  OBVIOUS
<1>0. UartLinks /\ SendLink /\ LineInv /\ SpliceIsTag
  BY DEF SpliceInv
<1>1. ASSUME UNCHANGED <<bufferVars, gaps>>, report'.kind = "TAG" => UNCHANGED report
      PROVE  LineInv' /\ SpliceIsTag'
  <2>1. line' = line /\ ready' = ready /\ last' = last /\ gaps' = gaps
    BY <1>1 DEF bufferVars
  <2>2. LineInv'
    BY <1>0, <2>1 DEF LineInv
  <2>3. SpliceIsTag'
    <3>1. CASE report'.kind = "TAG"
      BY <1>0, <1>1, <2>1, <3>1 DEF SpliceIsTag, SameCard, Number, Digit
    <3>2. CASE report'.kind # "TAG"
      BY <3>2 DEF SpliceIsTag
    <3>3. QED BY <3>1, <3>2
  <2>4. QED BY <2>2, <2>3
<1>2. CASE ReaderSends
  BY <1>0, <1>1, <1>2, SendLinked DEF ReaderSends, SpliceInv
<1>3. CASE Noise
  BY <1>0, <1>1, <1>3, NoiseLinked DEF Noise, SpliceInv
<1>4. CASE TakeByte
  BY <1>0, <1>4, TakenLinked, TakenLine, TakenSplice DEF SpliceInv
<1>5. CASE DoorOpen
  <2>1. UNCHANGED <<bufferVars, uart, gaps, report>>
    BY <1>5 DEF DoorOpen
  <2>2. UartLinks'
    BY <1>0, <2>1 DEF bufferVars, UartLinks, Before, Linked, Follows
  <2>3. SendLink'
    BY <1>0, <1>5, <2>1
       DEF DoorOpen, readerVars, bufferVars, SendLink, Before, Linked, Follows
  <2>4. QED BY <1>1, <2>1, <2>2, <2>3 DEF SpliceInv
<1>6. CASE DoorClose \/ EnterRfid \/ RfidDone \/ UNCHANGED vars
  <2>1. /\ UNCHANGED <<bufferVars, readerVars, uart, gaps>>
        /\ report'.kind = "TAG" => UNCHANGED report
    BY <1>6 DEF DoorClose, EnterRfid, RfidDone, NoReport, vars, tagVars
  <2>2. UartLinks' /\ SendLink'
    BY <1>0, <2>1
       DEF readerVars, bufferVars, UartLinks, SendLink, Before, Linked, Follows
  <2>3. QED BY <1>1, <2>1, <2>2 DEF SpliceInv
<1>7. QED BY <1>2, <1>3, <1>4, <1>5, <1>6 DEF Next

(***************************************************************************)
(* Bytes that are lost between two lines of a card, however many, never    *)
(* make a tag of the two that is not the card's, as long as they are lost  *)
(* at one place; nor do NULs in place of some of them, or among the rest.  *)
(* Of a character read as another one it says nothing: main.c:124 compares *)
(* the length only, and a line with such a character in it is reported.    *)
(***************************************************************************)
THEOREM SplicesAreTags == Spec => []SpliceIsTag
<1>1. IInv => TypeOK /\ BufferIsTail
  BY DEF IInv
<1>2. SpliceInv => SpliceIsTag
  BY DEF SpliceInv
<1>3. QED
  BY <1>1, <1>2, Invariance, SpliceInit, SpliceStep, PTL DEF Spec
=============================================================================
