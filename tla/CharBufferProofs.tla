-------------------------- MODULE CharBufferProofs --------------------------
(***************************************************************************)
(* Theorems of CharBuffer, for every buffer size of at least two, every    *)
(* set of characters and every bound on the length of a line.              *)
(***************************************************************************)
EXTENDS CharBuffer, TLAPS

USE BufferAssumption

LEMMA EmptyLine == << >> \in Seq(Char) /\ Len(<< >>) = 0
OBVIOUS

LEMMA BufferInit == InitBuffer => BufferTypeOK /\ BufferIsTail
<1> SUFFICES ASSUME InitBuffer PROVE BufferTypeOK /\ BufferIsTail
  OBVIOUS
<1>2. 0 \in Index
  BY DEF Index
<1>3. BufferTypeOK
  BY EmptyLine, <1>2 DEF InitBuffer, BufferTypeOK
<1>4. BufferIsTail
  BY EmptyLine DEF InitBuffer, BufferIsTail
<1>5. QED BY <1>3, <1>4

(* No newline is ever stored: the branch that drops one is never taken. *)
LEMMA NoNewlineStored ==
  ASSUME BufferTypeOK, pos > 0
  PROVE  buffer[pos - 1] \notin Newline
BY DEF BufferTypeOK, Index, Newline

LEMMA EndLineEffect ==
  ASSUME BufferTypeOK, EndLine
  PROVE  buffer' = [buffer EXCEPT ![pos] = NUL]
BY NoNewlineStored DEF EndLine, Terminator

LEMMA BufferStep ==
  BufferTypeOK /\ BufferIsTail /\ [NextBuffer]_bufferVars
    => (BufferTypeOK /\ BufferIsTail)'
<1> SUFFICES ASSUME BufferTypeOK, BufferIsTail, [NextBuffer]_bufferVars
             PROVE  (BufferTypeOK /\ BufferIsTail)'
  OBVIOUS
<1>1. CASE SkipNewline
  BY <1>1, EmptyLine DEF SkipNewline, BufferTypeOK, BufferIsTail
<1>2. CASE EndLine
  <2>1. buffer' = [buffer EXCEPT ![pos] = NUL]
    BY <1>2, EndLineEffect
  <2>2. BufferTypeOK'
    <3>1. buffer' \in [Index -> Char] /\ 0 \in Index
      BY <2>1 DEF BufferTypeOK, Index
    <3>2. QED BY <1>2, <3>1, EmptyLine DEF EndLine, BufferTypeOK
  <2>3. BufferIsTail'
    BY <1>2 DEF EndLine, BufferIsTail
  <2>4. QED BY <2>2, <2>3
<1>3. ASSUME NEW c \in Char, Len(line) < MaxLine, Store(c)
      PROVE  (BufferTypeOK /\ BufferIsTail)'
  <2> DEFINE at == IF Full(pos) THEN 0 ELSE pos
  <2>1. at \in Index /\ at + 1 \in Index
    BY DEF BufferTypeOK, Index, Full
  <2>2. /\ buffer' = [buffer EXCEPT ![at] = c]
        /\ pos' = at + 1
    BY <1>3 DEF Store
  <2>l. line' = Append(line, c) /\ ready' = FALSE /\ last' = << >>
    BY <1>3 DEF Store
  <2>3. /\ line' \in Seq(Char)
        /\ Len(line') = Len(line) + 1
        /\ line'[Len(line) + 1] = c
        /\ \A j \in 1 .. Len(line) : line'[j] = line[j]
    BY <2>l DEF BufferTypeOK
  <2>4. BufferTypeOK'
    <3> HIDE DEF at
    <3>1. buffer' \in [Index -> Char]
      BY <2>1, <2>2 DEF BufferTypeOK
    <3>2. Len(line') <= MaxLine
      BY <1>3, <2>3 DEF BufferTypeOK
    <3>3. QED BY <2>1, <2>2, <2>l, <2>3, <3>1, <3>2, EmptyLine DEF BufferTypeOK
  <2>5. at <= pos /\ pos <= Len(line) /\ at \in Nat /\ Len(line) \in Nat
    BY DEF BufferTypeOK, BufferIsTail, Index, Full
  <2>6. Len(line') < CHAR_BUFFER_SIZE => pos' = Len(line')
    BY <2>2, <2>3, <2>5 DEF BufferIsTail, BufferTypeOK, Full, Index
  <2>7. ASSUME NEW i \in 1 .. pos'
        PROVE  buffer'[i - 1] = line'[Len(line') - pos' + i]
    <3>1. CASE i = at + 1
      BY <2>1, <2>2, <2>3, <2>5, <3>1 DEF BufferTypeOK
    <3>2. CASE i # at + 1
      <4>1. i \in 1 .. at /\ at = pos
        BY <2>2, <2>5, <2>7, <3>2 DEF BufferTypeOK, Index
      <4>2. buffer'[i - 1] = buffer[i - 1]
        BY <2>1, <2>2, <4>1 DEF BufferTypeOK, Index
      <4>3. buffer[i - 1] = line[Len(line) - pos + i]
        BY <4>1 DEF BufferIsTail
      <4>4. /\ Len(line') - pos' + i = Len(line) - pos + i
            /\ Len(line) - pos + i \in 1 .. Len(line)
        BY <2>2, <2>3, <2>5, <4>1
      <4>5. QED BY <2>3, <4>2, <4>3, <4>4
    <3>3. QED BY <3>1, <3>2
  <2>8. pos' <= Len(line') /\ pos' # 0 /\ line' # << >>
    BY <2>2, <2>3, <2>5
  <2>9. QED BY <2>4, <2>6, <2>7, <2>8 DEF BufferIsTail
<1>4. CASE UNCHANGED bufferVars
  BY <1>4 DEF bufferVars, BufferTypeOK, BufferIsTail
<1>5. QED
  BY <1>1, <1>2, <1>3, <1>4 DEF NextBuffer, ReadOrDumpBuffer, Newline

(* The buffer is never written out of its bounds: pos stays an index with  *)
(* room for the terminator, whatever the line.                             *)
THEOREM BufferTypeCorrect == SpecBuffer => []BufferTypeOK
<1>1. QED BY BufferInit, BufferStep, PTL DEF SpecBuffer

(* The buffer is the end of the line, and all of it when it fits. *)
THEOREM BufferHoldsTail == SpecBuffer => []BufferIsTail
<1>1. QED BY BufferInit, BufferStep, PTL DEF SpecBuffer

-----------------------------------------------------------------------------
(* strlen finds the first NUL; the text is what comes before it. *)
LEMMA TextBefore ==
  ASSUME NEW f \in [Index -> Char], NEW n \in Index, f[n] = NUL,
         \A i \in 0 .. n - 1 : f[i] # NUL
  PROVE  Strlen(f) = n /\ Text(f) = [i \in 1 .. n |-> f[i - 1]]
<1>1. \A m \in Index :
        f[m] = NUL /\ (\A i \in 0 .. m - 1 : f[i] # NUL) => m = n
  <2> SUFFICES ASSUME NEW m \in Index, f[m] = NUL,
                      \A i \in 0 .. m - 1 : f[i] # NUL, m # n
               PROVE  FALSE
    OBVIOUS
  <2>1. m \in 0 .. n - 1 \/ n \in 0 .. m - 1
    BY DEF Index
  <2>2. QED BY <2>1
<1>2. Strlen(f) = n
  BY <1>1 DEF Strlen
<1>3. QED BY <1>2 DEF Text

(* A newline after a line that the buffer can hold leaves the line in the  *)
(* buffer, and the terminator behind it.                                   *)
LEMMA EndLineBuffer ==
  ASSUME BufferTypeOK, BufferIsTail, EndLine, Len(line) < CHAR_BUFFER_SIZE
  PROVE  /\ buffer' \in [Index -> Char] /\ Len(line) \in Index
         /\ buffer'[Len(line)] = NUL
         /\ \A i \in 0 .. Len(line) - 1 : buffer'[i] = line[i + 1]
<1>1. buffer' = [buffer EXCEPT ![pos] = NUL]
  BY EndLineEffect
<1>2. pos = Len(line) /\ pos \in Index
  BY DEF BufferIsTail, BufferTypeOK
<1>3. buffer' \in [Index -> Char] /\ buffer'[Len(line)] = NUL
  BY <1>1, <1>2 DEF BufferTypeOK
<1>4. ASSUME NEW i \in 0 .. Len(line) - 1 PROVE buffer'[i] = line[i + 1]
  <2>1. i + 1 \in 1 .. pos /\ (i + 1) - 1 = i /\ Len(line) - pos + (i + 1) = i + 1
    BY <1>2 DEF Index
  <2>2. buffer[i] = line[i + 1]
    BY <2>1 DEF BufferIsTail
  <2>3. i \in Index /\ i # pos
    BY <1>2 DEF Index
  <2>4. QED BY <1>1, <2>2, <2>3 DEF BufferTypeOK
<1>5. QED BY <1>2, <1>3, <1>4

(* The newline after a line that fits leaves it to be read. *)
LEMMA EndLineText ==
  ASSUME BufferTypeOK, BufferIsTail, EndLine, Fits(line)
  PROVE  Strlen(buffer') = Len(line) /\ Text(buffer') = line
<1>1. /\ buffer' \in [Index -> Char] /\ Len(line) \in Index
      /\ buffer'[Len(line)] = NUL
      /\ \A i \in 0 .. Len(line) - 1 : buffer'[i] = line[i + 1]
  BY EndLineBuffer DEF Fits
<1>2. PICK n \in Index : n = Len(line)
  BY <1>1
<1>3. \A i \in 0 .. n - 1 : buffer'[i] # NUL
  <2> SUFFICES ASSUME NEW i \in 0 .. n - 1 PROVE line[i + 1] # NUL
    BY <1>1, <1>2
  <2>1. i + 1 \in 1 .. Len(line)
    BY <1>2 DEF Index
  <2>2. QED BY <2>1 DEF Fits
<1>4. Strlen(buffer') = n /\ Text(buffer') = [i \in 1 .. n |-> buffer'[i - 1]]
  BY <1>1, <1>2, <1>3, TextBefore
<1>5. [i \in 1 .. n |-> buffer'[i - 1]] = [i \in 1 .. n |-> line[i]]
  <2> SUFFICES ASSUME NEW i \in 1 .. n PROVE buffer'[i - 1] = line[i]
    OBVIOUS
  <2>1. i - 1 \in 0 .. Len(line) - 1 /\ (i - 1) + 1 = i
    BY <1>2 DEF Index
  <2>2. QED BY <1>1, <2>1
<1>6. line \in Seq(Char) /\ line = [i \in 1 .. n |-> line[i]]
  BY <1>2 DEF BufferTypeOK
<1>7. QED BY <1>2, <1>4, <1>5, <1>6

LEMMA ReadBackStep ==
  BufferTypeOK /\ BufferIsTail /\ LineReadBack /\ [NextBuffer]_bufferVars
    => LineReadBack'
<1> SUFFICES ASSUME BufferTypeOK, BufferIsTail, LineReadBack,
                    [NextBuffer]_bufferVars, ready', Fits(last')
             PROVE  Text(buffer') = last'
  BY DEF LineReadBack
<1>1. CASE EndLine
  BY <1>1, EndLineText DEF EndLine
<1>2. CASE UNCHANGED bufferVars
  BY <1>2 DEF bufferVars, LineReadBack
<1>3. ASSUME ~EndLine, NextBuffer PROVE ~ready'
  BY <1>3 DEF NextBuffer, ReadOrDumpBuffer, SkipNewline, Store
<1>4. QED BY <1>1, <1>2, <1>3

(* A line that fits is handed to the host exactly as it was received. *)
THEOREM LinesReadBack == SpecBuffer => []LineReadBack
<1>1. InitBuffer => LineReadBack
  BY DEF InitBuffer, LineReadBack
<1>2. QED BY BufferInit, BufferStep, <1>1, ReadBackStep, PTL DEF SpecBuffer
=============================================================================
