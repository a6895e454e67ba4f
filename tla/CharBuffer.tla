----------------------------- MODULE CharBuffer -----------------------------
(***************************************************************************)
(* The line buffer of panelMcuCode/main.c: initBuffer, readOrDumpBuffer    *)
(* and what its caller makes of the result with strlen and fputs.          *)
(*                                                                         *)
(* readOrDumpBuffer is given one character at a time.  `line` and `last`   *)
(* are history: the characters given since the last newline that counted,  *)
(* and the line that the last call ended, if it did.                       *)
(***************************************************************************)
EXTENDS Integers, Sequences

CONSTANTS
  CHAR_BUFFER_SIZE,
  Char,             \* every character but the newlines '\n' and '\r'
  NUL, NEWLINE,
  MaxLine           \* bound on `line`, to keep the history finite

ASSUME BufferAssumption ==
  /\ CHAR_BUFFER_SIZE \in Nat /\ CHAR_BUFFER_SIZE >= 2
  /\ NUL \in Char
  /\ NEWLINE \notin Char
  /\ MaxLine \in Nat

VARIABLES
  buffer, pos,      \* char_buffer_t; its size is CHAR_BUFFER_SIZE
  ready,            \* what the last call of readOrDumpBuffer returned
  line, last        \* history

bufferVars == <<buffer, pos, ready, line, last>>

Index   == 0 .. CHAR_BUFFER_SIZE - 1
Newline == {NEWLINE}

(* RAM is zeroed; initBuffer empties the buffer. *)
InitBuffer ==
  /\ buffer = [i \in Index |-> NUL]
  /\ pos = 0
  /\ ready = FALSE
  /\ line = << >>
  /\ last = << >>

(* A newline with nothing before it is skipped. *)
SkipNewline ==
  /\ pos = 0
  /\ ready' = FALSE
  /\ last' = << >>
  /\ UNCHANGED <<buffer, pos, line>>

(* Mutant: the terminator goes where the next character would not. *)
TerminatorAfter(end) == end + 1

(* Where the terminator of a line of `end` characters goes. *)
Terminator(end) == end

(* A newline ends the line; one that was stored before it is dropped. *)
EndLine ==
  LET end == IF buffer[pos - 1] \in Newline THEN pos - 1 ELSE pos IN
  /\ pos > 0
  /\ buffer' = [buffer EXCEPT ![Terminator(end)] = NUL]
  /\ pos' = 0
  /\ ready' = TRUE
  /\ last' = line
  /\ line' = << >>

(* Mutants: one position more, or fewer, is taken for characters. *)
FullLate(p)  == p >= CHAR_BUFFER_SIZE
FullEarly(p) == p + 2 >= CHAR_BUFFER_SIZE

(* No space for a character and the terminator. *)
Full(p) == p + 1 >= CHAR_BUFFER_SIZE

(* Any other character is stored, at the start again when there is no      *)
(* space: what was read of the line is dumped and its rest kept.           *)
Store(c) ==
  LET at == IF Full(pos) THEN 0 ELSE pos IN
  /\ buffer' = [buffer EXCEPT ![at] = c]
  /\ pos' = at + 1
  /\ ready' = FALSE
  /\ line' = Append(line, c)
  /\ last' = << >>

ReadOrDumpBuffer(c) ==
  \/ c \in Newline /\ (SkipNewline \/ EndLine)
  \/ c \notin Newline /\ Store(c)

NextBuffer ==
  \E c \in Char \cup Newline :
    /\ c \in Newline \/ Len(line) < MaxLine
    /\ ReadOrDumpBuffer(c)

SpecBuffer == InitBuffer /\ [][NextBuffer]_bufferVars

(***************************************************************************)
(* What strlen and fputs see: the characters before the first NUL.         *)
(***************************************************************************)
Strlen(b) == CHOOSE n \in Index : b[n] = NUL /\ \A i \in 0 .. n - 1 : b[i] # NUL
Text(b)   == [i \in 1 .. Strlen(b) |-> b[i - 1]]

-----------------------------------------------------------------------------
(* Every variable has its type; pos leaves room for the terminator. *)
BufferTypeOK ==
  /\ buffer \in [Index -> Char]
  /\ pos \in Index
  /\ ready \in BOOLEAN
  /\ line \in Seq(Char) /\ Len(line) <= MaxLine
  /\ last \in Seq(Char)

(***************************************************************************)
(* The buffer always holds the end of the line, without a gap, and the     *)
(* whole line unless it is too long for it.  The first position is the     *)
(* only one that a dump moves.                                             *)
(***************************************************************************)
BufferIsTail ==
  /\ pos <= Len(line)
  /\ pos = 0 <=> line = << >>
  /\ Len(line) < CHAR_BUFFER_SIZE => pos = Len(line)
  /\ \A i \in 1 .. pos : buffer[i - 1] = line[Len(line) - pos + i]

(***************************************************************************)
(* A line that fits, and holds no NUL, is read back as it was given: no    *)
(* newline, no remains of an earlier longer line.                          *)
(***************************************************************************)
Fits(l) == Len(l) < CHAR_BUFFER_SIZE /\ \A i \in 1 .. Len(l) : l[i] # NUL

LineReadBack == ready /\ Fits(last) => Text(buffer) = last

(***************************************************************************)
(* What the comment of readOrDumpBuffer says of every line (main.c:154,    *)
(* "true if complete line available"); NULs apart, to give it its due.     *)
(***************************************************************************)
CompleteLine ==
  ready /\ (\A i \in 1 .. Len(last) : last[i] # NUL) => Text(buffer) = last
=============================================================================
