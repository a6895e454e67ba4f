------------------------------ MODULE DoorLock ------------------------------
(***************************************************************************)
(* What the door controller promises the host and the people at the door,  *)
(* without its loop, its interrupt or its two-byte timer:                  *)
(*   - the bolt is opened only for a grant command taken from the queue,   *)
(*     one opening for each, in the order sent, or else for a stray one:   *)
(*     at most one for a loss of the link while a command was taken;       *)
(*   - an opened bolt is closed again within OpenLimit interrupts of the   *)
(*     last grant, or, when a restart made the controller forget it,       *)
(*     within CloseLimit of the restart;                                   *)
(*   - closing the bolt is always allowed.                                 *)
(***************************************************************************)
EXTENDS Integers, Sequences

CONSTANTS
  Command,      \* the bytes the host sends
  Grant,        \* the one that opens
  OpenLimit,    \* bound on `age` while the controller holds the bolt open
  CloseLimit    \* bound on `age` of a bolt it found or left open

VARIABLES
  mode,         \* "resting", "granted" (about to open) or "holding"
  bolt,         \* "locked" or "unlocked"
  age,          \* interrupts since the last opening, closing or restart
  queue,        \* commands sent and not taken yet
  stray         \* the link was lost while a command was being taken

vars == <<mode, bolt, age, queue, stray>>

Init ==
  /\ mode = "resting"
  /\ bolt \in {"locked", "unlocked"}
  /\ age = 0
  /\ queue = << >>
  /\ stray = FALSE

Send(c) ==
  /\ queue' = Append(queue, c)
  /\ UNCHANGED <<mode, bolt, age, stray>>

Lose ==
  /\ queue' = << >>
  /\ stray' \in {stray, TRUE}
  /\ UNCHANGED <<mode, bolt, age>>

(* Commands are taken one at a time; one that grants is acted upon next. *)
Obey(c) ==
  /\ mode # "granted"
  /\ mode' = IF c = Grant THEN "granted" ELSE mode
  /\ stray' = FALSE
  /\ UNCHANGED <<bolt, age>>

Take(c) ==
  /\ queue # << >>
  /\ Head(queue) = c
  /\ queue' = Tail(queue)
  /\ Obey(c)

(* What is read where the queue was may be any command. *)
Misread(c) ==
  /\ stray
  /\ UNCHANGED queue
  /\ Obey(c)

(* Nothing was taken. *)
Pass ==
  /\ stray' = FALSE
  /\ UNCHANGED <<mode, bolt, age, queue>>

Open ==
  /\ mode = "granted"
  /\ mode' = "holding"
  /\ bolt' = "unlocked"
  /\ age' = 0
  /\ UNCHANGED <<queue, stray>>

Close ==
  /\ mode # "granted"
  /\ mode' = "resting"
  /\ bolt' = "locked"
  /\ UNCHANGED <<age, queue, stray>>

Settle ==
  /\ bolt = "locked"
  /\ age' = 0
  /\ UNCHANGED <<mode, bolt, queue, stray>>

Limit == IF mode = "holding" THEN OpenLimit ELSE CloseLimit

Tick ==
  /\ bolt = "unlocked" => age + 1 < Limit
  /\ age' = age + 1
  /\ UNCHANGED <<mode, bolt, queue, stray>>

Restart ==
  /\ mode' = "resting"
  /\ age' = 0
  /\ queue' = << >>
  /\ stray' = FALSE
  /\ UNCHANGED bolt

Next ==
  \/ \E c \in Command : Send(c) \/ Take(c) \/ Misread(c)
  \/ Pass \/ Lose \/ Open \/ Close \/ Settle \/ Tick \/ Restart

Spec == Init /\ [][Next]_vars
=============================================================================
