---------------------------- MODULE AccessPolicy ----------------------------
(***************************************************************************)
(* What the authorisation server promises the members, without its port,   *)
(* its files and the steps of its program:                                 *)
(*   - the door opens for a card only while a visit with it is in hand,    *)
(*     once for each visit, and only if the card was on a list that was    *)
(*     current during the visit;                                           *)
(*   - not again for the number let in last, within Window of it, unless   *)
(*     another number came between;                                        *)
(*   - it opens on request only while a request stands, once in each run   *)
(*     of the program, and a request is withdrawn only after that.         *)
(* A visitor may always be turned away, listed or not.                     *)
(***************************************************************************)
EXTENDS Naturals

CONSTANTS
  Tag,       \* the numbers of cards
  Number,    \* what a visit may give as its number, a damaged one included
  Lists,     \* the lists of cards that may become current
  Window     \* how long a number is not let in again

VARIABLES
  visitor,   \* number of the visit in hand, or Nobody
  current,   \* the list in force
  eligible,  \* cards on some list in force during the visit
  held,      \* number let in last, no other came since; or Nobody
  since,     \* ticks since it was let in, no more than Window
  request,   \* "none", "standing", "served" by this run, "left" by another
  opened     \* what the last step opened the door for: "tag", "force", "no"

vars == <<visitor, current, eligible, held, since, request, opened>>

Nobody == "q"

Init ==
  /\ visitor = Nobody /\ held = Nobody /\ since = Window
  /\ current = {} /\ eligible = {}
  /\ request = "none" /\ opened = "no"

Visit ==
  /\ visitor = Nobody
  /\ visitor' \in Number
  /\ eligible' = current
  /\ opened' = "no"
  /\ UNCHANGED <<current, held, since, request>>

LetIn ==
  /\ visitor # Nobody
  /\ visitor \in Tag => visitor \in eligible
  /\ held # visitor \/ since = Window
  /\ opened' = "tag"
  /\ held' = visitor /\ since' = 0
  /\ visitor' = Nobody /\ eligible' = {}
  /\ UNCHANGED <<current, request>>

TurnAway ==
  /\ visitor # Nobody
  /\ opened' = "no"
  /\ held' = IF held = visitor THEN held ELSE Nobody
  /\ visitor' = Nobody /\ eligible' = {}
  /\ UNCHANGED <<current, since, request>>

(* During a visit the cards of the new list are as good as those before. *)
NewList ==
  /\ current' \in Lists
  /\ eligible' = IF visitor = Nobody THEN eligible ELSE eligible \cup current'
  /\ opened' = "no"
  /\ UNCHANGED <<visitor, held, since, request>>

Ask ==
  /\ request = "none" /\ request' = "standing"
  /\ opened' = "no"
  /\ UNCHANGED <<visitor, current, eligible, held, since>>

OpenForce ==
  /\ visitor = Nobody
  /\ request \in {"standing", "left"} /\ request' = "served"
  /\ opened' = "force"
  /\ UNCHANGED <<visitor, current, eligible, held, since>>

Withdraw ==
  /\ request = "served" /\ request' = "none"
  /\ opened' = "no"
  /\ UNCHANGED <<visitor, current, eligible, held, since>>

(* A crash ends the visit.  The next run does not know what was served. *)
Crash ==
  /\ visitor' = Nobody /\ eligible' = {}
  /\ request' = IF request = "served" THEN "left" ELSE request
  /\ opened' = "no"
  /\ UNCHANGED <<current, held, since>>

Restart ==
  /\ visitor = Nobody
  /\ held' = Nobody /\ since' = Window
  /\ opened' = "no"
  /\ UNCHANGED <<visitor, current, eligible, request>>

Tick ==
  /\ since < Window /\ since' = since + 1
  /\ opened' = "no"
  /\ UNCHANGED <<visitor, current, eligible, held, request>>

(* Anything that opens no door. *)
Rest ==
  /\ opened' = "no"
  /\ UNCHANGED <<visitor, current, eligible, held, since, request>>

Next ==
  \/ Visit \/ LetIn \/ TurnAway \/ NewList
  \/ Ask \/ OpenForce \/ Withdraw
  \/ Crash \/ Restart \/ Tick \/ Rest

Spec == Init /\ [][Next]_vars
=============================================================================
