----------------------------- MODULE AuthServer -----------------------------
(***************************************************************************)
(* door_test.py, the program of the authorisation server, kept running by  *)
(* door_test.sh: it reads lines from the panel, compares tags with         *)
(* rfid.inc, writes 'D' to open, and opens on request when it finds the    *)
(* file forceopen.now.  getrfids.php rewrites rfid.inc meanwhile.          *)
(*                                                                         *)
(* What other processes share (the two files, the port) is read or written *)
(* once per action; the program may be killed between any two.  Time is    *)
(* counted in ticks.                                                       *)
(***************************************************************************)
EXTENDS Naturals, Sequences, FiniteSets

CONSTANTS
  Tag,            \* numbers a card can have
  NoFile,         \* rfid.inc before the first update
  Window,         \* the 15 seconds of a repeated read
  MinTags,        \* the fewest tags getrfids.php accepts (10 in the code)
  QueueDepth      \* bound: lines waiting in the port

(* Numbers are never one of the strings of the program. *)
Empty  == "empty"             \* the number of a line "TAG|"
Other  == {"SENSOR", "BARE", "NOISE"}
Number == Tag \cup {Empty}

ASSUME AuthAssumption ==
  /\ Tag \cap (Other \cup {Empty, "q"}) = {}
  /\ \A l \in SUBSET Tag : NoFile # l
  /\ Window \in Nat \ {0}
  /\ MinTags \in Nat
  /\ QueueDepth \in Nat \ {0}

(***************************************************************************)
(* A line of the port: its number if it is a TAG line, else what it is: a  *)
(* SENSOR line, a TAG line broken off before its '|', or any other text    *)
(* (BADREAD, remains of a report).  `whole` when its end has come; `late`, *)
(* history: its first byte came while a read was being logged.             *)
(***************************************************************************)
Line == [text : Number \cup Other, whole : BOOLEAN, late : BOOLEAN]

VARIABLES
  pc,         \* place in the program, "down" when it is not running
  num, valid, \* of the read in hand, reset once used
  lastnum,    \* number of the last read, "q" before the first
  age,        \* ticks since lasttime, no more than Window
  port,       \* "absent", "present", or "open" by the program
  inq,        \* lines waiting in the port, the last perhaps not whole
  force,      \* the file forceopen.now exists
  list,       \* the lines of rfid.inc, or NoFile
  updating,   \* getrfids.php is writing rfid.inc
  listed,     \* the list rfid.inc holds or is being given
  kept,       \* history, while updating: tags of it in the old rfid.inc
  approved,   \* history: tags on some list since the line in hand was read
  fresh,      \* history: the line in hand was not late
  sent,       \* why the last step wrote 'D': "tag", "force"; or "no"
  held,       \* history: number last granted, no other read since, or "q"
  heldAge,    \* history: ticks since that grant, no more than Window
  answered    \* history: 'D' for the present forceopen.now: "no", "yes", or
              \* "before", by a run of the program that has ended

readVars  == <<num, valid, approved, fresh>>
memVars   == <<lastnum, age, held, heldAge>>
forceVars == <<force, answered>>
listVars  == <<list, updating, listed, kept>>
portVars  == <<port, inq>>
vars == <<pc, readVars, memVars, portVars, forceVars, listVars, sent>>

Labels == {"down", "poll", "look", "force", "sleep", "logforce", "check",
           "decide", "log", "drain", "sensor"}

NoRead == num = Empty /\ valid = FALSE /\ approved = {} /\ fresh = TRUE
Forget == num' = Empty /\ valid' = FALSE /\ approved' = {} /\ fresh' = TRUE

(* The lists the update accepts. *)
Lists == {l \in SUBSET Tag : Cardinality(l) >= MinTags}

Init ==
  /\ pc = "down"
  /\ NoRead
  /\ lastnum = "q" /\ age = Window
  /\ held = "q" /\ heldAge = Window
  /\ port = "present"
  /\ inq = << >>
  /\ force = FALSE /\ answered = "no"
  /\ list = NoFile /\ updating = FALSE /\ listed = {} /\ kept = {}
  /\ sent = "no"

-----------------------------------------------------------------------------
(***************************************************************************)
(* door_test.sh starts the program, which opens the port.  What the panel  *)
(* holds for the host is flushed with the port or arrives after it.  A     *)
(* start that finds no port exits at once.                                 *)
(***************************************************************************)
Start ==
  /\ pc = "down" /\ port = "present"
  /\ pc' = "poll"
  /\ port' = "open"
  /\ inq' \in {inq, << >>}
  /\ lastnum' = "q" /\ age' = Window
  /\ held' = "q" /\ heldAge' = Window
  /\ sent' = "no"
  /\ UNCHANGED <<readVars, forceVars, listVars>>

(* The program ends: the port is closed and its lines are gone. *)
End ==
  /\ pc # "down"
  /\ pc' = "down"
  /\ Forget
  /\ port' = IF port = "open" THEN "present" ELSE port
  /\ inq' = << >>
  /\ answered' = IF answered = "yes" THEN "before" ELSE answered
  /\ sent' = "no"
  /\ UNCHANGED <<memVars, force, listVars>>

(* It is killed, or an operation it does not guard raises. *)
Kill == End

(* Mutant: the "not" of the condition is forgotten. *)
NothingWaitingNot == inq # << >>

NothingWaiting == inq = << >>

(* The file is looked for each time the port was found empty. *)
Idle ==
  /\ pc = "poll" /\ port = "open"
  /\ NothingWaiting
  /\ pc' = "look"
  /\ sent' = "no"
  /\ UNCHANGED <<readVars, memVars, portVars, forceVars, listVars>>

(* Mutant: the request is removed when it is seen. *)
SeeForceRemove ==
  /\ pc = "look"
  /\ pc' = IF force THEN "force" ELSE "poll"
  /\ force' = FALSE
  /\ sent' = "no"
  /\ UNCHANGED <<readVars, memVars, portVars, answered, listVars>>

(* Mutant: the program does not look whether the file is there. *)
SeeForceAlways ==
  /\ pc = "look"
  /\ pc' = "force"
  /\ sent' = "no"
  /\ UNCHANGED <<readVars, memVars, portVars, forceVars, listVars>>

SeeForce ==
  /\ pc = "look"
  /\ pc' = IF force THEN "force" ELSE "poll"
  /\ sent' = "no"
  /\ UNCHANGED <<readVars, memVars, portVars, forceVars, listVars>>

WriteForce ==
  /\ pc = "force" /\ port = "open"
  /\ pc' = "sleep"
  /\ sent' = "force"
  /\ answered' = "yes"
  /\ UNCHANGED <<readVars, memVars, portVars, force, listVars>>

(* Mutant: the file is left there. *)
RemoveForceForgotten ==
  /\ pc = "sleep"
  /\ pc' = "logforce"
  /\ sent' = "no"
  /\ UNCHANGED <<readVars, memVars, portVars, forceVars, listVars>>

(* The sleep of a second ends and the file is removed. *)
RemoveForce ==
  /\ pc = "sleep"
  /\ pc' = "logforce"
  /\ force' = FALSE
  /\ answered' = "no"
  /\ sent' = "no"
  /\ UNCHANGED <<readVars, memVars, portVars, listVars>>

(* The report to the server, whether it arrives or times out. *)
LogForce ==
  /\ pc = "logforce"
  /\ pc' = "poll"
  /\ sent' = "no"
  /\ UNCHANGED <<readVars, memVars, portVars, forceVars, listVars>>

(***************************************************************************)
(* readline waits for the end of the line.  A TAG line is taken further, a *)
(* SENSOR line is reported, any other is printed; of a TAG line without a  *)
(* '|' the number is missing, which ends the program (BareTag).            *)
(***************************************************************************)
ReadLine ==
  /\ pc = "poll" /\ port = "open"
  /\ inq # << >> /\ Head(inq).whole
  /\ Head(inq).text # "BARE"
  /\ inq' = Tail(inq)
  /\ \/ /\ Head(inq).text \in Number
        /\ pc' = "check"
        /\ num' = Head(inq).text
        /\ fresh' = ~Head(inq).late
        /\ approved' = listed
        /\ UNCHANGED valid
     \/ /\ Head(inq).text \notin Number
        /\ pc' = IF Head(inq).text = "SENSOR" THEN "sensor" ELSE "poll"
        /\ UNCHANGED readVars
  /\ sent' = "no"
  /\ UNCHANGED <<memVars, port, forceVars, listVars>>

BareTag ==
  /\ pc = "poll" /\ port = "open"
  /\ inq # << >> /\ Head(inq).whole
  /\ Head(inq).text = "BARE"
  /\ End

LogSensor ==
  /\ pc = "sensor"
  /\ pc' = "poll"
  /\ sent' = "no"
  /\ UNCHANGED <<readVars, memVars, portVars, forceVars, listVars>>

(* The lines of a text without any is one empty line. *)
Lines(l) == IF l = {} THEN {Empty} ELSE l

(* parse_number.  Without rfid.inc it raises, and the program ends. *)
Check ==
  /\ pc = "check"
  /\ list # NoFile
  /\ pc' = "decide"
  /\ valid' = (num \in Lines(list))
  /\ sent' = "no"
  /\ UNCHANGED <<num, approved, fresh, memVars, portVars, forceVars, listVars>>

CheckFails == pc = "check" /\ list = NoFile /\ End

Repeated == num = lastnum /\ age < Window

(* Mutant: the time is not taken again, so that it stays that of the first *)
(* read of the program.                                                    *)
RememberNotTime == lastnum' = num /\ age' = age

(* What every read leaves behind, granted or not. *)
Remember == lastnum' = num /\ age' = 0

Grant ==
  /\ pc = "decide" /\ port = "open"
  /\ valid /\ ~Repeated
  /\ sent' = "tag"
  /\ held' = num /\ heldAge' = 0
  /\ Remember /\ Forget
  /\ pc' = "log"
  /\ UNCHANGED <<portVars, forceVars, listVars>>

(* DENIED, or "Too many reads in a row". *)
Refuse ==
  /\ pc = "decide"
  /\ ~valid \/ Repeated
  /\ sent' = "no"
  /\ held' = IF held = num THEN held ELSE "q"
  /\ Remember /\ Forget
  /\ pc' = "log"
  /\ UNCHANGED <<heldAge, portVars, forceVars, listVars>>

Log ==
  /\ pc = "log"
  /\ pc' = "drain"
  /\ sent' = "no"
  /\ UNCHANGED <<readVars, memVars, portVars, forceVars, listVars>>

(* "Ignored queued" *)
DrainLine ==
  /\ pc = "drain" /\ port = "open"
  /\ inq # << >> /\ Head(inq).whole
  /\ inq' = Tail(inq)
  /\ sent' = "no"
  /\ UNCHANGED <<pc, readVars, memVars, port, forceVars, listVars>>

(* Mutant: one line at most is ignored. *)
DrainDoneOnce ==
  /\ pc = "drain" /\ port = "open"
  /\ pc' = "poll"
  /\ inq' = IF inq = << >> THEN inq ELSE Tail(inq)
  /\ sent' = "no"
  /\ UNCHANGED <<readVars, memVars, port, forceVars, listVars>>

DrainDone ==
  /\ pc = "drain" /\ port = "open"
  /\ inq = << >>
  /\ pc' = "poll"
  /\ sent' = "no"
  /\ UNCHANGED <<readVars, memVars, portVars, forceVars, listVars>>

(* An operation on a port that is gone raises. *)
PortFails ==
  /\ port # "open"
  /\ \/ pc \in {"poll", "force", "drain"}
     \/ pc = "decide" /\ valid /\ ~Repeated
  /\ End

Program ==
  \/ Start \/ Idle \/ SeeForce \/ WriteForce \/ RemoveForce \/ LogForce
  \/ ReadLine \/ BareTag \/ LogSensor
  \/ Check \/ CheckFails \/ Grant \/ Refuse \/ Log \/ DrainLine \/ DrainDone
  \/ PortFails

-----------------------------------------------------------------------------
(* getrfids.php fetches a list and truncates rfid.inc; the rest of the     *)
(* write follows in pieces, and may break off.                             *)

(* Mutant: the new list is written over the old one. *)
TruncateNot ==
  /\ ~updating
  /\ updating' = TRUE
  /\ listed' \in Lists
  /\ list' = IF list = NoFile THEN {} ELSE list
  /\ kept' = IF list = NoFile THEN {} ELSE list \cap listed'
  /\ approved' = IF pc \in {"check", "decide"} THEN approved \cup listed'
                                               ELSE approved
  /\ sent' = "no"
  /\ UNCHANGED <<pc, num, valid, fresh, memVars, portVars, forceVars>>

Truncate ==
  /\ ~updating
  /\ updating' = TRUE
  /\ listed' \in Lists
  /\ list' = {}
  /\ kept' = IF list = NoFile THEN {} ELSE list \cap listed'
  /\ approved' = IF pc \in {"check", "decide"} THEN approved \cup listed'
                                               ELSE approved
  /\ sent' = "no"
  /\ UNCHANGED <<pc, num, valid, fresh, memVars, portVars, forceVars>>

WriteList ==
  /\ updating
  /\ list' \in {l \in SUBSET listed : list \subseteq l}
  /\ updating' \in {TRUE, FALSE}
  /\ list' # list \/ ~updating'
  /\ kept' = IF updating' THEN kept ELSE {}
  /\ sent' = "no"
  /\ UNCHANGED <<pc, readVars, memVars, portVars, forceVars, listed>>

-----------------------------------------------------------------------------
(* The world: the panel and its cable, who asks to force the door, time. *)

(* A line, or the beginning of one, comes from the panel.  While the       *)
(* program does not have the port open the panel holds one at most.        *)
Arrive ==
  /\ port # "absent"
  /\ Len(inq) < IF port = "open" THEN QueueDepth ELSE 1
  /\ \A i \in 1 .. Len(inq) : inq[i].whole
  /\ \E text \in Number \cup Other, whole \in BOOLEAN :
       inq' = Append(inq, [text |-> text, whole |-> whole,
                           late |-> pc \in {"log", "drain"}])
  /\ sent' = "no"
  /\ UNCHANGED <<pc, readVars, memVars, port, forceVars, listVars>>

(* The line that had begun ends. *)
Complete ==
  /\ port # "absent"
  /\ inq # << >> /\ ~inq[Len(inq)].whole
  /\ inq' = [inq EXCEPT ![Len(inq)].whole = TRUE]
  /\ sent' = "no"
  /\ UNCHANGED <<pc, readVars, memVars, port, forceVars, listVars>>

LinkLost ==
  /\ port # "absent"
  /\ port' = "absent"
  /\ inq' = << >>
  /\ sent' = "no"
  /\ UNCHANGED <<pc, readVars, memVars, forceVars, listVars>>

LinkBack ==
  /\ port = "absent"
  /\ port' = "present"
  /\ sent' = "no"
  /\ UNCHANGED <<pc, readVars, memVars, inq, forceVars, listVars>>

RequestForce ==
  /\ ~force
  /\ force' = TRUE
  /\ sent' = "no"
  /\ UNCHANGED <<pc, readVars, memVars, portVars, answered, listVars>>

Later(t) == IF t < Window THEN t + 1 ELSE t

Tick ==
  /\ age < Window \/ heldAge < Window
  /\ age' = Later(age) /\ heldAge' = Later(heldAge)
  /\ sent' = "no"
  /\ UNCHANGED <<pc, readVars, lastnum, held, portVars, forceVars, listVars>>

World ==
  \/ Truncate \/ WriteList
  \/ Arrive \/ Complete \/ LinkLost \/ LinkBack \/ RequestForce \/ Tick

Next == Program \/ Kill \/ World

Spec == Init /\ [][Next]_vars

(***************************************************************************)
(* The program runs when it can, and the wrapper starts it again.  Nothing *)
(* is assumed of its ends, the panel, the update or the requests.          *)
(***************************************************************************)
FairSpec == Spec /\ WF_vars(Program)

-----------------------------------------------------------------------------
(* The types of the variables; rfid.inc has only tags of the list it is    *)
(* being given.                                                            *)
ProgramType == pc \in Labels /\ sent \in {"no", "tag", "force"}
ReadType == /\ num \in Number /\ valid \in BOOLEAN
            /\ approved \subseteq Tag /\ fresh \in BOOLEAN
MemType  == /\ lastnum \in Number \cup {"q"} /\ held \in Number \cup {"q"}
            /\ age \in 0 .. Window /\ heldAge \in 0 .. Window
PortType == /\ port \in {"absent", "present", "open"}
            /\ inq \in Seq(Line) /\ Len(inq) <= QueueDepth
FileType == /\ force \in BOOLEAN /\ answered \in {"no", "yes", "before"}
            /\ updating \in BOOLEAN /\ listed \subseteq Tag /\ kept \subseteq Tag
            /\ list = NoFile \/ list \subseteq listed

(* Every variable has its type. *)
TypeOK == ProgramType /\ ReadType /\ MemType /\ PortType /\ FileType

(***************************************************************************)
(* The door is opened for a card only if it was on a list that was current *)
(* between the reading of its line and the 'D', although rfid.inc may be   *)
(* rewritten at any step between.  (A damaged line with no number at all   *)
(* matches an rfid.inc with no line: the empty number is no card.)         *)
(***************************************************************************)
GrantListed == [][sent' = "tag" => num \in approved \cup {Empty}]_vars

(***************************************************************************)
(* One number is not granted twice within the Window without another       *)
(* number read, or a restart, between: however often it is read meanwhile  *)
(* and whatever becomes of those reads.                                    *)
(***************************************************************************)
NoRepeat == [][sent' = "tag" => held # num \/ heldAge = Window]_vars

(***************************************************************************)
(* A card read while the program is busy with another is never granted,    *)
(* even if its line is only half there when the queue is emptied.          *)
(***************************************************************************)
QueuedIgnored == [][sent' = "tag" => fresh]_vars

(***************************************************************************)
(* forceopen.now is not removed unless a 'D' was written for it, whatever  *)
(* crashes and lost connections come between: a request is not lost.       *)
(***************************************************************************)
ForceAnswered == [][force /\ ~force' => answered # "no"]_vars

(***************************************************************************)
(* The door is opened again for the same forceopen.now only by a new run   *)
(* of the program.                                                         *)
(***************************************************************************)
ForceOnce == [][sent' = "force" => answered # "yes"]_vars

(***************************************************************************)
(* Together with the update, its wrapper and its crashes, the program      *)
(* keeps AccessPolicy: what it writes to the door is what a server would   *)
(* that read its list and its files at one moment.                         *)
(***************************************************************************)
Visitor == IF pc \in {"check", "decide"} THEN num ELSE "q"
ForceState ==
  CASE ~force -> "none"
    [] force /\ answered = "no" -> "standing"
    [] force /\ answered = "yes" -> "served"
    [] OTHER -> "left"

Policy == INSTANCE AccessPolicy WITH
            visitor  <- Visitor,
            current  <- listed,
            eligible <- approved,
            since    <- heldAge,
            request  <- ForceState,
            opened   <- sent

ImplementsPolicy == Policy!Spec

(***************************************************************************)
(* If the program stays up and the panel becomes quiet, a request is       *)
(* answered: no path through the program keeps from looking for the file.  *)
(***************************************************************************)
Quiet == pc # "down" /\ port = "open" /\ inq = << >>
ForceServed == <>[]Quiet => (force ~> answered # "no")

(***************************************************************************)
(* "Once it reads an rfid, it compares it against a local database of      *)
(* valid rfids, if it matches, it sends a command" (authCode/README.md:13): *)
(* a card in the old file and on the new list is not denied.               *)
(***************************************************************************)
ListedNotDenied ==
  [][pc = "check" /\ pc' = "decide" /\ num \in kept => valid']_vars
=============================================================================
