-------------------------- MODULE AuthServerProofs --------------------------
(***************************************************************************)
(* The safety properties of AuthServer, for every set of tags, Window and  *)
(* queue.  IInv is inductive; each action property follows from it and     *)
(* from the one action that can do what the property is about.             *)
(***************************************************************************)
EXTENDS AuthServer, TLAPS

(* What is known of the read in hand, of the lines that wait, of the last  *)
(* grant and of the request.                                               *)
ReadInv ==
  /\ pc = "check" => listed \subseteq approved
  /\ pc \in {"check", "decide"} => fresh
  /\ pc = "decide" /\ valid => num \in approved \cup {Empty}

QueueInv ==
  pc \notin {"log", "drain"} => \A i \in 1 .. Len(inq) : ~inq[i].late

HeldInv == held # "q" => held = lastnum /\ age <= heldAge

ForceInv ==
  /\ answered = "yes" <=> pc = "sleep"
  /\ answered # "no" \/ pc = "force" => force

IInv == TypeOK /\ ReadInv /\ QueueInv /\ HeldInv /\ ForceInv

(* The constants that are numbers. *)
LEMMA ConstantTypes == Window \in Nat \ {0} /\ QueueDepth \in Nat \ {0}
BY AuthAssumption DEF AuthAssumption

-----------------------------------------------------------------------------
(* The queue of lines keeps its type, and its lines their histories. *)
NoneLate(q) == \A i \in 1 .. Len(q) : ~q[i].late

LEMMA TailLines ==
  ASSUME NEW q \in Seq(Line), q # << >>
  PROVE  /\ Tail(q) \in Seq(Line)
         /\ Len(Tail(q)) = Len(q) - 1
         /\ Head(q) \in Line
         /\ NoneLate(q) => NoneLate(Tail(q)) /\ ~Head(q).late
<1>1. /\ Tail(q) \in Seq(Line) /\ Len(Tail(q)) = Len(q) - 1
      /\ Head(q) = q[1] /\ q[1] \in Line /\ Len(q) >= 1
  OBVIOUS
<1>2. \A i \in 1 .. Len(Tail(q)) :
        Tail(q)[i] = q[i + 1] /\ i + 1 \in 1 .. Len(q)
  BY <1>1
<1>3. QED BY <1>1, <1>2 DEF NoneLate

LEMMA NoLines == << >> \in Seq(Line) /\ Len(<< >>) = 0 /\ NoneLate(<< >>)
BY DEF NoneLate

LEMMA AppendLine ==
  ASSUME NEW q \in Seq(Line), NEW l \in Line
  PROVE  /\ Append(q, l) \in Seq(Line)
         /\ Len(Append(q, l)) = Len(q) + 1
         /\ NoneLate(q) /\ ~l.late => NoneLate(Append(q, l))
BY DEF NoneLate

LEMMA CompleteLine ==
  ASSUME NEW q \in Seq(Line), q # << >>,
         NEW r, r = [q EXCEPT ![Len(q)].whole = TRUE]
  PROVE  /\ r \in Seq(Line)
         /\ Len(r) = Len(q)
         /\ NoneLate(q) => NoneLate(r)
<1>1. q[Len(q)] \in Line /\ Len(q) \in 1 .. Len(q)
  OBVIOUS
<1>2. [q[Len(q)] EXCEPT !.whole = TRUE] \in Line
  BY <1>1 DEF Line
<1>3. r = [q EXCEPT ![Len(q)] = [q[Len(q)] EXCEPT !.whole = TRUE]]
  OBVIOUS
<1>4. r \in Seq(Line) /\ Len(r) = Len(q)
  BY <1>2, <1>3
<1>5. \A i \in 1 .. Len(q) : r[i].late = q[i].late
  BY <1>1, <1>3 DEF Line
<1>6. QED BY <1>4, <1>5 DEF NoneLate

-----------------------------------------------------------------------------
(* Type correctness, one step per action. *)
LEMMA TypeInit == Init => TypeOK
<1> SUFFICES ASSUME Init PROVE TypeOK
  OBVIOUS
<1>1. ProgramType /\ FileType
  BY DEF Init, ProgramType, FileType, Labels
<1>2. ReadType
  BY DEF Init, NoRead, ReadType, Number
<1>3. MemType
  BY ConstantTypes DEF Init, MemType
<1>4. PortType
  BY ConstantTypes DEF Init, PortType
<1>5. QED BY <1>1, <1>2, <1>3, <1>4 DEF TypeOK

(* Every step is one of these actions; End stands for all the ways in      *)
(* which the program ends.                                                 *)
LEMMA Actions ==
  [Next]_vars =>
    \/ Start \/ End \/ Idle \/ SeeForce \/ WriteForce \/ RemoveForce \/ LogForce
    \/ ReadLine \/ LogSensor \/ Check \/ Grant \/ Refuse \/ Log
    \/ DrainLine \/ DrainDone
    \/ Truncate \/ WriteList \/ Arrive \/ Complete \/ LinkLost \/ LinkBack
    \/ RequestForce \/ Tick \/ UNCHANGED vars
BY DEF Next, Program, World, Kill, BareTag, CheckFails, PortFails

LEMMA ProgramStep == TypeOK /\ [Next]_vars => ProgramType'
<1> SUFFICES ASSUME TypeOK, [Next]_vars PROVE ProgramType'
  OBVIOUS
<1> USE DEF TypeOK, ProgramType
<1>1. QED
  BY Actions DEF Labels, Start, End, Idle, SeeForce, WriteForce, RemoveForce,
       LogForce, ReadLine, LogSensor, Check, Grant, Refuse, Log, DrainLine,
       DrainDone, Truncate, WriteList, Arrive, Complete, LinkLost, LinkBack,
       RequestForce, Tick, vars

LEMMA ReadStep == TypeOK /\ [Next]_vars => ReadType'
<1> SUFFICES ASSUME TypeOK, [Next]_vars PROVE ReadType'
  OBVIOUS
<1> USE DEF TypeOK, ReadType
<1>1. CASE End
  BY <1>1 DEF End, Forget, Number, readVars
<1>2. CASE ReadLine
  <2>1. CASE Head(inq).text \in Number
    BY <1>2, <2>1 DEF ReadLine, FileType
  <2>2. CASE Head(inq).text \notin Number
    BY <1>2, <2>2 DEF ReadLine, readVars
  <2>3. QED BY <2>1, <2>2
<1>3. CASE Check
  BY <1>3 DEF Check, Number, readVars
<1>4. CASE Grant
  BY <1>4 DEF Grant, Remember, Forget, Number, readVars
<1>5. CASE Refuse
  BY <1>5 DEF Refuse, Remember, Forget, Number, readVars
<1>6. CASE Truncate
  BY <1>6 DEF Truncate, Lists, Number, readVars
<1>7. CASE UNCHANGED <<readVars>>
  BY <1>7 DEF readVars
<1>8. QED
  BY Actions, <1>1, <1>2, <1>3, <1>4, <1>5, <1>6, <1>7 DEF Start, Idle,
       SeeForce, WriteForce, RemoveForce, LogForce, LogSensor, Log, DrainLine,
       DrainDone, WriteList, Arrive, Complete, LinkLost, LinkBack,
       RequestForce, Tick, vars

LEMMA MemStep == TypeOK /\ [Next]_vars => MemType'
<1> SUFFICES ASSUME TypeOK, [Next]_vars PROVE MemType'
  OBVIOUS
<1> USE DEF TypeOK, MemType
<1>1. CASE Start
  BY <1>1, ConstantTypes DEF Start, ReadType, memVars
<1>2. CASE Grant
  BY <1>2, ConstantTypes DEF Grant, Remember, ReadType, memVars
<1>3. CASE Refuse
  BY <1>3, ConstantTypes DEF Refuse, Remember, ReadType, memVars
<1>4. CASE Tick
  BY <1>4, ConstantTypes DEF Tick, Later, ReadType, memVars
<1>5. CASE UNCHANGED <<memVars>>
  BY <1>5 DEF memVars
<1>6. QED
  BY Actions, <1>1, <1>2, <1>3, <1>4, <1>5 DEF End, Idle, SeeForce, WriteForce,
       RemoveForce, LogForce, ReadLine, LogSensor, Check, Log, DrainLine,
       DrainDone, Truncate, WriteList, Arrive, Complete, LinkLost, LinkBack,
       RequestForce, vars

LEMMA PortStep == TypeOK /\ [Next]_vars => PortType'
<1> SUFFICES ASSUME TypeOK, [Next]_vars PROVE PortType'
  OBVIOUS
<1> USE DEF TypeOK, PortType
<1>1. CASE Start
  <2>1. CASE inq' = inq
    BY <1>1, <2>1 DEF Start
  <2>2. CASE inq' = << >>
    BY <1>1, <2>2, ConstantTypes, NoLines DEF Start
  <2>3. QED BY <1>1, <2>1, <2>2 DEF Start
<1>2. CASE End
  BY <1>2, ConstantTypes DEF End, portVars
<1>3. CASE ReadLine
  <2>1. inq # << >> /\ inq' = Tail(inq) /\ port' = port
    BY <1>3 DEF ReadLine
  <2>2. Tail(inq) \in Seq(Line) /\ Len(Tail(inq)) = Len(inq) - 1
    BY <2>1, TailLines
  <2>3. Len(inq) - 1 <= QueueDepth
    BY ConstantTypes
  <2>4. QED BY <2>1, <2>2, <2>3
<1>4. CASE DrainLine
  <2>1. inq # << >> /\ inq' = Tail(inq) /\ port' = port
    BY <1>4 DEF DrainLine
  <2>2. Tail(inq) \in Seq(Line) /\ Len(Tail(inq)) = Len(inq) - 1
    BY <2>1, TailLines
  <2>3. Len(inq) - 1 <= QueueDepth
    BY ConstantTypes
  <2>4. QED BY <2>1, <2>2, <2>3
<1>5. CASE Arrive
  <2>1. PICK text \in Number \cup Other, whole \in BOOLEAN :
          inq' = Append(inq, [text |-> text, whole |-> whole,
                              late |-> pc \in {"log", "drain"}])
    BY <1>5 DEF Arrive
  <2>2. [text |-> text, whole |-> whole, late |-> pc \in {"log", "drain"}]
          \in Line
    BY DEF Line
  <2>3. Len(inq) + 1 <= QueueDepth /\ port' = port
    BY <1>5, ConstantTypes DEF Arrive
  <2>4. QED BY <2>1, <2>2, <2>3, AppendLine
<1>6. CASE Complete
  BY <1>6, CompleteLine DEF Complete
<1>7. CASE LinkLost
  BY <1>7, ConstantTypes, NoLines DEF LinkLost, portVars
<1>8. CASE LinkBack
  BY <1>8 DEF LinkBack, portVars
<1>9. CASE UNCHANGED <<portVars>>
  BY <1>9 DEF portVars
<1>10. QED
  BY Actions, <1>1, <1>2, <1>3, <1>4, <1>5, <1>6, <1>7, <1>8, <1>9 DEF
       Idle, SeeForce, WriteForce, RemoveForce, LogForce, LogSensor, Check, Grant,
       Refuse, Log, DrainDone, Truncate, WriteList, RequestForce, Tick, vars

LEMMA FileStep == TypeOK /\ [Next]_vars => FileType'
<1> SUFFICES ASSUME TypeOK, [Next]_vars PROVE FileType'
  OBVIOUS
<1> USE DEF TypeOK, FileType
<1>1. CASE End
  BY <1>1 DEF End, forceVars, listVars
<1>2. CASE WriteForce
  BY <1>2 DEF WriteForce, forceVars, listVars
<1>3. CASE RemoveForce
  BY <1>3 DEF RemoveForce, forceVars, listVars
<1>4. CASE Truncate
  BY <1>4 DEF Truncate, Lists, forceVars, listVars
<1>5. CASE WriteList
  BY <1>5 DEF WriteList, forceVars, listVars
<1>6. CASE RequestForce
  BY <1>6 DEF RequestForce, forceVars, listVars
<1>7. CASE UNCHANGED <<forceVars, listVars>>
  BY <1>7 DEF forceVars, listVars
<1>8. QED
  BY Actions, <1>1, <1>2, <1>3, <1>4, <1>5, <1>6, <1>7 DEF Start, Idle,
       SeeForce, LogForce, ReadLine, LogSensor, Check, Grant, Refuse, Log,
       DrainLine, DrainDone, Arrive, Complete, LinkLost, LinkBack, Tick, vars

LEMMA TypeStep == TypeOK /\ [Next]_vars => TypeOK'
BY ProgramStep, ReadStep, MemStep, PortStep, FileStep DEF TypeOK

(* Every variable keeps its type. *)
THEOREM TypeCorrect == Spec => []TypeOK
<1>1. QED BY TypeInit, TypeStep, PTL DEF Spec

-----------------------------------------------------------------------------
(* The inductive invariant, one lemma for each of its parts. *)
USE DEF QueueInv

LEMMA QueueStep == TypeOK /\ QueueInv /\ [Next]_vars => QueueInv'
<1> SUFFICES ASSUME TypeOK, QueueInv, [Next]_vars,
                    pc' \notin {"log", "drain"}
             PROVE  NoneLate(inq)'
  BY DEF NoneLate
<1>1. CASE inq' = << >>
  BY <1>1, NoLines
<1>2. CASE Start \/ ReadLine \/ Arrive \/ Complete
  <2>1. inq \in Seq(Line) /\ NoneLate(inq)
    BY <1>2 DEF Start, ReadLine, Arrive, Complete, TypeOK, PortType, NoneLate
  <2>2. CASE Start
    BY <1>1, <2>1, <2>2 DEF Start
  <2>3. CASE ReadLine
    BY <2>1, <2>3, TailLines DEF ReadLine
  <2>4. CASE Arrive
    <3>1. PICK text \in Number \cup Other, whole \in BOOLEAN :
            inq' = Append(inq, [text |-> text, whole |-> whole,
                                late |-> pc \in {"log", "drain"}])
      BY <2>4 DEF Arrive
    <3>2. pc \notin {"log", "drain"}
      BY <2>4 DEF Arrive
    <3> DEFINE l == [text |-> text, whole |-> whole,
                     late |-> pc \in {"log", "drain"}]
    <3>3. l \in Line
      BY DEF Line
    <3>4. ~l.late
      BY <3>2
    <3> HIDE DEF l
    <3>5. inq' = Append(inq, l)
      BY <3>1 DEF l
    <3>6. QED BY <2>1, <3>3, <3>4, <3>5, AppendLine
  <2>5. CASE Complete
    BY <2>1, <2>5, CompleteLine DEF Complete
  <2>6. QED BY <1>2, <2>2, <2>3, <2>4, <2>5
<1>3. CASE inq' = inq /\ pc \notin {"log", "drain"}
  BY <1>3 DEF NoneLate
<1>4. QED
  BY <1>1, <1>2, <1>3, Actions DEF TypeOK, ProgramType, Labels, Start, End,
       Idle, SeeForce, WriteForce, RemoveForce, LogForce, ReadLine, LogSensor,
       Check, Grant, Refuse, Log, DrainLine, DrainDone, Truncate, WriteList,
       Arrive, Complete, LinkLost, LinkBack, RequestForce, Tick, vars, portVars

LEMMA ReadInvStep ==
  TypeOK /\ ReadInv /\ QueueInv /\ [Next]_vars => ReadInv'
<1> SUFFICES ASSUME TypeOK, ReadInv, QueueInv, [Next]_vars PROVE ReadInv'
  OBVIOUS
<1> USE DEF ReadInv
<1>1. CASE pc' \notin {"check", "decide"}
  BY <1>1
<1>2. CASE ReadLine /\ pc' = "check"
  <2>1. inq \in Seq(Line) /\ NoneLate(inq) /\ inq # << >>
    BY <1>2 DEF ReadLine, TypeOK, PortType, NoneLate
  <2>2. ~Head(inq).late
    BY <2>1, TailLines
  <2>3. fresh' /\ approved' = listed /\ listed' = listed
    BY <1>2, <2>2 DEF ReadLine, listVars
  <2>4. QED BY <1>2, <2>3
<1>3. CASE Check
  <2>1. pc = "check" /\ pc' = "decide" /\ fresh /\ fresh' = fresh
    BY <1>3 DEF Check
  <2>2. list \subseteq listed /\ listed \subseteq approved
    BY <1>3 DEF Check, TypeOK, FileType
  <2>3. valid' => num \in approved \cup {Empty}
    BY <1>3, <2>2 DEF Check, Lines
  <2>4. num' = num /\ approved' = approved
    BY <1>3 DEF Check
  <2>5. QED BY <2>1, <2>3, <2>4
<1>4. CASE Truncate
  BY <1>4 DEF Truncate
<1>5. CASE pc' = pc /\ listed' = listed /\ UNCHANGED readVars
  BY <1>5 DEF readVars
<1>6. QED
  BY <1>1, <1>2, <1>3, <1>4, <1>5, Actions DEF Start, End, Idle, SeeForce,
       WriteForce, RemoveForce, LogForce, ReadLine, LogSensor, Grant, Refuse,
       Log, DrainLine, DrainDone, WriteList, Arrive, Complete, LinkLost,
       LinkBack, RequestForce, Tick, vars, listVars

LEMMA HeldStep == TypeOK /\ HeldInv /\ [Next]_vars => HeldInv'
<1> SUFFICES ASSUME TypeOK, HeldInv, [Next]_vars PROVE HeldInv'
  OBVIOUS
<1> USE DEF HeldInv
<1>0. age \in 0 .. Window /\ heldAge \in 0 .. Window /\ Window \in Nat
  BY ConstantTypes DEF TypeOK, MemType
<1>1. CASE Start
  BY <1>1 DEF Start
<1>2. CASE Grant
  BY <1>2 DEF Grant, Remember
<1>3. CASE Refuse
  BY <1>0, <1>3 DEF Refuse, Remember
<1>4. CASE Tick
  BY <1>0, <1>4 DEF Tick, Later
<1>5. CASE UNCHANGED memVars
  BY <1>5 DEF memVars
<1>6. QED
  BY <1>1, <1>2, <1>3, <1>4, <1>5, Actions DEF End, Idle, SeeForce, WriteForce,
       RemoveForce, LogForce, ReadLine, LogSensor, Check, Log, DrainLine,
       DrainDone, Truncate, WriteList, Arrive, Complete, LinkLost, LinkBack,
       RequestForce, vars

LEMMA ForceStep == TypeOK /\ ForceInv /\ [Next]_vars => ForceInv'
<1> SUFFICES ASSUME TypeOK, ForceInv, [Next]_vars PROVE ForceInv'
  OBVIOUS
<1> USE DEF ForceInv
<1>1. CASE End
  BY <1>1 DEF End, TypeOK, FileType
<1>2. CASE WriteForce \/ RemoveForce \/ RequestForce \/ SeeForce
  BY <1>2 DEF WriteForce, RemoveForce, RequestForce, SeeForce, forceVars
<1>3. CASE /\ UNCHANGED forceVars
           /\ pc = "sleep" <=> pc' = "sleep"
           /\ pc' = "force" => pc = "force"
  BY <1>3 DEF forceVars
<1>4. QED
  BY <1>1, <1>2, <1>3, Actions DEF Start, Idle, LogForce, ReadLine, LogSensor,
       Check, Grant, Refuse, Log, DrainLine, DrainDone, Truncate, WriteList,
       Arrive, Complete, LinkLost, LinkBack, Tick, vars

LEMMA Invariance == Spec => []IInv
<1>1. Init => IInv
  BY TypeInit, NoLines DEF Init, IInv, ReadInv, HeldInv, ForceInv, NoneLate
<1>2. IInv /\ [Next]_vars => IInv'
  BY TypeStep, QueueStep, ReadInvStep, HeldStep, ForceStep DEF IInv
<1>3. QED BY <1>1, <1>2, PTL DEF Spec

-----------------------------------------------------------------------------
(* The one action that writes 'D' for a card. *)
LEMMA OnlyGrant == [Next]_vars /\ ~UNCHANGED vars /\ sent' = "tag" => Grant
BY Actions DEF Start, End, Idle, SeeForce, WriteForce, RemoveForce, LogForce,
     ReadLine, LogSensor, Check, Refuse, Log, DrainLine, DrainDone, Truncate,
     WriteList, Arrive, Complete, LinkLost, LinkBack, RequestForce, Tick, vars

(* The one action that writes 'D' on request. *)
LEMMA OnlyWriteForce ==
  [Next]_vars /\ ~UNCHANGED vars /\ sent' = "force" => WriteForce
BY Actions DEF Start, End, Idle, SeeForce, RemoveForce, LogForce, ReadLine,
     LogSensor, Check, Grant, Refuse, Log, DrainLine, DrainDone, Truncate,
     WriteList, Arrive, Complete, LinkLost, LinkBack, RequestForce, Tick, vars

(* The one action that removes forceopen.now. *)
LEMMA OnlyRemoveForce ==
  [Next]_vars /\ ~UNCHANGED vars /\ force /\ ~force' => RemoveForce
BY Actions DEF Start, End, Idle, SeeForce, WriteForce, LogForce, ReadLine, LogSensor,
     Check, Grant, Refuse, Log, DrainLine, DrainDone, Truncate, WriteList,
     Arrive, Complete, LinkLost, LinkBack, RequestForce, Tick, forceVars, vars

(* The code compares with the last read, and so with the last grant. *)
LEMMA NotRepeated ==
  ASSUME TypeOK, HeldInv, Grant
  PROVE  held # num \/ heldAge = Window
<1>1. age \in 0 .. Window /\ heldAge \in 0 .. Window /\ Window \in Nat
  BY ConstantTypes DEF TypeOK, MemType
<1>2. num # "q"
  BY AuthAssumption DEF AuthAssumption, TypeOK, ReadType, Number, Empty
<1>3. CASE held = num
  <2>1. num = lastnum /\ age <= heldAge
    BY <1>2, <1>3 DEF HeldInv
  <2>2. ~(age < Window)
    BY <2>1 DEF Grant, Repeated
  <2>3. QED BY <1>1, <2>1, <2>2
<1>4. QED BY <1>3

(* No card is let in that was on no list since its line was read. *)
THEOREM GrantSafe == Spec => GrantListed
<1>1. IInv /\ [Next]_vars
        => [sent' = "tag" => num \in approved \cup {Empty}]_vars
  <2> SUFFICES ASSUME IInv, [Next]_vars, ~UNCHANGED vars, sent' = "tag"
               PROVE  num \in approved \cup {Empty}
    OBVIOUS
  <2>1. Grant
    BY OnlyGrant
  <2>2. QED BY <2>1 DEF Grant, IInv, ReadInv
<1>2. QED BY Invariance, <1>1, PTL DEF Spec, GrantListed

(* No number is let in twice in a Window without another read between. *)
THEOREM RepeatSafe == Spec => NoRepeat
<1>1. IInv /\ [Next]_vars
        => [sent' = "tag" => held # num \/ heldAge = Window]_vars
  <2> SUFFICES ASSUME IInv, [Next]_vars, ~UNCHANGED vars, sent' = "tag"
               PROVE  held # num \/ heldAge = Window
    OBVIOUS
  <2>1. Grant
    BY OnlyGrant
  <2>2. QED BY <2>1, NotRepeated DEF IInv
<1>2. QED BY Invariance, <1>1, PTL DEF Spec, NoRepeat

(* No line that began while a read was being logged lets anyone in. *)
THEOREM QueueSafe == Spec => QueuedIgnored
<1>1. IInv /\ [Next]_vars => [sent' = "tag" => fresh]_vars
  <2> SUFFICES ASSUME IInv, [Next]_vars, ~UNCHANGED vars, sent' = "tag"
               PROVE  fresh
    OBVIOUS
  <2>1. Grant
    BY OnlyGrant
  <2>2. QED BY <2>1 DEF Grant, IInv, ReadInv
<1>2. QED BY Invariance, <1>1, PTL DEF Spec, QueuedIgnored

(* No request is removed unanswered. *)
THEOREM ForceAnswer == Spec => ForceAnswered
<1>1. IInv /\ [Next]_vars => [(force /\ ~force') => answered # "no"]_vars
  <2> SUFFICES ASSUME IInv, [Next]_vars, ~UNCHANGED vars, (force /\ ~force')
               PROVE  answered # "no"
    OBVIOUS
  <2>1. RemoveForce
    BY OnlyRemoveForce
  <2>2. QED BY <2>1 DEF RemoveForce, IInv, ForceInv
<1>2. QED BY Invariance, <1>1, PTL DEF Spec, ForceAnswered

(* One run of the program answers a request once. *)
THEOREM ForceOnceSafe == Spec => ForceOnce
<1>1. IInv /\ [Next]_vars => [sent' = "force" => answered # "yes"]_vars
  <2> SUFFICES ASSUME IInv, [Next]_vars, ~UNCHANGED vars, sent' = "force"
               PROVE  answered # "yes"
    OBVIOUS
  <2>1. WriteForce
    BY OnlyWriteForce
  <2>2. QED BY <2>1 DEF WriteForce, IInv, ForceInv
<1>2. QED BY Invariance, <1>1, PTL DEF Spec, ForceOnce
-----------------------------------------------------------------------------
(* The server keeps AccessPolicy.  What a step does to the visit and the   *)
(* request, for the steps that leave the rest of the policy alone.         *)
LEMMA PolicyInitial == Init => Policy!Init
BY DEF Init, NoRead, Policy!Init, Policy!Nobody, Visitor, ForceState

LEMMA VisitInHand ==
  ASSUME TypeOK
  PROVE  /\ Visitor = "q" <=> pc \notin {"check", "decide"}
         /\ num # "q"
BY AuthAssumption
   DEF AuthAssumption, TypeOK, ReadType, Number, Empty, Visitor

(* A file that was not there is a request no run has answered yet; one     *)
(* that is there has been answered by this run exactly during the sleep.   *)
LEMMA ForceStates ==
  ASSUME TypeOK, ForceInv
  PROVE  /\ ForceState = "served" <=> pc = "sleep"
         /\ ForceState = "none" <=> ~force
         /\ pc = "force" => ForceState \in {"standing", "left"}
         /\ answered = "no" => ForceState = IF force THEN "standing" ELSE "none"
BY DEF TypeOK, FileType, ForceInv, ForceState

(* The steps that the policy does not see. *)
LEMMA Unseen ==
  ASSUME sent' = "no", Visitor' = Visitor, UNCHANGED forceVars,
         UNCHANGED <<listed, approved, held, heldAge>>
  PROVE  Policy!Rest
BY DEF Policy!Rest, forceVars, ForceState

(* The steps that only read, log, wait or move lines about. *)
LEMMA RestStep ==
  ASSUME TypeOK,
         \/ Idle \/ SeeForce \/ LogForce \/ LogSensor \/ Log \/ Check
         \/ DrainLine \/ DrainDone \/ WriteList
         \/ Arrive \/ Complete \/ LinkLost \/ LinkBack
  PROVE  Policy!Rest
<1>1. /\ sent' = "no" /\ UNCHANGED forceVars
      /\ UNCHANGED <<num, listed, approved, held, heldAge>>
      /\ pc \in {"check", "decide"} <=> pc' \in {"check", "decide"}
  BY DEF Idle, SeeForce, LogForce, LogSensor, Log, Check, DrainLine, DrainDone,
     WriteList, Arrive, Complete, LinkLost, LinkBack, readVars, memVars, listVars
<1>2. Visitor' = Visitor
  BY <1>1 DEF Visitor
<1>3. QED BY <1>1, <1>2, Unseen

LEMMA ReadStepPolicy ==
  ASSUME TypeOK, ReadLine
  PROVE  Policy!Visit \/ Policy!Rest
<1>1. /\ pc = "poll" /\ sent' = "no" /\ UNCHANGED forceVars
      /\ UNCHANGED <<listed, held, heldAge>>
  BY DEF ReadLine, memVars, listVars
<1>2. CASE Head(inq).text \in Number
  <2>1. /\ pc' = "check" /\ num' \in Number /\ approved' = listed
    BY <1>2 DEF ReadLine
  <2>2. Visitor = "q" /\ Visitor' = num'
    BY <1>1, <2>1 DEF Visitor
  <2>3. ForceState' = ForceState
    BY <1>1 DEF forceVars, ForceState
  <2>4. QED
    BY <1>1, <2>1, <2>2, <2>3 DEF Policy!Visit, Policy!Nobody
<1>3. CASE Head(inq).text \notin Number
  <2>1. pc' \in {"sensor", "poll"} /\ approved' = approved
    BY <1>3 DEF ReadLine, readVars
  <2>2. Visitor' = Visitor
    BY <1>1, <2>1 DEF Visitor
  <2>3. QED BY <1>1, <2>1, <2>2, Unseen
<1>4. QED BY <1>2, <1>3

LEMMA DecideStepPolicy ==
  ASSUME IInv, Grant \/ Refuse
  PROVE  Policy!LetIn \/ Policy!TurnAway
<1>0. TypeOK /\ ReadInv /\ HeldInv
  BY DEF IInv
<1>1. /\ pc = "decide" /\ pc' = "log" /\ approved' = {}
      /\ UNCHANGED forceVars /\ listed' = listed
  BY DEF Grant, Refuse, Forget, listVars
<1>2. Visitor = num /\ Visitor # "q" /\ Visitor' = "q"
  BY <1>0, <1>1, VisitInHand DEF Visitor
<1>3. ForceState' = ForceState
  BY <1>1 DEF forceVars, ForceState
<1>4. CASE Grant
  <2>1. num \in Tag => num \in approved
    BY <1>0, <1>4, AuthAssumption
       DEF Grant, ReadInv, AuthAssumption, Empty
  <2>2. held # num \/ heldAge = Window
    BY <1>0, <1>4, NotRepeated
  <2>3. sent' = "tag" /\ held' = num /\ heldAge' = 0
    BY <1>4 DEF Grant
  <2>4. QED
    BY <1>1, <1>2, <1>3, <2>1, <2>2, <2>3 DEF Policy!LetIn, Policy!Nobody
<1>5. CASE Refuse
  <2>1. /\ sent' = "no" /\ heldAge' = heldAge
        /\ held' = IF held = num THEN held ELSE "q"
    BY <1>5 DEF Refuse
  <2>2. QED
    BY <1>1, <1>2, <1>3, <2>1 DEF Policy!TurnAway, Policy!Nobody
<1>6. QED BY <1>4, <1>5

LEMMA ForceStepPolicy ==
  ASSUME TypeOK, ForceInv, ForceInv', WriteForce \/ RemoveForce \/ RequestForce
  PROVE  Policy!OpenForce \/ Policy!Withdraw \/ Policy!Ask
<1>1. /\ UNCHANGED <<num, approved, listed, held, heldAge>>
      /\ pc \in {"check", "decide"} <=> pc' \in {"check", "decide"}
  BY DEF WriteForce, RemoveForce, RequestForce, readVars, memVars, listVars
<1>2. Visitor' = Visitor
  BY <1>1 DEF Visitor
<1>3. CASE WriteForce
  <2>1. Visitor = "q" /\ sent' = "force" /\ pc = "force"
    BY <1>3 DEF WriteForce, Visitor
  <2>2. ForceState \in {"standing", "left"}
    BY <2>1, ForceStates
  <2>3. ForceState' = "served"
    BY <1>3, <2>1 DEF WriteForce, ForceInv, ForceState
  <2>4. QED
    BY <1>1, <1>2, <2>1, <2>2, <2>3 DEF Policy!OpenForce, Policy!Nobody
<1>4. CASE RemoveForce
  <2>1. ForceState = "served" /\ ForceState' = "none" /\ sent' = "no"
    BY <1>4, ForceStates DEF RemoveForce, ForceState
  <2>2. QED BY <1>1, <1>2, <2>1 DEF Policy!Withdraw
<1>5. CASE RequestForce
  <2>1. answered = "no" /\ answered' = "no"
    BY <1>5 DEF RequestForce, ForceInv
  <2>2. ForceState = "none" /\ ForceState' = "standing" /\ sent' = "no"
    BY <1>5, <2>1 DEF RequestForce, ForceState
  <2>3. QED BY <1>1, <1>2, <2>2 DEF Policy!Ask
<1>6. QED BY <1>3, <1>4, <1>5

LEMMA RunStepPolicy ==
  ASSUME TypeOK, ForceInv, Start \/ End
  PROVE  Policy!Restart \/ Policy!Crash
<1>1. CASE Start
  <2>1. Visitor = "q" /\ Visitor' = "q" /\ ForceState' = ForceState
    BY <1>1 DEF Start, Visitor, ForceState, forceVars
  <2>2. /\ held' = "q" /\ heldAge' = Window /\ sent' = "no"
        /\ UNCHANGED <<listed, approved>>
    BY <1>1 DEF Start, readVars, listVars
  <2>3. QED BY <2>1, <2>2 DEF Policy!Restart, Policy!Nobody
<1>2. CASE End
  <2>1. /\ Visitor' = "q" /\ approved' = {} /\ sent' = "no"
        /\ UNCHANGED <<listed, held, heldAge>>
    BY <1>2 DEF End, Forget, Visitor, memVars, listVars
  <2>2. ForceState' = IF ForceState = "served" THEN "left" ELSE ForceState
    BY <1>2 DEF End, ForceState, TypeOK, FileType
  <2>3. QED BY <2>1, <2>2 DEF Policy!Crash, Policy!Nobody
<1>3. QED BY <1>1, <1>2

LEMMA ListStepPolicy ==
  ASSUME TypeOK, Truncate
  PROVE  Policy!NewList
<1>1. /\ UNCHANGED <<pc, num, held, heldAge>> /\ UNCHANGED forceVars
      /\ listed' \in Lists /\ sent' = "no"
      /\ approved' = IF pc \in {"check", "decide"} THEN approved \cup listed'
                                                  ELSE approved
  BY DEF Truncate, memVars
<1>2. Visitor' = Visitor /\ ForceState' = ForceState
  BY <1>1 DEF Visitor, ForceState, forceVars
<1>3. approved' = IF Visitor = "q" THEN approved ELSE approved \cup listed'
  BY <1>1, VisitInHand
<1>4. QED BY <1>1, <1>2, <1>3 DEF Policy!NewList, Policy!Nobody

LEMMA TickPolicy ==
  ASSUME TypeOK, Tick
  PROVE  Policy!Tick \/ Policy!Rest
<1>1. /\ UNCHANGED <<pc, num, approved, held, listed>> /\ UNCHANGED forceVars
      /\ sent' = "no" /\ heldAge' = Later(heldAge)
  BY DEF Tick, readVars, listVars
<1>2. Visitor' = Visitor /\ ForceState' = ForceState
  BY <1>1 DEF Visitor, ForceState, forceVars
<1>3. CASE heldAge < Window
  BY <1>1, <1>2, <1>3 DEF Later, Policy!Tick
<1>4. CASE ~(heldAge < Window)
  BY <1>1, <1>2, <1>4, Unseen DEF Later
<1>5. QED BY <1>3, <1>4

LEMMA PolicyStep == IInv /\ IInv' /\ [Next]_vars => [Policy!Next]_(Policy!vars)
<1> SUFFICES ASSUME IInv, IInv', [Next]_vars
             PROVE  Policy!Next \/ UNCHANGED Policy!vars
  OBVIOUS
<1>1. TypeOK /\ ForceInv /\ ForceInv'
  BY DEF IInv
<1>2. CASE UNCHANGED vars
  BY <1>2 DEF vars, readVars, memVars, forceVars, listVars, Policy!vars, Visitor,
     ForceState
<1>3. QED
  BY Actions, <1>1, <1>2, RestStep, ReadStepPolicy, DecideStepPolicy,
     ForceStepPolicy, RunStepPolicy, ListStepPolicy, TickPolicy DEF Policy!Next

(* The authorisation server, crashes and updates included, keeps the       *)
(* policy: it opens for eligible visitors and standing requests only, once *)
(* for each.                                                               *)
THEOREM Implementation == Spec => ImplementsPolicy
<1>1. QED
  BY PolicyInitial, PolicyStep, Invariance, PTL
     DEF Spec, ImplementsPolicy, Policy!Spec

=============================================================================
