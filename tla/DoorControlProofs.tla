------------------------- MODULE DoorControlProofs -------------------------
(***************************************************************************)
(* Theorems of DoorControl, for every value of its constants that fits     *)
(* TimingAssumption.                                                       *)
(***************************************************************************)
EXTENDS DoorControl, TLAPS

(***************************************************************************)
(* The inductive invariant.  `Value(system_timer)` is bounded by where the *)
(* loop stands: below the limit that its last comparison allowed, plus the *)
(* interrupts that can have fallen in since.                               *)
(***************************************************************************)
Clearing  == pc \in {"openClearLo", "closeClearLo"}
Unchecked == pc \in {"sense", "periodic", "periodicHi", "edge", "timeout",
                     "timeoutHi"}
Checked   == \/ pc \in {"commands", "receive", "service"}
             \/ device_state = "IDLE" /\ pc \in {"edge", "timeout"}

TimerBound ==
  LET V == Value(system_timer) IN
  /\ pc = "boot" => V = 0
  /\ Unchecked => V <= RelockTime - 1 + MaxLag + lag
  /\ Checked => V <= RelockTime - 1 + lag
  /\ Clearing => V <= ByteValues - 1 + lag
  /\ pc = "openPulse" => V <= ByteValues - 1 + lag + delay
  /\ pc = "closePulse" => V <= RelockTime - 1 + MaxLag + lag + delay

(* A torn load never under-reads: a carry only makes the sum too large. *)
LoadBound == pc \in {"periodicHi", "timeoutHi"}
               => system_timer.lo <= timerLo + lag

(* The timer and the interrupts counted since its last clear. *)
TimerFollows ==
  /\ ~Clearing => /\ elapsed <= Value(system_timer)
                  /\ Value(system_timer) <= elapsed + ByteValues - 1 + MaxLag
  /\ pc = "openClearLo" => elapsed <= DOOR_CLOSE_TIME_MS - 1 + lag
  /\ pc = "openPulse" => elapsed <= delay + lag

EdgeBound ==
  ClosingEdge => /\ pc \notin {"timeout", "timeoutHi"}
                 /\ pc \in {"commands", "receive", "service"}
                      => elapsed <= DOOR_RELAY_PULSE_MS + lag

(* What holds inside the two routines, where ReaderFollowsState is silent. *)
RoutineState ==
  /\ pc \in {"boot", "periodicHi", "closeClearLo"} => device_state = "IDLE"
  /\ pc \in {"timeoutHi", "openClearLo", "openPulse"}
       => device_state = "UNLOCKED"
  /\ pc = "openPulse" => bolt = "unlocked" /\ "RFIDEN" \in pins
  /\ pc = "closeClearLo" => bolt = "locked" /\ "RFIDEN" \notin pins

ControlInv == RelayDiscipline /\ ReaderFollowsState /\ RoutineState

TimerInv == TimerBound /\ LoadBound /\ TimerFollows /\ EdgeBound

IInv == TypeOK /\ ControlInv /\ TimerInv

-----------------------------------------------------------------------------
(* Some of the consequences of TypeOK and the definitions that every action *)
(* is made of, expanded together in the proofs below.                       *)
USE TimingAssumption DEF usb

(* Zero is a timer value, and the increment stays one. *)
LEMMA IncrementedType ==
  ASSUME NEW t \in [hi : Byte, lo : Byte]
  PROVE  Incremented(t) \in [hi : Byte, lo : Byte]
BY DEF Incremented, Byte

(* Away from the wrap-around the increment adds one to the value. *)
LEMMA IncrementedValue ==
  ASSUME NEW t \in [hi : Byte, lo : Byte],
         Value(t) + 1 < ByteValues * ByteValues
  PROVE  Value(Incremented(t)) = Value(t) + 1
<1>1. CASE t.lo < ByteValues - 1
  BY <1>1 DEF Incremented, Value, Byte
<1>2. CASE t.lo >= ByteValues - 1
  <2>1. t.lo = ByteValues - 1
    BY <1>2 DEF Byte
  <2>2. t.hi < ByteValues - 1
    <3>1. SUFFICES ASSUME t.hi = ByteValues - 1 PROVE FALSE
      BY DEF Byte
    <3>2. Value(t) = (ByteValues - 1) * ByteValues + ByteValues - 1
      BY <2>1, <3>1 DEF Value
    <3>3. QED BY <3>2
  <2>3. Incremented(t) = [hi |-> t.hi + 1, lo |-> 0]
    BY <2>1, <2>2 DEF Incremented
  <2>4. Value(Incremented(t)) = (t.hi + 1) * ByteValues
    BY <2>3 DEF Value, Byte
  <2>5. QED BY <2>1, <2>4 DEF Value, Byte
<1>3. QED BY <1>1, <1>2 DEF Byte

(* Clearing one byte. *)
LEMMA ClearedBytes ==
  ASSUME NEW t \in [hi : Byte, lo : Byte]
  PROVE  /\ [t EXCEPT !.hi = 0] \in [hi : Byte, lo : Byte]
         /\ [t EXCEPT !.lo = 0] \in [hi : Byte, lo : Byte]
         /\ Value([t EXCEPT !.hi = 0]) = t.lo
         /\ Value([t EXCEPT !.lo = 0]) \in 0 .. Value(t)
<1>1. t.hi \in Byte /\ t.lo \in Byte /\ 0 \in Byte
  BY DEF Byte
<1>2. t.hi * ByteValues \in Nat
  BY <1>1 DEF Byte
<1>3. QED BY <1>1, <1>2 DEF Value, Byte

-----------------------------------------------------------------------------
(***************************************************************************)
(* Type correctness.                                                       *)
(***************************************************************************)
LEMMA BeginCloseType ==
  ASSUME TypeOK, NEW r \in {"edge", "timeout", "commands"}, BeginClose(r)
  PROVE  /\ pc' \in Labels
         /\ ret' \in {"edge", "timeout", "commands"}
         /\ pins' \in SUBSET {"LED", "RFIDEN", "DOOROPEN", "DOORCLOSE"}
         /\ delay' \in 0 .. DOOR_RELAY_PULSE_MS
BY DEF TypeOK, BeginClose, Labels, Pulses

LEMMA LoadHiType ==
  ASSUME TypeOK, held' \in BOOLEAN, NEW next \in {"edge", "commands"}, NEW limit,
         LoadHi(limit, next)
  PROVE  TypeOK'
<1>1. CASE Expired(limit) /\ BeginClose(next)
  BY <1>1, BeginCloseType DEF TypeOK, LoadHi
<1>2. CASE ~ (Expired(limit) /\ BeginClose(next))
  BY <1>2 DEF TypeOK, LoadHi, Labels
<1>3. QED BY <1>1, <1>2

(* The endpoint's bytes stay in bounds when one is taken and when all are. *)
LEMMA ReceiveType ==
  ASSUME TypeOK, NEW c, Receive(c)
  PROVE  /\ rx' \in Seq(Command) /\ Len(rx') <= RxSize
         /\ ready' \in BOOLEAN /\ torn' \in BOOLEAN
<1>1. ready' \in BOOLEAN /\ torn' \in BOOLEAN
  BY Zenon DEF TypeOK, Receive
<1>2. CASE Waiting /\ rx' = Tail(rx)
  <2>1. rx' \in Seq(Command) /\ Len(rx') = Len(rx) - 1
    BY <1>2 DEF TypeOK, Waiting
  <2>2. Len(rx) \in Nat /\ Len(rx) <= RxSize
    BY DEF TypeOK
  <2>3. QED BY <1>1, <2>1, <2>2
<1>3. CASE UNCHANGED rx
  BY <1>1, <1>3 DEF TypeOK
<1>4. QED BY <1>2, <1>3 DEF Receive

(* The types, in two parts. *)
LinkType ==
  /\ rx \in Seq(Command) /\ Len(rx) <= RxSize
  /\ ready \in BOOLEAN /\ torn \in BOOLEAN /\ held \in BOOLEAN

CoreType ==
  /\ pc \in Labels
  /\ ret \in {"edge", "timeout", "commands"}
  /\ device_state \in {"IDLE", "UNLOCKED"}
  /\ doorsense_last \in {"OPEN", "CLOSED"}
  /\ doorsense_current \in {"OPEN", "CLOSED"}
  /\ system_timer \in [hi : Byte, lo : Byte]
  /\ timerLo \in Byte
  /\ pins \in SUBSET {"LED", "RFIDEN", "DOOROPEN", "DOORCLOSE"}
  /\ delay \in 0 .. DOOR_RELAY_PULSE_MS
  /\ door \in {"OPEN", "CLOSED"}
  /\ bolt \in {"locked", "unlocked"}
  /\ lag \in 0 .. MaxLag
  /\ elapsed \in Nat

LEMMA TypeParts == TypeOK <=> CoreType /\ LinkType
BY Zenon DEF TypeOK, CoreType, LinkType

LEMMA WipedType == << >> \in Seq(Command) /\ Len(<< >>) <= RxSize
OBVIOUS

LEMMA LinkStepType ==
  ASSUME TypeOK, held' \in BOOLEAN,
         LinkLost \/ LinkChanges \/ Preempt \/ Return
  PROVE  TypeOK'
<1>1. ready' \in BOOLEAN /\ torn' \in BOOLEAN
  BY Zenon DEF TypeOK, LinkLost, LinkChanges, Preempt, Return
<1>2. rx' \in Seq(Command) /\ Len(rx') <= RxSize
  BY WipedType DEF TypeOK, LinkLost, LinkChanges, Preempt, Return
<1>3. LinkType'
  BY <1>1, <1>2, Zenon DEF LinkType
<1>4. UNCHANGED <<mcu, system_timer, delay, door, bolt, lag, elapsed>>
  BY Zenon DEF LinkLost, LinkChanges, Preempt, Return
<1>5. CoreType'
  BY <1>4, TypeParts DEF mcu, CoreType
<1>6. QED BY <1>3, <1>5, Zenon DEF TypeOK, CoreType, LinkType

LEMMA ResetType ==
  ASSUME TypeOK, Reset
  PROVE  TypeOK'
<1>1. system_timer' \in [hi : Byte, lo : Byte] /\ timerLo' \in Byte
  BY DEF Reset, Zero, Byte
<1>2. CoreType'
  BY <1>1, TypeParts DEF Reset, CoreType, Labels, Pulses
<1>3. LinkType'
  BY WipedType, Zenon DEF Reset, LinkType
<1>4. QED BY <1>2, <1>3, Zenon DEF TypeOK, CoreType, LinkType

LEMMA TypeStep == TypeOK /\ [Next]_vars => TypeOK'
<1> SUFFICES ASSUME TypeOK, [Next]_vars PROVE TypeOK'
  OBVIOUS
<1>h. held' \in BOOLEAN
  BY DEF TypeOK, Next, Main, Tick, Preempt, Return, Environment, HostSend,
         LinkChanges, LinkLost, DoorMoves, Reset, vars
<1> USE <1>h DEF TypeOK, Labels, Pulses
<1>1. CASE Boot
  BY <1>1 DEF Boot
<1>2. CASE Sense
  BY <1>2 DEF Sense
<1>3. CASE PeriodicLo
  BY <1>3 DEF PeriodicLo, LoadLo
<1>4. CASE PeriodicHi
  BY <1>4, LoadHiType DEF PeriodicHi
<1>5. CASE EdgeCheck
  <2>1. CASE BeginClose("timeout")
    BY <1>5, <2>1, BeginCloseType DEF EdgeCheck, CloseOn
  <2>2. CASE ~ BeginClose("timeout")
    BY <1>5, <2>2 DEF EdgeCheck, CloseOn
  <2>3. QED BY <2>1, <2>2
<1>6. CASE TimeoutLo
  BY <1>6 DEF TimeoutLo, LoadLo
<1>7. CASE TimeoutHi
  BY <1>7, LoadHiType DEF TimeoutHi
<1>8. CASE ReceiveOpen
  <2>1. system_timer' \in [hi : Byte, lo : Byte]
    BY <1>8, ClearedBytes DEF ReceiveOpen, ClearHi
  <2>2. QED BY <1>8, <2>1, ReceiveType DEF ReceiveOpen
<1>9. CASE ReceiveClose
  BY <1>9, ReceiveType DEF ReceiveClose, BeginClose
<1>10. CASE ReceiveOther
  BY <1>10, ReceiveType DEF ReceiveOther
<1>11. CASE CommandsDone \/ CommandWaits
  BY <1>11 DEF CommandsDone, CommandWaits
<1>12. CASE OpenPulse
  <2>1. system_timer' \in [hi : Byte, lo : Byte]
    BY <1>12, ClearedBytes DEF OpenPulse
  <2>2. QED BY <1>12, <2>1 DEF OpenPulse
<1>13. CASE OpenRelease
  BY <1>13 DEF OpenRelease
<1>14. CASE CloseRelease
  <2>1. system_timer' \in [hi : Byte, lo : Byte]
    BY <1>14, ClearedBytes DEF CloseRelease, Release, ClearHi
  <2>2. QED BY <1>14, <2>1 DEF CloseRelease, Release
<1>15. CASE CloseReturn
  <2>1. system_timer' \in [hi : Byte, lo : Byte]
    BY <1>15, ClearedBytes DEF CloseReturn
  <2>2. QED BY <1>15, <2>1 DEF CloseReturn
<1>16. CASE Service
  BY <1>16 DEF Service
<1>17. CASE Tick
  <2>1. system_timer' \in [hi : Byte, lo : Byte]
    BY <1>17, IncrementedType DEF Tick
  <2>2. QED BY <1>17, <2>1 DEF Tick, mcu, InDelay
<1>18. ASSUME NEW c \in Command, HostSend(c) PROVE TypeOK'
  BY <1>18 DEF HostSend, mcu
<1>19. CASE LinkLost \/ LinkChanges \/ Preempt \/ Return
  BY <1>19, LinkStepType
<1>20. CASE DoorMoves
  BY <1>20 DEF DoorMoves, mcu
<1>21. CASE Reset
  BY <1>21, ResetType
<1>22. CASE UNCHANGED vars
  BY <1>22 DEF vars, mcu
<1>23. QED
  BY <1>1, <1>2, <1>3, <1>4, <1>5, <1>6, <1>7, <1>8, <1>9, <1>10, <1>11,
     <1>12, <1>13, <1>14, <1>15, <1>16, <1>17, <1>18, <1>19, <1>20, <1>21,
     <1>22
     DEF Next, Main, MainStep, Environment

LEMMA TypeInit == Init => TypeOK
<1> SUFFICES ASSUME Init PROVE TypeOK
  OBVIOUS
<1>1. system_timer \in [hi : Byte, lo : Byte] /\ timerLo \in Byte
  BY DEF Init, PowerUp, Zero, Byte
<1>2. CoreType
  BY <1>1 DEF Init, PowerUp, CoreType, Labels, Pulses
<1>3. LinkType
  BY WipedType, Zenon DEF Init, PowerUp, LinkType
<1>4. QED BY <1>2, <1>3, TypeParts

(* Every variable of the door controller keeps its type. *)
THEOREM TypeCorrect == Spec => []TypeOK
<1>1. QED BY TypeInit, TypeStep, PTL DEF Spec

-----------------------------------------------------------------------------
(***************************************************************************)
(* Relays, reader and state.                                               *)
(***************************************************************************)
LEMMA ControlInit == Init => ControlInv
BY DEF Init, PowerUp, ControlInv, RelayDiscipline, ReaderFollowsState,
       RoutineState, InRoutine, Pulses

LEMMA ControlStep == TypeOK /\ ControlInv /\ [Next]_vars => ControlInv'
<1> SUFFICES ASSUME TypeOK, ControlInv, [Next]_vars PROVE ControlInv'
  OBVIOUS
<1>a. /\ pc \in Labels
      /\ ret \in {"edge", "timeout", "commands"}
      /\ device_state \in {"IDLE", "UNLOCKED"}
  BY DEF TypeOK
<1> USE <1>a DEF ControlInv, RelayDiscipline, ReaderFollowsState, RoutineState,
                 InRoutine, Labels, Pulses
<1>1. CASE Boot
  BY <1>1 DEF Boot
<1>2. CASE Sense
  BY <1>2 DEF Sense
<1>3. CASE PeriodicLo
  BY <1>3 DEF PeriodicLo, LoadLo
<1>b. ASSUME NEW r \in {"edge", "timeout", "commands"}, BeginClose(r),
             UNCHANGED <<device_state, bolt>>,
             pc \in {"periodicHi", "edge", "timeoutHi", "receive"}
      PROVE  ControlInv'
  BY <1>b DEF BeginClose
<1>4. CASE PeriodicHi
  <2>1. CASE BeginClose("edge")
    BY <1>4, <2>1, <1>b DEF PeriodicHi, LoadHi
  <2>2. CASE ~ BeginClose("edge")
    BY <1>4, <2>2 DEF PeriodicHi, LoadHi
  <2>3. QED BY <2>1, <2>2
<1>5. CASE EdgeCheck
  <2>1. CASE BeginClose("timeout")
    BY <1>5, <2>1, <1>b DEF EdgeCheck, CloseOn
  <2>2. CASE ~ BeginClose("timeout")
    BY <1>5, <2>2 DEF EdgeCheck, CloseOn
  <2>3. QED BY <2>1, <2>2
<1>6. CASE TimeoutLo
  BY <1>6 DEF TimeoutLo, LoadLo
<1>7. CASE TimeoutHi
  <2>1. CASE BeginClose("commands")
    BY <1>7, <2>1, <1>b DEF TimeoutHi, LoadHi
  <2>2. CASE ~ BeginClose("commands")
    BY <1>7, <2>2 DEF TimeoutHi, LoadHi
  <2>3. QED BY <2>1, <2>2
<1>8. CASE ReceiveOpen
  BY <1>8 DEF ReceiveOpen, Receive
<1>9. CASE ReceiveClose
  BY <1>9, <1>b DEF ReceiveClose, Receive
<1>10. CASE ReceiveOther
  BY <1>10 DEF ReceiveOther, Receive
<1>11. CASE CommandsDone \/ CommandWaits
  BY <1>11 DEF CommandsDone, CommandWaits
<1>12. CASE OpenPulse
  BY <1>12 DEF OpenPulse
<1>13. CASE OpenRelease
  BY <1>13 DEF OpenRelease
<1>14. CASE CloseRelease
  BY <1>14 DEF CloseRelease, Release
<1>15. CASE CloseReturn
  BY <1>15 DEF CloseReturn
<1>16. CASE Service
  BY <1>16 DEF Service
<1>17. CASE Tick
  BY <1>17 DEF Tick, mcu
<1>18. ASSUME NEW c \in Command, HostSend(c) PROVE ControlInv'
  BY <1>18 DEF HostSend, mcu
<1>19. CASE LinkLost \/ LinkChanges \/ Preempt \/ Return
  BY <1>19 DEF LinkLost, LinkChanges, Preempt, Return, mcu
<1>20. CASE DoorMoves
  BY <1>20 DEF DoorMoves, mcu
<1>21. CASE Reset
  BY <1>21 DEF Reset
<1>22. CASE UNCHANGED vars
  BY <1>22 DEF vars, mcu
<1>23. QED
  BY <1>1, <1>2, <1>3, <1>4, <1>5, <1>6, <1>7, <1>8, <1>9, <1>10, <1>11,
     <1>12, <1>13, <1>14, <1>15, <1>16, <1>17, <1>18, <1>19, <1>20, <1>21,
     <1>22
     DEF Next, Main, MainStep, Environment

(* No interleaving leaves a relay energised or energises both. *)
THEOREM RelaysSafe == Spec => []RelayDiscipline
<1>1. TypeOK /\ ControlInv => RelayDiscipline
  BY DEF ControlInv
<1>2. QED BY TypeInit, TypeStep, ControlInit, ControlStep, <1>1, PTL DEF Spec

(* The reader is disabled exactly while the controller holds the bolt open. *)
THEOREM ReaderSafe == Spec => []ReaderFollowsState
<1>1. TypeOK /\ ControlInv => ReaderFollowsState
  BY DEF ControlInv
<1>2. QED BY TypeInit, TypeStep, ControlInit, ControlStep, <1>1, PTL DEF Spec

-----------------------------------------------------------------------------
(***************************************************************************)
(* The timer.                                                              *)
(***************************************************************************)
LEMMA TimerInit == Init => TimerInv
BY DEF Init, PowerUp, TimerInv, TimerBound, LoadBound, TimerFollows, EdgeBound,
       Unchecked, Checked, Clearing, ClosingEdge, Value, Zero

(* What the arithmetic below needs of TypeOK. *)
LEMMA TypeFacts ==
  ASSUME TypeOK
  PROVE  /\ pc \in Labels
         /\ ret \in {"edge", "timeout", "commands"}
         /\ device_state \in {"IDLE", "UNLOCKED"}
         /\ system_timer \in [hi : Byte, lo : Byte]
         /\ system_timer.hi \in Nat /\ system_timer.hi < ByteValues
         /\ system_timer.lo \in Nat /\ system_timer.lo < ByteValues
         /\ timerLo \in Nat /\ timerLo < ByteValues
         /\ delay \in Nat /\ delay <= DOOR_RELAY_PULSE_MS
         /\ lag \in Nat /\ lag <= MaxLag
         /\ elapsed \in Nat
         /\ Value(system_timer) \in Nat
<1>1. system_timer.hi \in Byte /\ system_timer.lo \in Byte
  BY DEF TypeOK
<1>2. system_timer.hi * ByteValues \in Nat
  BY <1>1 DEF Byte
<1>3. QED BY <1>1, <1>2 DEF TypeOK, Value, Byte

(* The timer stays below the bound of TimerNeverWraps. *)
LEMMA TimerInvBound ==
  ASSUME TypeOK, TimerInv
  PROVE  Value(system_timer) <= TimerLimit
BY TypeFacts DEF TimerInv, TimerBound, Unchecked, Checked, Clearing, RelockTime,
                 TimerLimit, Labels, Pulses

(* A step that starts doorClose. *)
LEMMA BeginCloseTimer ==
  ASSUME TypeOK, TimerInv, NEW r \in {"edge", "timeout", "commands"},
         BeginClose(r),
         pc \in {"periodicHi", "edge", "timeoutHi", "receive"},
         UNCHANGED <<device_state, doorsense_last, doorsense_current,
                     system_timer, lag, elapsed>>
  PROVE  TimerInv'
BY TypeFacts
   DEF BeginClose, TimerInv, TimerBound, LoadBound, TimerFollows, EdgeBound,
       Unchecked, Checked, Clearing, ClosingEdge, RelockTime

(* A comparison that does not start it: the timer is below the limit. *)
LEMMA NotExpiredTimer ==
  ASSUME TypeOK, LoadBound, pc \in {"periodicHi", "timeoutHi"},
         NEW limit \in Nat, ~Expired(limit)
  PROVE  Value(system_timer) <= limit - 1 + lag
<1>1. system_timer.hi * ByteValues \in Nat
  BY TypeFacts
<1>2. Loaded <= limit - 1
  BY <1>1, TypeFacts DEF Expired, Loaded
<1>3. QED BY <1>1, <1>2, TypeFacts DEF Loaded, Value, LoadBound

LEMMA TimerStep ==
  TypeOK /\ ControlInv /\ TimerInv /\ [Next]_vars => TimerInv'
<1> SUFFICES ASSUME TypeOK, ControlInv, TimerInv, [Next]_vars PROVE TimerInv'
  OBVIOUS
<1>t. RoutineState
  BY DEF ControlInv
<1> USE TypeFacts, <1>t
        DEF TimerInv, TimerBound, LoadBound, TimerFollows, EdgeBound,
            RoutineState, Unchecked, Checked, Clearing, ClosingEdge, RelockTime
<1>1. CASE Boot
  BY <1>1 DEF Boot
<1>2. CASE Sense
  BY <1>2 DEF Sense
<1>3. CASE PeriodicLo
  BY <1>3 DEF PeriodicLo, LoadLo
<1>4. CASE PeriodicHi
  <2>1. CASE BeginClose("edge")
    BY <1>4, <2>1, BeginCloseTimer DEF PeriodicHi, LoadHi
  <2>2. CASE ~ BeginClose("edge")
    <3>1. Value(system_timer) <= DOOR_CLOSE_TIME_MS - 1 + lag
      BY <1>4, <2>2, NotExpiredTimer DEF PeriodicHi, LoadHi
    <3>2. QED BY <1>4, <2>2, <3>1 DEF PeriodicHi, LoadHi
  <2>3. QED BY <2>1, <2>2
<1>5. CASE EdgeCheck
  <2>1. CASE BeginClose("timeout")
    BY <1>5, <2>1, BeginCloseTimer DEF EdgeCheck, CloseOn
  <2>2. CASE ~ BeginClose("timeout")
    BY <1>5, <2>2 DEF EdgeCheck, CloseOn
  <2>3. QED BY <2>1, <2>2
<1>6. CASE TimeoutLo
  BY <1>6 DEF TimeoutLo, LoadLo
<1>7. CASE TimeoutHi
  <2>1. CASE BeginClose("commands")
    BY <1>7, <2>1, BeginCloseTimer DEF TimeoutHi, LoadHi
  <2>2. CASE ~ BeginClose("commands")
    <3>1. Value(system_timer) <= DOOR_OPEN_TIME_MS - 1 + lag
      BY <1>7, <2>2, NotExpiredTimer DEF TimeoutHi, LoadHi
    <3>2. QED BY <1>7, <2>2, <3>1 DEF TimeoutHi, LoadHi
  <2>3. QED BY <2>1, <2>2
<1>8. CASE ReceiveOpen
  <2>1. Value(system_timer') = system_timer.lo
    BY <1>8, ClearedBytes DEF ReceiveOpen, ClearHi
  <2>2. elapsed <= DOOR_CLOSE_TIME_MS - 1 + lag
    <3>1. pc = "receive"
      BY <1>8 DEF ReceiveOpen, Receive
    <3>2. QED BY <3>1
  <2>3. pc' = "openClearLo" /\ UNCHANGED <<lag, elapsed>>
    BY <1>8 DEF ReceiveOpen
  <2>4. TimerBound'
    BY <2>1, <2>3
  <2>5. LoadBound' /\ TimerFollows' /\ EdgeBound'
    BY <2>2, <2>3
  <2>6. QED BY <2>4, <2>5
<1>9. CASE ReceiveClose
  BY <1>9, BeginCloseTimer DEF ReceiveClose, Receive
<1>10. CASE ReceiveOther
  BY <1>10 DEF ReceiveOther, Receive
<1>11. CASE CommandsDone \/ CommandWaits
  BY <1>11 DEF CommandsDone, CommandWaits
<1>12. CASE OpenPulse
  <2>1. Value(system_timer') \in 0 .. Value(system_timer)
    BY <1>12, ClearedBytes DEF OpenPulse
  <2>2. QED BY <1>12, <2>1 DEF OpenPulse
<1>13. CASE OpenRelease
  BY <1>13 DEF OpenRelease
<1>14. CASE CloseRelease
  <2>1. Value(system_timer') = system_timer.lo
    BY <1>14, ClearedBytes DEF CloseRelease, Release, ClearHi
  <2>2. QED BY <1>14, <2>1 DEF CloseRelease, Release
<1>15. CASE CloseReturn
  <2>1. Value(system_timer') \in 0 .. Value(system_timer)
    BY <1>15, ClearedBytes DEF CloseReturn
  <2>2. QED BY <1>15, <2>1 DEF CloseReturn
<1>16. CASE Service
  BY <1>16 DEF Service
<1>17. CASE Tick
  <2>1. Value(system_timer) + 1 < ByteValues * ByteValues
    <3>1. Value(system_timer) + 1 <= TimerLimit
      BY <1>17 DEF Tick, InDelay, Pulses, Labels, TimerLimit, mcu
    <3>2. ByteValues * ByteValues \in Nat
      OBVIOUS
    <3>3. QED BY <3>1, <3>2 DEF TimerLimit
  <2>2. Value(system_timer') = Value(system_timer) + 1
    BY <1>17, <2>1, IncrementedValue DEF Tick
  <2>3. system_timer'.lo \in Nat /\ system_timer'.lo <= system_timer.lo + 1
    BY <1>17 DEF Tick, Incremented
  <2>4. LoadBound'
    BY <1>17, <2>3 DEF Tick, InDelay, Pulses, mcu
  <2>5. TimerBound'
    BY <1>17, <2>2 DEF Tick, InDelay, Pulses, mcu
  <2>6. TimerFollows' /\ EdgeBound'
    BY <1>17, <2>2 DEF Tick, InDelay, Pulses, mcu
  <2>7. QED BY <2>4, <2>5, <2>6
<1>18. ASSUME NEW c \in Command, HostSend(c) PROVE TimerInv'
  BY <1>18 DEF HostSend, mcu
<1>19. CASE LinkLost \/ LinkChanges \/ Preempt \/ Return
  BY <1>19 DEF LinkLost, LinkChanges, Preempt, Return, mcu
<1>20. CASE DoorMoves
  BY <1>20 DEF DoorMoves, mcu
<1>21. CASE Reset
  BY <1>21 DEF Reset, Zero, Value
<1>22. CASE UNCHANGED vars
  BY <1>22 DEF vars, mcu
<1>23. QED
  BY <1>1, <1>2, <1>3, <1>4, <1>5, <1>6, <1>7, <1>8, <1>9, <1>10, <1>11,
     <1>12, <1>13, <1>14, <1>15, <1>16, <1>17, <1>18, <1>19, <1>20, <1>21,
     <1>22
     DEF Next, Main, MainStep, Environment

(***************************************************************************)
(* IInv is inductive; each property of the timer follows from it.          *)
(***************************************************************************)
LEMMA Invariance == Spec => []IInv
<1>1. Init => IInv
  BY TypeInit, ControlInit, TimerInit DEF IInv
<1>2. IInv /\ [Next]_vars => IInv'
  BY TypeStep, ControlStep, TimerStep DEF IInv
<1>3. QED BY <1>1, <1>2, PTL DEF Spec

(* The timer never reaches the wrap-around of its 16 bits. *)
THEOREM TimerSafe == Spec => []TimerNeverWraps
<1>1. IInv => TimerNeverWraps
  BY TimerInvBound
     DEF IInv, TimerNeverWraps, TimerInv, TimerFollows, InRoutine, Clearing
<1>2. QED BY Invariance, <1>1, PTL

(* At every pc but openClearLo, an unlocked bolt is within its deadline. *)
LEMMA DeadlineHolds == IInv => RelockDeadline
<1> SUFFICES ASSUME IInv, bolt = "unlocked", pc # "openClearLo"
             PROVE  elapsed < RelockTime + 2 * MaxLag + DOOR_RELAY_PULSE_MS
  BY DEF RelockDeadline
<1>1. pc # "closeClearLo"
  BY DEF IInv, ControlInv, RoutineState
<1>2. elapsed <= Value(system_timer)
  BY <1>1 DEF IInv, TimerInv, TimerFollows, Clearing
<1>3. TypeOK /\ TimerBound /\ RoutineState
  BY DEF IInv, TimerInv, ControlInv
<1>4. Value(system_timer) < RelockTime + 2 * MaxLag + DOOR_RELAY_PULSE_MS
  BY <1>1, <1>3, TypeFacts
     DEF TimerBound, RoutineState, Unchecked, Checked, RelockTime, Labels,
         Pulses
<1>5. RelockTime \in Nat
  BY DEF RelockTime
<1>6. QED BY <1>2, <1>3, <1>4, <1>5, TypeFacts

(* A door left unlocked is locked within the open time, two passes and a   *)
(* relay pulse, whatever the interrupt does to the loads and clears.       *)
THEOREM RelockSafe == Spec => []RelockDeadline
<1>1. QED BY Invariance, DeadlineHolds, PTL

(* A closing edge seen while unlocked has been acted upon by the end of    *)
(* the checks.                                                             *)
THEOREM EdgeSafe == Spec => []EdgeLocks
<1>1. IInv => EdgeLocks
  BY TypeFacts DEF IInv, TimerInv, EdgeBound, EdgeLocks
<1>2. QED BY Invariance, <1>1, PTL

(* A timeout is early by no more than the two torn accesses. *)
THEOREM TimeoutSafe == Spec => NoEarlyTimeout
<1>1. IInv /\ [Next]_vars
        => (TimeoutFires => elapsed + TearSlack >= DOOR_OPEN_TIME_MS)
  <2> SUFFICES ASSUME IInv, [Next]_vars, TimeoutFires
               PROVE  elapsed + TearSlack >= DOOR_OPEN_TIME_MS
    OBVIOUS
  <2>1. TypeOK /\ TimerFollows
    BY DEF IInv, TimerInv
  <2>2. TimeoutHi
    BY DEF TimeoutFires, Next, Main, MainStep, Environment, vars, mcu, Boot, Sense,
           PeriodicLo, PeriodicHi, EdgeCheck, CloseOn, TimeoutLo, ReceiveOpen,
           ReceiveClose, ReceiveOther, CommandsDone, CommandWaits, Preempt,
           Return, LinkChanges, OpenPulse, OpenRelease,
           CloseRelease, Release, CloseReturn, Service, Tick, HostSend,
           LinkLost, DoorMoves, Reset, Receive
  <2>3. Loaded >= DOOR_OPEN_TIME_MS
    BY <2>2 DEF TimeoutFires, TimeoutHi, LoadHi, Expired
  <2>4. Loaded <= Value(system_timer) + ByteValues - 1
    <3>1. system_timer.hi * ByteValues \in Nat
      BY <2>1, TypeFacts
    <3>2. QED BY <2>1, <3>1, TypeFacts DEF Loaded, Value
  <2>5. Value(system_timer) <= elapsed + ByteValues - 1 + MaxLag
    BY <2>1 DEF TimerFollows, TimeoutFires, Clearing
  <2>6. Loaded \in Nat
    BY <2>1, TypeFacts DEF Loaded
  <2>7. QED BY <2>1, <2>3, <2>4, <2>5, <2>6, TypeFacts DEF TearSlack
<1>2. QED BY Invariance, <1>1, PTL DEF Spec, NoEarlyTimeout

-----------------------------------------------------------------------------
(***************************************************************************)
(* The door controller implements DoorLock.                                *)
(***************************************************************************)
LEMMA LockModeValue ==
  /\ pc = "openClearLo" => LockMode = "granted"
  /\ pc # "openClearLo" /\ device_state = "UNLOCKED" => LockMode = "holding"
  /\ pc # "openClearLo" /\ device_state # "UNLOCKED" => LockMode = "resting"
BY DEF LockMode

LEMMA LockInit == Init => Lock!Init
<1> SUFFICES ASSUME Init PROVE Lock!Init
  OBVIOUS
<1>1. LockMode = "resting"
  BY LockModeValue DEF Init, PowerUp
<1>2. QED BY <1>1 DEF Init, PowerUp, Lock!Init

LEMMA LockStep == IInv /\ [Next]_vars => [Lock!Next]_(Lock!vars)
<1> SUFFICES ASSUME IInv, [Next]_vars PROVE [Lock!Next]_(Lock!vars)
  OBVIOUS
<1>t. TypeOK /\ RoutineState /\ TimerInv
  BY DEF IInv, ControlInv
<1>m. /\ pc' = "openClearLo" => LockMode' = "granted"
      /\ pc' # "openClearLo" /\ device_state' = "UNLOCKED"
           => LockMode' = "holding"
      /\ pc' # "openClearLo" /\ device_state' # "UNLOCKED"
           => LockMode' = "resting"
  BY DEF LockMode
(* A step that leaves the bolt, the clock and the queue alone, and starts  *)
(* or ends no routine that counts, is a stutter.                           *)
<1>s. ASSUME UNCHANGED <<device_state, bolt, elapsed, rx, torn>>,
             pc = "openClearLo" <=> pc' = "openClearLo"
      PROVE  UNCHANGED Lock!vars
  BY <1>s, <1>m, LockModeValue DEF Lock!vars
<1>1. CASE Boot
  BY <1>1, <1>s, <1>t DEF Boot, RoutineState
<1>2. CASE Sense
  BY <1>2, <1>s DEF Sense
<1>3. CASE PeriodicLo
  BY <1>3, <1>s DEF PeriodicLo, LoadLo
<1>4. CASE PeriodicHi
  BY <1>4, <1>s DEF PeriodicHi, LoadHi, BeginClose
<1>5. CASE EdgeCheck
  BY <1>5, <1>s DEF EdgeCheck, CloseOn, BeginClose
<1>6. CASE TimeoutLo
  BY <1>6, <1>s DEF TimeoutLo, LoadLo
<1>7. CASE TimeoutHi
  BY <1>7, <1>s DEF TimeoutHi, LoadHi, BeginClose
(* The three outcomes of a receive. *)
<1>r. ASSUME NEW c \in Command, Receive(c), UNCHANGED <<bolt, elapsed>>,
             LockMode # "granted",
             LockMode' = IF c = "D" THEN "granted" ELSE LockMode
      PROVE  Lock!Next
  <2>1. /\ torn' = FALSE
        /\ Lock!Obey(c)
    BY <1>r DEF Receive, Lock!Obey
  <2>2. CASE Waiting /\ c = Head(rx) /\ rx' = Tail(rx)
    <3>1. Lock!Take(c)
      BY <2>1, <2>2 DEF Waiting, Lock!Take
    <3>2. QED BY <3>1 DEF Lock!Next
  <2>3. CASE c = "other" /\ UNCHANGED rx
    <3>1. Lock!Pass
      BY <1>r, <2>1, <2>3 DEF Lock!Pass
    <3>2. QED BY <3>1 DEF Lock!Next
  <2>4. CASE torn /\ UNCHANGED rx
    <3>1. Lock!Misread(c)
      BY <1>t, <2>1, <2>4 DEF Lock!Misread, TypeOK
    <3>2. QED BY <3>1 DEF Lock!Next
  <2>5. QED BY <1>r, <2>2, <2>3, <2>4 DEF Receive
<1>8. CASE ReceiveOpen
  <2>1. /\ LockMode # "granted" /\ LockMode' = "granted"
        /\ Receive("D") /\ UNCHANGED <<bolt, elapsed>>
    BY <1>8, <1>m, LockModeValue DEF ReceiveOpen, Receive
  <2>2. QED BY <1>r, <2>1 DEF Command
<1>9. CASE ReceiveClose
  <2>1. /\ LockMode' = LockMode /\ LockMode # "granted"
        /\ Receive("d") /\ UNCHANGED <<bolt, elapsed>>
    BY <1>9, <1>m, LockModeValue DEF ReceiveClose, Receive, BeginClose
  <2>2. QED BY <1>r, <2>1 DEF Command
<1>10. CASE ReceiveOther
  <2>1. /\ LockMode' = LockMode /\ LockMode # "granted"
        /\ Receive("other") /\ UNCHANGED <<bolt, elapsed>>
    BY <1>10, <1>m, LockModeValue DEF ReceiveOther, Receive
  <2>2. QED BY <1>r, <2>1 DEF Command
<1>11. CASE CommandsDone \/ CommandWaits
  <2>1. LockMode' = LockMode
    BY <1>11, <1>m, LockModeValue DEF CommandsDone, CommandWaits
  <2>2. Lock!Pass
    BY <1>11, <2>1 DEF CommandsDone, CommandWaits, Lock!Pass
  <2>3. QED BY <2>2 DEF Lock!Next
<1>12. CASE OpenPulse
  <2>1. LockMode = "granted" /\ LockMode' = "holding"
    BY <1>12, <1>m, <1>t, LockModeValue DEF OpenPulse, RoutineState
  <2>2. Lock!Open
    BY <1>12, <2>1 DEF OpenPulse, Lock!Open
  <2>3. QED BY <2>2 DEF Lock!Next
<1>13. CASE OpenRelease
  BY <1>13, <1>s DEF OpenRelease
<1>14. CASE CloseRelease
  <2>1. LockMode # "granted" /\ LockMode' = "resting"
    BY <1>14, <1>m, <1>t, LockModeValue DEF CloseRelease, Release, TypeOK
  <2>2. Lock!Close
    BY <1>14, <2>1 DEF CloseRelease, Release, Lock!Close
  <2>3. QED BY <2>2 DEF Lock!Next
<1>15. CASE CloseReturn
  <2>1. LockMode' = LockMode
    BY <1>15, <1>m, <1>t, LockModeValue DEF CloseReturn, TypeOK
  <2>2. Lock!Settle
    BY <1>15, <1>t, <2>1 DEF CloseReturn, RoutineState, Lock!Settle
  <2>3. QED BY <2>2 DEF Lock!Next
<1>16. CASE Service
  BY <1>16, <1>s DEF Service
<1>17. CASE Tick
  <2>1. LockMode' = LockMode
    BY <1>17, <1>m, LockModeValue DEF Tick, mcu
  <2>2. bolt = "unlocked" => elapsed + 1 < Lock!Limit
    <3> SUFFICES ASSUME bolt = "unlocked" PROVE elapsed + 1 < Lock!Limit
      OBVIOUS
    <3>1. CASE pc = "openClearLo"
      <4>1. Lock!Limit = DOOR_CLOSE_TIME_MS + 2 * MaxLag
                           + DOOR_RELAY_PULSE_MS
        BY <3>1, LockModeValue DEF Lock!Limit
      <4>2. elapsed <= DOOR_CLOSE_TIME_MS - 1 + lag /\ lag < MaxLag
        BY <1>17, <1>t, <3>1
           DEF TimerInv, TimerFollows, Tick, InDelay, Pulses
      <4>3. QED BY <1>t, <4>1, <4>2, TypeFacts
    <3>2. CASE pc # "openClearLo"
      <4>1. Lock!Limit = RelockTime + 2 * MaxLag + DOOR_RELAY_PULSE_MS
        BY <3>2, LockModeValue DEF Lock!Limit, RelockTime
      <4>2. pc # "closeClearLo"
        BY <1>t DEF RoutineState
      <4>3. elapsed <= Value(system_timer)
        BY <1>t, <3>2, <4>2 DEF TimerInv, TimerFollows, Clearing
      <4>4. Value(system_timer) + 1
              < RelockTime + 2 * MaxLag + DOOR_RELAY_PULSE_MS
        BY <1>17, <1>t, <3>2, <4>2, TypeFacts
           DEF Tick, InDelay, Pulses, Labels, TimerInv, TimerBound,
               RoutineState, Unchecked, Checked, RelockTime
      <4>5. QED BY <1>t, <4>1, <4>3, <4>4, TypeFacts DEF RelockTime
    <3>3. QED BY <3>1, <3>2
  <2>3. Lock!Tick
    BY <1>17, <2>1, <2>2 DEF Tick, Lock!Tick
  <2>4. QED BY <2>3 DEF Lock!Next
<1>18. ASSUME NEW c \in Command, HostSend(c) PROVE Lock!Next
  <2>1. LockMode' = LockMode
    BY <1>18, <1>m, LockModeValue DEF HostSend, mcu
  <2>2. Lock!Send(c)
    BY <1>18, <2>1 DEF HostSend, Lock!Send
  <2>3. QED BY <2>2 DEF Lock!Next
<1>19. CASE LinkLost
  <2>1. LockMode' = LockMode
    BY <1>19, <1>m, LockModeValue DEF LinkLost, mcu
  <2>2. torn' \in {torn, TRUE}
    BY <1>19, <1>t DEF LinkLost, TypeOK
  <2>3. Lock!Lose
    BY <1>19, <2>1, <2>2 DEF LinkLost, Lock!Lose
  <2>4. QED BY <2>3 DEF Lock!Next
<1>20. CASE DoorMoves \/ LinkChanges \/ Preempt \/ Return
  BY <1>20, <1>s DEF DoorMoves, LinkChanges, Preempt, Return, mcu
<1>21. CASE Reset
  <2>1. LockMode' = "resting"
    BY <1>21, <1>m DEF Reset
  <2>2. Lock!Restart
    BY <1>21, <2>1 DEF Reset, Lock!Restart
  <2>3. QED BY <2>2 DEF Lock!Next
<1>22. CASE UNCHANGED vars
  BY <1>22, <1>s DEF vars, mcu
<1>23. QED
  BY <1>1, <1>2, <1>3, <1>4, <1>5, <1>6, <1>7, <1>8, <1>9, <1>10, <1>11,
     <1>12, <1>13, <1>14, <1>15, <1>16, <1>17, <1>18, <1>19, <1>20, <1>21,
     <1>22
     DEF Next, Main, MainStep, Environment

(* Every behaviour of the controller, read through LockMode, is one that   *)
(* DoorLock allows.                                                        *)
THEOREM Implementation == Spec => ImplementsLock
<1>1. QED BY LockInit, LockStep, Invariance, PTL DEF Spec, ImplementsLock,
                                                    Lock!Spec
=============================================================================
