----------------------------- MODULE GooseProofs -----------------------------
(***************************************************************************)
(* Theorems about Goose, for every value of its constants: the types, that *)
(* a state number goes with one state of the data, and, on a network that  *)
(* keeps the order, that the time allowed to live is enough and that a     *)
(* subscriber who has missed no message has the server's data.             *)
(***************************************************************************)
EXTENDS Goose, TLAPS

Times      == {MinTime * 3, MaxTime * 3}
Publishers == [stNum : 1..(MaxValue + 1), sqNum : 0..(SqNums - 1), timeAllowedToLive : Times]
Messages   == [stNum : 1..(MaxValue + 1), sqNum : 0..(SqNums - 1), value : 0..MaxValue,
               timeAllowedToLive : Times, late : BOOLEAN, past : BOOLEAN]
Hearings   == [stNum : 0..(MaxValue + 1), sqNum : 0..(SqNums - 1), value : 0..MaxValue,
               past : BOOLEAN]

ControlTypes ==
  /\ value \in 0..MaxValue
  /\ goEna \in BOOLEAN
  /\ publisher \in {NULL} \cup Publishers
  /\ retransmissionsLeft \in 0..Retransmissions
  /\ publishIn \in Nat
  /\ app \in {"idle", "updated", "triggering"}
  /\ worker \in {"idle", "publishing"}
  /\ disabling \in BOOLEAN /\ halted \in BOOLEAN

NetworkTypes ==
  /\ wire \in Seq(Messages) /\ Len(wire) <= WireSize
  /\ heard \in Hearings
  /\ stateValid \in BOOLEAN
  /\ liveFor \in -1..(3 * MaxTime)
  /\ disturbed \in BOOLEAN

(* The application is at most one state ahead of the publisher. *)
StatesCounted ==
  /\ app # "idle" => value >= 1
  /\ publisher # NULL => publisher.stNum <= value + (IF app = "idle" THEN 1 ELSE 0)

Types == ControlTypes /\ NetworkTypes /\ StatesCounted

LEMMA Constants ==
  /\ MinTime \in Nat /\ MinTime >= 1 /\ MaxTime \in Nat /\ MinTime <= MaxTime
  /\ SqNums \in Nat /\ SqNums >= 1
  /\ Retransmissions \in Nat /\ MaxValue \in Nat /\ SetBack \in Nat /\ WireSize \in Nat
  BY GooseAssumption, NetworkAssumption

LEMMA TimesAreLong ==
  ASSUME NEW t \in Times
  PROVE  /\ t \in Nat /\ t <= 3 * MaxTime /\ t >= MinTime * 3
  BY Constants DEF Times

LEMMA NullIsNoPublisher == NULL \notin Publishers
<1>1. ASSUME NEW p \in Publishers
      PROVE  p # NULL
  <2>1. "sqNum" \in DOMAIN p
    BY DEF Publishers
  <2>2. "sqNum" \notin DOMAIN NULL
    BY DEF NULL
  <2> QED  BY <2>1, <2>2
<1> QED  BY <1>1

-----------------------------------------------------------------------------
(* Publications *)

(* What a publication changes: one message more, of the publisher's state. *)
Published(m) ==
  /\ wire' = Append(wire, m)
  /\ m \in Messages
  /\ m.late = FALSE /\ m.past = FALSE /\ m.value = value
  /\ publisher' \in Publishers
  /\ m.stNum = publisher'.stNum
  /\ value' = value /\ goEna' = goEna
  /\ retransmissionsLeft' \in 0..Retransmissions
  /\ publishIn' \in Nat

LEMMA PublishTypes ==
  ASSUME ControlTypes, NEW p \in Publishers, NEW tal \in Times, Publish(p, tal)
  PROVE  /\ wire' = Append(wire, Message(p))
         /\ Message(p) \in Messages
         /\ Message(p).late = FALSE /\ Message(p).past = FALSE /\ Message(p).value = value
         /\ Message(p).stNum = p.stNum /\ Message(p).timeAllowedToLive = p.timeAllowedToLive
         /\ publisher' \in Publishers
         /\ publisher'.stNum = p.stNum /\ publisher'.timeAllowedToLive = tal
<1>1. (p.sqNum + 1) % SqNums \in 0..(SqNums - 1)
  BY Constants DEF Publishers
<1>2. publisher' = [p EXCEPT !.sqNum = (p.sqNum + 1) % SqNums, !.timeAllowedToLive = tal]
  BY DEF Publish
<1>3. publisher' \in Publishers /\ publisher'.stNum = p.stNum /\ publisher'.timeAllowedToLive = tal
  BY <1>1, <1>2 DEF Publishers
<1>4. Message(p) \in Messages
  BY DEF Message, Messages, Publishers, ControlTypes
<1> QED  BY <1>3, <1>4 DEF Publish, Message

LEMMA Increased ==
  ASSUME Types, app = "triggering", publisher # NULL, NEW tal \in Times
  PROVE  /\ [IncreasedStNum(publisher) EXCEPT !.timeAllowedToLive = tal] \in Publishers
         /\ [IncreasedStNum(publisher) EXCEPT !.timeAllowedToLive = tal].stNum = publisher.stNum + 1
         /\ [IncreasedStNum(publisher) EXCEPT !.timeAllowedToLive = tal].timeAllowedToLive = tal
<1>1. publisher \in Publishers /\ publisher.stNum <= value /\ value \in 0..MaxValue
  BY DEF Types, ControlTypes, StatesCounted
<1>2. publisher.stNum + 1 \in 1..(MaxValue + 1) /\ 0 \in 0..(SqNums - 1)
  BY <1>1, Constants DEF Publishers
<1>3. IncreasedStNum(publisher) = [publisher EXCEPT !.stNum = publisher.stNum + 1, !.sqNum = 0]
  BY DEF IncreasedStNum
<1> QED  BY <1>1, <1>2, <1>3 DEF Publishers

(* The application publishes: a new state, and the next message is not     *)
(* later than three times as long.                                         *)
LEMMA EventPublished ==
  ASSUME Types, ObservedObjectChanged
  PROVE  \E m \in Messages :
           /\ Published(m)
           /\ publisher # NULL /\ publisher'.stNum = publisher.stNum + 1
           /\ m.timeAllowedToLive >= publishIn'
           /\ app' = "idle"
           /\ publisher'.timeAllowedToLive \in Times
           /\ retransmissionsLeft' = 0 => publisher'.timeAllowedToLive = MaxTime * 3
<1> DEFINE interval == IF Retransmissions > 0 THEN MinTime ELSE MaxTime
           p == [IncreasedStNum(publisher) EXCEPT !.timeAllowedToLive = interval * 3]
<1>1. /\ interval \in Nat /\ interval * 3 >= interval /\ interval * 3 \in Times
      /\ Retransmissions = 0 => interval = MaxTime
  BY Constants DEF Times
<1>2. /\ app = "triggering" /\ publisher # NULL
      /\ publishIn' = interval /\ Publish(p, interval * 3)
      /\ retransmissionsLeft' = Retransmissions /\ app' = "idle"
      /\ value' = value /\ goEna' = goEna
  BY DEF ObservedObjectChanged
<1> HIDE DEF interval
<1>3. p \in Publishers /\ p.stNum = publisher.stNum + 1 /\ p.timeAllowedToLive = interval * 3
  BY <1>1, <1>2, Increased
<1> HIDE DEF p
<1>4. /\ wire' = Append(wire, Message(p)) /\ Message(p) \in Messages
      /\ Message(p).late = FALSE /\ Message(p).past = FALSE /\ Message(p).value = value
      /\ Message(p).stNum = p.stNum /\ Message(p).timeAllowedToLive = p.timeAllowedToLive
      /\ publisher' \in Publishers
      /\ publisher'.stNum = p.stNum /\ publisher'.timeAllowedToLive = interval * 3
  BY <1>1, <1>2, <1>3, PublishTypes DEF Types
<1>5. Published(Message(p))
  BY <1>1, <1>2, <1>4, Constants DEF Published
<1>6. /\ Message(p).timeAllowedToLive >= publishIn'
      /\ retransmissionsLeft' = 0 => publisher'.timeAllowedToLive = MaxTime * 3
  BY <1>1, <1>2, <1>3, <1>4
<1>7. publisher'.timeAllowedToLive \in Times /\ publisher'.stNum = publisher.stNum + 1
  BY <1>1, <1>3, <1>4
<1> QED  BY <1>2, <1>4, <1>5, <1>6, <1>7

(* The worker publishes the same state again. *)
LEMMA Retransmitted ==
  ASSUME Types, Retransmit
  PROVE  \E m \in Messages :
           /\ Published(m)
           /\ publisher # NULL /\ publisher'.stNum = publisher.stNum
           /\ m.timeAllowedToLive = publisher.timeAllowedToLive
           /\ publishIn' = IF retransmissionsLeft > 0 THEN MinTime ELSE MaxTime
           /\ app' = app
           /\ publisher'.timeAllowedToLive \in Times
           /\ retransmissionsLeft' = 0 => publisher'.timeAllowedToLive = MaxTime * 3
<1>1. /\ publisher \in Publishers /\ retransmissionsLeft \in 0..Retransmissions
  BY DEF Retransmit, Types, ControlTypes
<1>2. TimeAllowed \in Times
  BY DEF TimeAllowed, Times
<1>3. /\ Publish(publisher, TimeAllowed) /\ publisher # NULL
      /\ publishIn' = IF retransmissionsLeft > 0 THEN MinTime ELSE MaxTime
      /\ retransmissionsLeft' = CountedDown
      /\ app' = app /\ value' = value /\ goEna' = goEna
  BY DEF Retransmit
<1>4. /\ wire' = Append(wire, Message(publisher)) /\ Message(publisher) \in Messages
      /\ Message(publisher).late = FALSE /\ Message(publisher).past = FALSE
      /\ Message(publisher).value = value
      /\ Message(publisher).stNum = publisher.stNum
      /\ Message(publisher).timeAllowedToLive = publisher.timeAllowedToLive
      /\ publisher' \in Publishers
      /\ publisher'.stNum = publisher.stNum /\ publisher'.timeAllowedToLive = TimeAllowed
  BY <1>1, <1>2, <1>3, PublishTypes DEF Types
<1>5. /\ retransmissionsLeft' \in 0..Retransmissions /\ publishIn' \in Nat
      /\ retransmissionsLeft' = 0 => TimeAllowed = MaxTime * 3
  BY <1>1, <1>3, Constants DEF CountedDown, TimeAllowed
<1>6. Published(Message(publisher))
  BY <1>3, <1>4, <1>5 DEF Published
<1> QED  BY <1>2, <1>3, <1>4, <1>5, <1>6

-----------------------------------------------------------------------------
(* What the other steps of the server change. *)

Enabled ==
  /\ ~goEna /\ goEna' = TRUE
  /\ publisher' \in Publishers /\ publisher'.stNum = 1
  /\ publisher'.timeAllowedToLive = MaxTime * 3
  /\ wire' = [i \in DOMAIN wire |-> [wire[i] EXCEPT !.past = TRUE]]
  /\ UNCHANGED <<value, retransmissionsLeft, publishIn, threads>>

LEMMA EnableEnables ==
  ASSUME Types, Enable
  PROVE  Enabled
  BY Constants DEF Enable, Enabled, Publishers, Times

(* The steps that publish nothing and enable nothing. *)
Quiet ==
  /\ wire' = wire
  /\ value' \in 0..MaxValue /\ publisher' \in {publisher, NULL}
  /\ retransmissionsLeft' = retransmissionsLeft
  /\ publishIn' = publishIn \/ (ClockSetBack /\ publishIn' = MinTime)
  /\ goEna' = goEna \/ goEna' = FALSE
  /\ \/ value' = value /\ app' = app
     \/ app = "idle" /\ value' = value + 1 /\ app' = "updated"
     \/ app = "updated" /\ value' = value /\ goEna /\ app' = "triggering"
     \/ app = "updated" /\ value' = value /\ ~goEna /\ app' = "idle" /\ goEna' = FALSE

LEMMA ServerParts ==
  ASSUME Types, NextControl
  PROVE  \/ ObservedObjectChanged \/ Retransmit
         \/ Enabled
         \/ Quiet
<1> USE Constants DEF Types, ControlTypes, Quiet
<1>1. CASE UpdateValue
  BY <1>1 DEF UpdateValue, control
<1>2. CASE AppStep
  BY <1>2 DEF AppStep, TriggerObservers, ObservedWithoutPublisher, Halt, control
<1>3. CASE WorkerStep
  BY <1>3 DEF WorkerStep, CheckTime, RepairTime, RetransmitWithoutPublisher, Halt, control, threads
<1>4. CASE ClientStep
  BY <1>4, EnableEnables DEF ClientStep, Disable, DestroyPublisher
<1> QED  BY <1>1, <1>2, <1>3, <1>4 DEF NextControl

LEMMA ThreadTypes ==
  ASSUME Types, NextControl
  PROVE  /\ app' \in {"idle", "updated", "triggering"}
         /\ worker' \in {"idle", "publishing"}
         /\ disabling' \in BOOLEAN /\ halted' \in BOOLEAN
<1> USE DEF Types, ControlTypes
<1>1. CASE UpdateValue
  BY <1>1 DEF UpdateValue
<1>2. CASE AppStep
  BY <1>2 DEF AppStep, TriggerObservers, ObservedObjectChanged, ObservedWithoutPublisher, Halt
<1>3. CASE WorkerStep
  BY <1>3 DEF WorkerStep, CheckTime, RepairTime, Retransmit, RetransmitWithoutPublisher, Halt,
              threads
<1>4. CASE ClientStep
  BY <1>4 DEF ClientStep, Enable, Disable, DestroyPublisher, threads
<1> QED  BY <1>1, <1>2, <1>3, <1>4 DEF NextControl

-----------------------------------------------------------------------------
(* The messages that a step leaves in the network. *)

LEMMA Marked ==
  ASSUME NEW m \in Messages
  PROVE  [m EXCEPT !.past = TRUE] \in Messages /\ [m EXCEPT !.late = TRUE] \in Messages
  BY DEF Messages

LEMMA MessagesPast ==
  ASSUME wire \in Seq(Messages), wire' = [i \in DOMAIN wire |-> [wire[i] EXCEPT !.past = TRUE]]
  PROVE  /\ wire' \in Seq(Messages) /\ Len(wire') = Len(wire) /\ DOMAIN wire' = DOMAIN wire
         /\ \A i \in DOMAIN wire :
              /\ wire'[i].past = TRUE
              /\ wire'[i].stNum = wire[i].stNum /\ wire'[i].sqNum = wire[i].sqNum
              /\ wire'[i].timeAllowedToLive = wire[i].timeAllowedToLive
              /\ wire'[i].late = wire[i].late
<1>0. \A i \in 1..Len(wire) : wire[i] \in Messages
  OBVIOUS
<1>1. \A i \in 1..Len(wire) : [wire[i] EXCEPT !.past = TRUE] \in Messages
  BY <1>0, Marked
<1>2. DOMAIN wire = 1..Len(wire) /\ Len(wire) \in Nat
  OBVIOUS
<1>3. wire' \in [1..Len(wire) -> Messages]
  BY <1>1, <1>2
<1>4. wire' \in Seq(Messages) /\ Len(wire') = Len(wire)
  BY <1>2, <1>3
<1> QED  BY <1>0, <1>2, <1>4 DEF Messages

LEMMA MessageAppended ==
  ASSUME wire \in Seq(Messages), NEW m \in Messages, wire' = Append(wire, m)
  PROVE  /\ wire' \in Seq(Messages) /\ Len(wire') = Len(wire) + 1
         /\ \A i \in DOMAIN wire : i \in DOMAIN wire' /\ wire'[i] = wire[i]
         /\ \A i \in DOMAIN wire' : i \in DOMAIN wire \/ (i = Len(wire') /\ wire'[i] = m)
  OBVIOUS

LEMMA MessageTaken ==
  ASSUME wire \in Seq(Messages), NEW i \in DOMAIN wire
  PROVE  /\ Without(i) \in Seq(Messages) /\ Len(Without(i)) = Len(wire) - 1
         /\ \A j \in DOMAIN Without(i) :
              Without(i)[j] = wire[IF j < i THEN j ELSE j + 1]
<1>1. Len(wire) - 1 \in Nat /\ i \in 1..Len(wire)
  OBVIOUS
<1>2. \A j \in 1..(Len(wire) - 1) : (IF j < i THEN j ELSE j + 1) \in 1..Len(wire)
  BY <1>1
<1>3. Without(i) \in [1..(Len(wire) - 1) -> Messages]
  BY <1>1, <1>2 DEF Without
<1> QED  BY <1>1, <1>3 DEF Without

LEMMA MessagesLate ==
  ASSUME NEW w \in Seq(Messages), NEW i \in Int
  PROVE  /\ Overtaken(w, i) \in Seq(Messages) /\ Len(Overtaken(w, i)) = Len(w)
         /\ \A j \in DOMAIN w :
              /\ Overtaken(w, i)[j].late = (w[j].late \/ j < i)
              /\ Overtaken(w, i)[j].stNum = w[j].stNum /\ Overtaken(w, i)[j].sqNum = w[j].sqNum
              /\ Overtaken(w, i)[j].value = w[j].value /\ Overtaken(w, i)[j].past = w[j].past
              /\ Overtaken(w, i)[j].timeAllowedToLive = w[j].timeAllowedToLive
<1>0. \A j \in 1..Len(w) : w[j] \in Messages
  OBVIOUS
<1>1. \A j \in 1..Len(w) : [w[j] EXCEPT !.late = TRUE] \in Messages
  BY <1>0, Marked
<1>2. DOMAIN w = 1..Len(w) /\ Len(w) \in Nat
  OBVIOUS
<1>3. Overtaken(w, i) \in [1..Len(w) -> Messages]
  BY <1>0, <1>1, <1>2 DEF Overtaken
<1>4. Overtaken(w, i) \in Seq(Messages) /\ Len(Overtaken(w, i)) = Len(w)
  BY <1>2, <1>3
<1>5. ASSUME NEW j \in DOMAIN w
      PROVE  /\ Overtaken(w, i)[j].late = (w[j].late \/ j < i)
             /\ Overtaken(w, i)[j].stNum = w[j].stNum /\ Overtaken(w, i)[j].sqNum = w[j].sqNum
             /\ Overtaken(w, i)[j].value = w[j].value /\ Overtaken(w, i)[j].past = w[j].past
             /\ Overtaken(w, i)[j].timeAllowedToLive = w[j].timeAllowedToLive
  <2>1. Overtaken(w, i)[j] = IF j < i THEN [w[j] EXCEPT !.late = TRUE] ELSE w[j]
    BY DEF Overtaken
  <2>2. w[j] \in Messages
    BY <1>0, <1>2
  <2>3. CASE j < i
    BY <2>1, <2>2, <2>3 DEF Messages
  <2>4. CASE ~(j < i)
    BY <2>1, <2>2, <2>4 DEF Messages
  <2> QED  BY <2>3, <2>4
<1> QED  BY <1>4, <1>5

-----------------------------------------------------------------------------
(* The types *)

LEMMA InitTypes ==
  ASSUME Init
  PROVE  Types
<1>1. ControlTypes
  <2>1. /\ value = 0 /\ goEna = FALSE /\ publisher = NULL /\ retransmissionsLeft = 0
        /\ publishIn = 0 /\ app = "idle" /\ worker = "idle"
        /\ disabling = FALSE /\ halted = FALSE
    BY DEF Init, InitControl
  <2>2. 0 \in 0..MaxValue /\ 0 \in 0..Retransmissions
    BY Constants
  <2> QED  BY <2>1, <2>2 DEF ControlTypes
<1>2. heard \in Hearings
  <2>1. heard = [stNum |-> 0, sqNum |-> 0, value |-> 0, past |-> TRUE]
    BY DEF Init, Sub!InitSubscriber
  <2>2. 0 \in 0..(MaxValue + 1) /\ 0 \in 0..(SqNums - 1) /\ 0 \in 0..MaxValue
    BY Constants
  <2> QED  BY <2>1, <2>2 DEF Hearings
<1>3. wire \in Seq(Messages) /\ Len(wire) <= WireSize
  BY Constants DEF Init, InitControl
<1>4. stateValid \in BOOLEAN /\ liveFor \in -1..(3 * MaxTime) /\ disturbed \in BOOLEAN
  <2>1. stateValid = FALSE /\ liveFor = -1 /\ disturbed = TRUE
    BY DEF Init, Sub!InitSubscriber
  <2>2. -1 \in -1..(3 * MaxTime)
    BY Constants
  <2> QED  BY <2>1, <2>2
<1>5. StatesCounted
  BY DEF Init, InitControl, StatesCounted
<1> QED  BY <1>1, <1>2, <1>3, <1>4, <1>5 DEF Types, NetworkTypes

LEMMA PastHearing ==
  ASSUME NEW h \in Hearings
  PROVE  [h EXCEPT !.past = TRUE] \in Hearings
  BY DEF Hearings

LEMMA ServerTypes ==
  ASSUME Types, Server
  PROVE  Types'
<1>1. NextControl /\ Len(wire') <= WireSize /\ heard \in Hearings
  BY DEF Server, AroundServer, Types, NetworkTypes
<1>2. heard' \in Hearings /\ disturbed' \in BOOLEAN
  BY <1>1, PastHearing DEF Server, AroundServer, Types, NetworkTypes
<1>3. stateValid' \in BOOLEAN /\ liveFor' \in -1..(3 * MaxTime)
  BY DEF Server, AroundServer, Types, NetworkTypes
<1>4. wire \in Seq(Messages)
  BY DEF Types, NetworkTypes
<1>5. CASE ObservedObjectChanged
  <2>1. PICK m \in Messages : /\ Published(m) /\ publisher # NULL
                              /\ publisher'.stNum = publisher.stNum + 1 /\ app' = "idle"
    BY <1>5, EventPublished
  <2>2. wire' \in Seq(Messages)
    BY <1>4, <2>1, MessageAppended DEF Published
  <2>3. ControlTypes'
    BY <1>1, <2>1, ThreadTypes DEF Published, ControlTypes, Types
  <2>4. app = "triggering"
    BY <1>5 DEF ObservedObjectChanged
  <2>5. publisher \in Publishers /\ value \in Nat
    BY <2>1 DEF Types, ControlTypes
  <2>6. StatesCounted'
    BY <2>1, <2>4, <2>5 DEF StatesCounted, Types, Published, Publishers
  <2> QED  BY <1>1, <1>2, <1>3, <2>2, <2>3, <2>6 DEF Types, NetworkTypes
<1>6. CASE Retransmit
  <2>1. PICK m \in Messages : /\ Published(m) /\ publisher # NULL
                              /\ publisher'.stNum = publisher.stNum /\ app' = app
    BY <1>6, Retransmitted
  <2>2. wire' \in Seq(Messages)
    BY <1>4, <2>1, MessageAppended DEF Published
  <2>3. ControlTypes'
    BY <1>1, <2>1, ThreadTypes DEF Published, ControlTypes, Types
  <2>4. StatesCounted'
    BY <2>1 DEF StatesCounted, Types, Published
  <2> QED  BY <1>1, <1>2, <1>3, <2>2, <2>3, <2>4 DEF Types, NetworkTypes
<1>7. CASE Enabled
  <2>1. wire' \in Seq(Messages)
    BY <1>4, <1>7, MessagesPast DEF Enabled
  <2>2. ControlTypes'
    BY <1>1, <1>7, ThreadTypes DEF Enabled, ControlTypes, Types
  <2>3. value \in Nat /\ app' = app /\ value' = value /\ publisher'.stNum = 1
    BY <1>7 DEF Enabled, Types, ControlTypes, threads
  <2>4. StatesCounted'
    BY <2>3 DEF StatesCounted, Types
  <2> QED  BY <1>1, <1>2, <1>3, <2>1, <2>2, <2>4 DEF Types, NetworkTypes
<1>8. CASE Quiet
  <2>1. ControlTypes'
    BY <1>1, <1>8, ThreadTypes, Constants DEF Quiet, ControlTypes, Types
  <2>2. value \in Nat /\ (publisher # NULL => publisher \in Publishers)
    BY DEF Types, ControlTypes
  <2>3. publisher # NULL => publisher.stNum \in Nat
    BY <2>2, Constants DEF Publishers
  <2>4. StatesCounted'
    BY <1>8, <2>2, <2>3 DEF Quiet, StatesCounted, Types
  <2> QED  BY <1>1, <1>2, <1>3, <1>4, <1>8, <2>1, <2>4 DEF Types, NetworkTypes, Quiet
<1> QED  BY <1>1, <1>5, <1>6, <1>7, <1>8, ServerParts

LEMMA Received ==
  ASSUME Types, NEW m \in Messages, Sub!Receive(m)
  PROVE  /\ heard' \in Hearings /\ stateValid' \in BOOLEAN /\ liveFor' \in -1..(3 * MaxTime)
         /\ heard'.stNum = m.stNum /\ heard'.sqNum = m.sqNum /\ heard'.value = m.value
         /\ heard'.past = m.past /\ liveFor' = m.timeAllowedToLive
         /\ liveFor' >= 3 * MinTime
<1>1. m.timeAllowedToLive \in Times /\ liveFor' = m.timeAllowedToLive
  BY DEF Messages, Sub!Receive
<1>2. liveFor' \in -1..(3 * MaxTime) /\ liveFor' >= 3 * MinTime
  BY <1>1, TimesAreLong, Constants
<1>3. heard' = [stNum |-> m.stNum, sqNum |-> m.sqNum, value |-> m.value, past |-> m.past]
  BY DEF Sub!Receive
<1>4. heard' \in Hearings
  BY <1>3, Constants DEF Messages, Hearings
<1> QED  BY <1>1, <1>2, <1>3, <1>4 DEF Sub!Receive

(* The messages that are left when one is taken or copied out of the       *)
(* network were there before, at most one place further on.                *)
Left(i) ==
  /\ wire' \in Seq(Messages) /\ Len(wire') <= Len(wire)
  /\ \A j \in DOMAIN wire' : \E k \in DOMAIN wire :
       /\ wire'[j].stNum = wire[k].stNum /\ wire'[j].sqNum = wire[k].sqNum
       /\ wire'[j].value = wire[k].value /\ wire'[j].past = wire[k].past
       /\ wire'[j].timeAllowedToLive = wire[k].timeAllowedToLive

LEMMA ArriveLeaves ==
  ASSUME Types, NEW i \in DOMAIN wire, Arrive(i)
  PROVE  Left(i)
<1>1. wire \in Seq(Messages) /\ wire' = Overtaken(Without(i), i) /\ i \in Int
  BY DEF Types, NetworkTypes, Arrive
<1>2. /\ Without(i) \in Seq(Messages) /\ Len(Without(i)) = Len(wire) - 1
      /\ \A j \in DOMAIN Without(i) : Without(i)[j] = wire[IF j < i THEN j ELSE j + 1]
  BY <1>1, MessageTaken
<1>3. wire' \in Seq(Messages) /\ Len(wire') = Len(wire) - 1
  BY <1>1, <1>2, MessagesLate
<1>4. ASSUME NEW j \in DOMAIN wire'
      PROVE  \E k \in DOMAIN wire :
               /\ wire'[j].stNum = wire[k].stNum /\ wire'[j].sqNum = wire[k].sqNum
               /\ wire'[j].value = wire[k].value /\ wire'[j].past = wire[k].past
               /\ wire'[j].timeAllowedToLive = wire[k].timeAllowedToLive
  <2>1. j \in DOMAIN Without(i)
    BY <1>2, <1>3
  <2>2. (IF j < i THEN j ELSE j + 1) \in DOMAIN wire
    BY <1>1, <1>3
  <2>3. /\ wire'[j].stNum = Without(i)[j].stNum /\ wire'[j].sqNum = Without(i)[j].sqNum
        /\ wire'[j].value = Without(i)[j].value /\ wire'[j].past = Without(i)[j].past
        /\ wire'[j].timeAllowedToLive = Without(i)[j].timeAllowedToLive
    BY <1>1, <1>2, <2>1, MessagesLate
  <2> QED  BY <1>2, <2>1, <2>2, <2>3
<1>5. Len(wire) \in Nat
  BY <1>1
<1> QED  BY <1>3, <1>4, <1>5 DEF Left

LEMMA CopyLeaves ==
  ASSUME Types, NEW i \in DOMAIN wire, ArriveTwice(i)
  PROVE  Left(i) /\ Len(wire') = Len(wire)
<1>1. wire \in Seq(Messages) /\ wire' = Overtaken(wire, i + 1) /\ i + 1 \in Int
  BY DEF Types, NetworkTypes, ArriveTwice
<1>2. /\ wire' \in Seq(Messages) /\ Len(wire') = Len(wire)
      /\ \A j \in DOMAIN wire :
              /\ wire'[j].stNum = wire[j].stNum /\ wire'[j].sqNum = wire[j].sqNum
              /\ wire'[j].value = wire[j].value /\ wire'[j].past = wire[j].past
              /\ wire'[j].timeAllowedToLive = wire[j].timeAllowedToLive
  BY <1>1, MessagesLate
<1>3. DOMAIN wire' = DOMAIN wire /\ Len(wire) \in Nat
  BY <1>1, <1>2
<1> QED  BY <1>2, <1>3 DEF Left

LEMMA LoseLeaves ==
  ASSUME Types, NEW i \in DOMAIN wire, Lose(i)
  PROVE  Left(i)
<1>1. wire \in Seq(Messages) /\ wire' = Without(i)
  BY DEF Types, NetworkTypes, Lose
<1>2. /\ wire' \in Seq(Messages) /\ Len(wire') = Len(wire) - 1
      /\ \A j \in DOMAIN wire' : wire'[j] = wire[IF j < i THEN j ELSE j + 1]
  BY <1>1, MessageTaken
<1>3. \A j \in DOMAIN wire' : (IF j < i THEN j ELSE j + 1) \in DOMAIN wire
  BY <1>1, <1>2
<1>4. Len(wire) \in Nat
  BY <1>1
<1> QED  BY <1>2, <1>3, <1>4 DEF Left

LEMMA ServerKept ==
  ASSUME Types, UNCHANGED server
  PROVE  ControlTypes' /\ StatesCounted'
  BY DEF Types, ControlTypes, StatesCounted, server, control, threads

LEMMA NextTypes ==
  ASSUME Types, [Next]_vars
  PROVE  Types'
<1>1. ASSUME NEW i \in DOMAIN wire, Arrive(i)
      PROVE  Types'
  <2>1. wire[i] \in Messages /\ disturbed' = FALSE /\ UNCHANGED server /\ Sub!Receive(wire[i])
    BY <1>1 DEF Types, NetworkTypes, Arrive
  <2>2. Len(wire) <= WireSize /\ Len(wire) \in Nat
    BY DEF Types, NetworkTypes
  <2>3. Len(wire') <= WireSize /\ wire' \in Seq(Messages)
    BY <1>1, <2>2, ArriveLeaves, Constants DEF Left
  <2> QED  BY <2>1, <2>3, Received, ServerKept DEF Types, NetworkTypes
<1>2. ASSUME NEW i \in DOMAIN wire, ArriveTwice(i)
      PROVE  Types'
  <2>1. wire[i] \in Messages /\ disturbed' = FALSE /\ UNCHANGED server /\ Sub!Receive(wire[i])
    BY <1>2 DEF Types, NetworkTypes, ArriveTwice
  <2>2. Len(wire) <= WireSize /\ Len(wire) \in Nat
    BY DEF Types, NetworkTypes
  <2> QED  BY <1>2, <2>1, <2>2, CopyLeaves, Received, ServerKept, Constants DEF Types, NetworkTypes, Left
<1>3. ASSUME NEW i \in DOMAIN wire, Lose(i)
      PROVE  Types'
  <2>1. disturbed' = TRUE /\ UNCHANGED server /\ UNCHANGED <<heard, stateValid, liveFor>>
    BY <1>3 DEF Lose
  <2>2. Len(wire) <= WireSize /\ Len(wire) \in Nat /\ Left(i)
    BY <1>3, LoseLeaves DEF Types, NetworkTypes
  <2>3. Len(wire') <= WireSize /\ wire' \in Seq(Messages)
    BY <2>2, Constants DEF Left
  <2> QED  BY <2>1, <2>3, ServerKept DEF Types, NetworkTypes
<1>4. CASE Server
  BY <1>4, ServerTypes
<1>5. CASE Tick
  <2>1. ControlTypes' /\ StatesCounted'
    BY <1>5 DEF Tick, Types, ControlTypes, StatesCounted, threads
  <2>2. NetworkTypes'
    BY <1>5, Constants DEF Tick, Types, NetworkTypes
  <2> QED  BY <2>1, <2>2 DEF Types
<1>6. CASE SetClockBack
  <2>1. PICK d \in 1..SetBack : publishIn' = publishIn + d
    BY <1>6 DEF SetClockBack
  <2>2. ControlTypes' /\ StatesCounted'
    BY <1>6, <2>1, Constants DEF SetClockBack, Types, ControlTypes, StatesCounted, threads
  <2>3. NetworkTypes'
    BY <1>6, Constants DEF SetClockBack, Types, NetworkTypes
  <2> QED  BY <2>2, <2>3 DEF Types
<1>7. CASE UNCHANGED vars
  BY <1>7 DEF vars, control, threads, Types, ControlTypes, NetworkTypes, StatesCounted
<1> QED  BY <1>1, <1>2, <1>3, <1>4, <1>5, <1>6, <1>7 DEF Next, Deliver

LEMMA TypesImplyTypeOK == Types => TypeOK
<1>1. ASSUME Types PROVE TypeOKControl
  <2>1. publisher = NULL \/ publisher \in Publishers
    BY <1>1 DEF Types, ControlTypes
  <2> QED  BY <1>1, <2>1, Constants DEF Types, ControlTypes, TypeOKControl, Publishers, Times
<1>2. ASSUME Types PROVE heard.stNum \in 0..(MaxValue + 1) /\ heard.value \in 0..MaxValue
  BY <1>2 DEF Types, NetworkTypes, Hearings
<1> QED  BY <1>1, <1>2 DEF TypeOK, Types, NetworkTypes

(* The variables keep their types and their bounds: the publisher's state  *)
(* number is at most one ahead of the number of changes, the count of      *)
(* quick repetitions never falls below zero (checkAndPublish), and each    *)
(* message allows one of the two times of the control block.               *)
THEOREM GooseTypes == Spec => []TypeOK
<1>1. Init => Types
  BY InitTypes
<1>2. Types /\ [Next]_vars => Types'
  BY NextTypes
<1> QED  BY <1>1, <1>2, TypesImplyTypeOK, PTL DEF Spec

-----------------------------------------------------------------------------
(* A state number goes with one state of the data *)

(* What has been heard, or is on its way, since the control block was      *)
(* enabled is not newer than the publisher; and what has the publisher's   *)
(* state number has the data, unless the application is about to take the  *)
(* next number.                                                            *)
HeardAgrees ==
  (goEna /\ publisher # NULL /\ ~heard.past) =>
    /\ heard.stNum <= publisher.stNum
    /\ (app = "idle" /\ heard.stNum = publisher.stNum) => heard.value = value

MessageAgrees(i) ==
  (goEna /\ publisher # NULL /\ ~wire[i].past) =>
    /\ wire[i].stNum <= publisher.stNum
    /\ (app = "idle" /\ wire[i].stNum = publisher.stNum) => wire[i].value = value

Agree == HeardAgrees /\ \A i \in DOMAIN wire : MessageAgrees(i)

(* The next state number is taken only by an application that is not idle. *)
LEMMA OlderStaysOlder ==
  ASSUME Types, NextControl, ~Enabled, goEna', publisher' # NULL
  PROVE  /\ goEna /\ publisher # NULL
         /\ publisher.stNum \in Nat /\ publisher'.stNum \in Nat
         /\ \/ publisher'.stNum = publisher.stNum + 1
            \/ /\ publisher'.stNum = publisher.stNum
               /\ app' = "idle" => app = "idle" /\ value' = value
<1>1. CASE ObservedObjectChanged
  <2>1. PICK m \in Messages : Published(m) /\ publisher # NULL
                              /\ publisher'.stNum = publisher.stNum + 1
    BY <1>1, EventPublished
  <2> QED  BY <2>1, Constants DEF Published, Publishers, Types, ControlTypes
<1>2. CASE Retransmit
  <2>1. PICK m \in Messages : Published(m) /\ publisher # NULL /\ app' = app
                              /\ publisher'.stNum = publisher.stNum
    BY <1>2, Retransmitted
  <2> QED  BY <2>1, Constants DEF Published, Publishers, Types, ControlTypes
<1>3. CASE Quiet
  <2>1. goEna /\ publisher' = publisher /\ publisher # NULL
    BY <1>3 DEF Quiet, Types, ControlTypes
  <2>2. publisher.stNum \in Nat
    BY <2>1, Constants DEF Types, ControlTypes, Publishers
  <2>3. app' = "idle" => app = "idle" /\ value' = value
    BY <1>3, <2>1 DEF Quiet
  <2> QED  BY <2>1, <2>2, <2>3
<1> QED  BY <1>1, <1>2, <1>3, ServerParts

LEMMA ServerAgrees ==
  ASSUME Types, Agree, Server
  PROVE  Agree'
<1>1. NextControl /\ wire \in Seq(Messages) /\ heard \in Hearings
  BY DEF Server, Types, NetworkTypes
<1>2. CASE Enabled
  <2>1. \A i \in DOMAIN wire' : wire'[i].past
    BY <1>1, <1>2, MessagesPast DEF Enabled
  <2>2. heard'.past
    BY <1>1, <1>2 DEF Enabled, Server, AroundServer, Hearings
  <2> QED  BY <2>1, <2>2 DEF Agree, HeardAgrees, MessageAgrees
<1>3. CASE ~Enabled /\ goEna' /\ publisher' # NULL
  <2>1. /\ goEna /\ publisher # NULL
        /\ publisher.stNum \in Nat /\ publisher'.stNum \in Nat
        /\ \/ publisher'.stNum = publisher.stNum + 1
           \/ /\ publisher'.stNum = publisher.stNum
              /\ app' = "idle" => app = "idle" /\ value' = value
    BY <1>1, <1>3, OlderStaysOlder
  <2>2. heard' = heard /\ heard.stNum \in Nat
    BY <1>1, <2>1, Constants DEF Server, AroundServer, Hearings
  <2>3. HeardAgrees'
    BY <2>1, <2>2 DEF Agree, HeardAgrees
  <2>4. ASSUME NEW i \in DOMAIN wire, wire'[i] = wire[i]
        PROVE  MessageAgrees(i)'
    <3>1. wire[i] \in Messages
      BY <1>1
    <3>2. wire[i].stNum \in Nat
      BY <3>1, Constants DEF Messages
    <3> QED  BY <2>1, <2>4, <3>2 DEF Agree, MessageAgrees
  <2>5. ASSUME NEW m \in Messages, Published(m)
        PROVE  \A i \in DOMAIN wire' : MessageAgrees(i)'
    <3>1. /\ \A i \in DOMAIN wire : wire'[i] = wire[i]
          /\ \A i \in DOMAIN wire' : i \in DOMAIN wire \/ wire'[i] = m
      BY <1>1, <2>5, MessageAppended DEF Published
    <3>2. m.stNum = publisher'.stNum /\ m.value = value'
      BY <2>5 DEF Published
    <3>3. ASSUME NEW i \in DOMAIN wire', wire'[i] = m
          PROVE  MessageAgrees(i)'
      BY <2>1, <3>2, <3>3 DEF MessageAgrees
    <3> QED  BY <2>4, <3>1, <3>3
  <2>6. \A i \in DOMAIN wire' : MessageAgrees(i)'
    <3>1. CASE ObservedObjectChanged
      BY <2>5, <3>1, EventPublished
    <3>2. CASE Retransmit
      BY <2>5, <3>2, Retransmitted
    <3>3. CASE Quiet
      BY <2>4, <3>3 DEF Quiet
    <3> QED  BY <1>1, <1>3, <3>1, <3>2, <3>3, ServerParts
  <2> QED  BY <2>3, <2>6 DEF Agree
<1>4. CASE ~goEna' \/ publisher' = NULL
  BY <1>4 DEF Agree, HeardAgrees, MessageAgrees
<1> QED  BY <1>2, <1>3, <1>4

LEMMA ArrivalAgrees ==
  ASSUME Types, Agree, NEW i \in DOMAIN wire, Left(i), UNCHANGED server,
         heard' = heard \/ Sub!Receive(wire[i])
  PROVE  Agree'
<1>1. wire[i] \in Messages
  BY DEF Types, NetworkTypes
<1>2. UNCHANGED <<value, goEna, publisher, app>>
  BY DEF server, control, threads
<1>3. HeardAgrees'
  <2>1. CASE heard' = heard
    BY <1>2, <2>1 DEF Agree, HeardAgrees
  <2>2. CASE Sub!Receive(wire[i])
    <3>1. heard'.stNum = wire[i].stNum /\ heard'.value = wire[i].value /\ heard'.past = wire[i].past
      BY <1>1, <2>2, Received
    <3> QED  BY <1>2, <3>1 DEF Agree, HeardAgrees, MessageAgrees
  <2> QED  BY <2>1, <2>2
<1>4. ASSUME NEW j \in DOMAIN wire'
      PROVE  MessageAgrees(j)'
  <2>1. PICK k \in DOMAIN wire :
          wire'[j].stNum = wire[k].stNum /\ wire'[j].value = wire[k].value
          /\ wire'[j].past = wire[k].past
    BY DEF Left
  <2> QED  BY <1>2, <2>1 DEF Agree, MessageAgrees
<1> QED  BY <1>3, <1>4 DEF Agree

LEMMA NextAgrees ==
  ASSUME Types, Agree, [Next]_vars
  PROVE  Agree'
<1>1. ASSUME NEW i \in DOMAIN wire, Arrive(i)
      PROVE  Agree'
  BY <1>1, ArriveLeaves, ArrivalAgrees DEF Arrive
<1>2. ASSUME NEW i \in DOMAIN wire, ArriveTwice(i)
      PROVE  Agree'
  BY <1>2, CopyLeaves, ArrivalAgrees DEF ArriveTwice
<1>3. ASSUME NEW i \in DOMAIN wire, Lose(i)
      PROVE  Agree'
  BY <1>3, LoseLeaves, ArrivalAgrees DEF Lose
<1>4. CASE Server
  BY <1>4, ServerAgrees
<1>5. CASE Tick \/ SetClockBack \/ UNCHANGED vars
  <2>1. UNCHANGED <<value, goEna, publisher, app, wire, heard>>
    BY <1>5 DEF Tick, SetClockBack, vars, control, threads
  <2> QED  BY <2>1 DEF Agree, HeardAgrees, MessageAgrees
<1> QED  BY <1>1, <1>2, <1>3, <1>4, <1>5 DEF Next, Deliver

(* A subscriber that has heard the state number the publisher is at has    *)
(* the data of that state, however messages were lost, repeated or         *)
(* reordered and whatever clients enabled and disabled meanwhile, as long  *)
(* as the application is not between its update and its message            *)
(* (observedObjectChanged raises the number in the section that publishes).*)
THEOREM StateGoesWithData == Spec => []SameStateSameData
<1>1. Init => Types /\ Agree
  <2>1. ASSUME Init PROVE Agree
    <3>1. goEna = FALSE
      BY <2>1 DEF Init, InitControl
    <3> QED  BY <3>1 DEF Agree, HeardAgrees, MessageAgrees
  <2> QED  BY <2>1, InitTypes
<1>2. Types /\ Agree /\ [Next]_vars => Types' /\ Agree'
  BY NextTypes, NextAgrees
<1>3. Types /\ Agree => SameStateSameData
  BY DEF Agree, HeardAgrees, SameStateSameData
<1> QED  BY <1>1, <1>2, <1>3, PTL DEF Spec

-----------------------------------------------------------------------------
(* The time allowed to live *)

LEMMA InOrder ==
  ASSUME ~Reorders, NEW i, CanArrive(i)
  PROVE  i = 1
  BY DEF CanArrive

(* In the stable state the publisher allows the long time. *)
LongWhenStable ==
  publisher # NULL => (retransmissionsLeft = 0 => publisher.timeAllowedToLive = MaxTime * 3)

(* The message that was published last allows for the next one. *)
LastAllows == wire # <<>> => wire[Len(wire)].timeAllowedToLive >= publishIn

(* When nothing is on its way, what was heard allows for the next message; *)
(* when the clock was set back, for the one that follows its repair.       *)
LivesOn ==
  (~disturbed /\ goEna) =>
    /\ liveFor >= 0
    /\ wire = <<>> => IF ClockSetBack THEN liveFor >= MinTime ELSE liveFor >= publishIn

Lives == LongWhenStable /\ LastAllows /\ LivesOn

LEMMA AppendedLast ==
  ASSUME wire \in Seq(Messages), NEW m \in Messages, wire' = Append(wire, m)
  PROVE  wire' # <<>> /\ wire'[Len(wire')] = m
  OBVIOUS

LEMMA ServerLives ==
  ASSUME Types, Lives, Server
  PROVE  Lives'
<1>1. /\ NextControl /\ wire \in Seq(Messages) /\ liveFor \in Int /\ liveFor' = liveFor
      /\ disturbed' = (disturbed \/ goEna' # goEna)
      /\ goEna \in BOOLEAN /\ disturbed \in BOOLEAN /\ publishIn \in Nat
      /\ retransmissionsLeft \in Nat
  BY Constants DEF Server, AroundServer, Types, ControlTypes, NetworkTypes
<1>2. ASSUME NEW m \in Messages, Published(m), m.timeAllowedToLive >= publishIn',
             retransmissionsLeft' = 0 => publisher'.timeAllowedToLive = MaxTime * 3
      PROVE  Lives'
  <2>1. wire' # <<>> /\ wire'[Len(wire')] = m
    BY <1>1, <1>2, AppendedLast DEF Published
  <2>2. goEna' = goEna
    BY <1>2 DEF Published
  <2> QED  BY <1>1, <1>2, <2>1, <2>2 DEF Lives, LongWhenStable, LastAllows, LivesOn
<1>3. CASE ObservedObjectChanged
  BY <1>2, <1>3, EventPublished
<1>4. CASE Retransmit
  <2>1. PICK m \in Messages :
          /\ Published(m) /\ publisher # NULL
          /\ m.timeAllowedToLive = publisher.timeAllowedToLive
          /\ publishIn' = IF retransmissionsLeft > 0 THEN MinTime ELSE MaxTime
          /\ retransmissionsLeft' = 0 => publisher'.timeAllowedToLive = MaxTime * 3
    BY <1>4, Retransmitted
  <2>2. publisher.timeAllowedToLive \in Times
    BY <2>1 DEF Messages
  <2>3. m.timeAllowedToLive >= publishIn'
    <3>1. CASE retransmissionsLeft > 0
      BY <2>1, <2>2, <3>1, TimesAreLong, Constants
    <3>2. CASE retransmissionsLeft = 0
      BY <2>1, <3>2, Constants DEF Lives, LongWhenStable
    <3> QED  BY <1>1, <3>1, <3>2
  <2> QED  BY <1>2, <2>1, <2>3
<1>5. CASE Enabled
  <2>1. /\ wire' \in Seq(Messages) /\ Len(wire') = Len(wire)
        /\ \A i \in DOMAIN wire : wire'[i].timeAllowedToLive = wire[i].timeAllowedToLive
    BY <1>1, <1>5, MessagesPast DEF Enabled
  <2>2. publishIn' = publishIn /\ publisher'.timeAllowedToLive = MaxTime * 3 /\ disturbed'
    BY <1>1, <1>5 DEF Enabled
  <2>3. LastAllows'
    <3>1. CASE wire = <<>>
      BY <1>1, <2>1, <3>1 DEF LastAllows
    <3>2. CASE wire # <<>>
      <4>1. Len(wire) \in DOMAIN wire
        BY <1>1, <3>2
      <4> QED  BY <2>1, <2>2, <3>2, <4>1 DEF Lives, LastAllows
    <3> QED  BY <3>1, <3>2
  <2> QED  BY <2>2, <2>3 DEF Lives, LongWhenStable, LivesOn
<1>6. CASE Quiet
  <2>1. /\ wire' = wire /\ retransmissionsLeft' = retransmissionsLeft
        /\ publisher' \in {publisher, NULL}
        /\ publishIn' = publishIn \/ (ClockSetBack /\ publishIn' = MinTime)
    BY <1>6 DEF Quiet
  <2>2. LastAllows'
    <3>1. CASE wire # <<>>
      <4>1. wire[Len(wire)] \in Messages
        BY <1>1, <3>1
      <4>2. wire[Len(wire)].timeAllowedToLive \in Times
        BY <4>1 DEF Messages
      <4>3. wire[Len(wire)].timeAllowedToLive >= MinTime
        BY <4>2, TimesAreLong, Constants
      <4> QED  BY <2>1, <4>3 DEF Lives, LastAllows
    <3>2. CASE wire = <<>>
      BY <2>1, <3>2 DEF LastAllows
    <3> QED  BY <3>1, <3>2
  <2>3. LivesOn'
    <3>1. CASE publishIn' = publishIn
      BY <1>1, <2>1, <3>1 DEF Lives, LivesOn, ClockSetBack
    <3>2. CASE ClockSetBack /\ publishIn' = MinTime
      BY <1>1, <2>1, <3>2, Constants DEF Lives, LivesOn, ClockSetBack
    <3> QED  BY <2>1, <3>1, <3>2
  <2>4. LongWhenStable'
    BY <2>1 DEF Lives, LongWhenStable
  <2> QED  BY <2>2, <2>3, <2>4 DEF Lives
<1> QED  BY <1>1, <1>3, <1>4, <1>5, <1>6, ServerParts

LEMMA ArrivalLives ==
  ASSUME ~Reorders, Types, Lives, NEW i \in DOMAIN wire, Arrive(i)
  PROVE  Lives'
<1>1. i = 1 /\ wire \in Seq(Messages) /\ wire[1] \in Messages /\ publishIn \in Nat
  BY InOrder DEF Arrive, Types, ControlTypes, NetworkTypes
<1>2. /\ Sub!Receive(wire[1]) /\ wire' = Overtaken(Without(1), 1)
      /\ UNCHANGED <<goEna, publisher, retransmissionsLeft, publishIn>>
  BY <1>1 DEF Arrive, server, control
<1>3. liveFor' = wire[1].timeAllowedToLive /\ liveFor' >= 3 * MinTime /\ liveFor' \in Int
  BY <1>1, <1>2, Received
<1>4. /\ Without(1) \in Seq(Messages) /\ Len(Without(1)) = Len(wire) - 1
      /\ \A j \in DOMAIN Without(1) : Without(1)[j] = wire[IF j < 1 THEN j ELSE j + 1]
  BY <1>1, MessageTaken
<1>5. /\ wire' \in Seq(Messages) /\ Len(wire') = Len(wire) - 1
      /\ \A j \in DOMAIN Without(1) :
           wire'[j].timeAllowedToLive = Without(1)[j].timeAllowedToLive
  BY <1>2, <1>4, MessagesLate
<1>6. LastAllows'
  <2>1. CASE wire' = <<>>
    BY <2>1 DEF LastAllows
  <2>2. CASE wire' # <<>>
    <3>1. Len(wire') \in DOMAIN Without(1) /\ Len(wire') >= 1
      BY <1>4, <1>5, <2>2
    <3>2. wire'[Len(wire')].timeAllowedToLive = wire[Len(wire)].timeAllowedToLive
      BY <1>4, <1>5, <3>1
    <3>3. wire # <<>>
      BY <1>1
    <3> QED  BY <1>2, <3>2, <3>3 DEF Lives, LastAllows
  <2> QED  BY <2>1, <2>2
<1>7. LivesOn'
  <2>1. liveFor' >= 0
    BY <1>3, Constants
  <2>2. ASSUME wire' = <<>> PROVE liveFor' >= publishIn
    <3>1. Len(wire) = 1 /\ wire # <<>>
      <4>1. Len(wire') = 0 /\ Len(wire) \in Nat
        BY <1>1, <2>2
      <4>2. Len(wire) = 1
        BY <1>5, <4>1
      <4> QED  BY <4>2
    <3> QED  BY <1>3, <3>1 DEF Lives, LastAllows
  <2>3. liveFor' >= MinTime
    BY <1>3, Constants
  <2> QED  BY <1>2, <2>1, <2>2, <2>3 DEF LivesOn
<1> QED  BY <1>2, <1>6, <1>7 DEF Lives, LongWhenStable

LEMMA CopyLives ==
  ASSUME ~Reorders, Types, Lives, NEW i \in DOMAIN wire, ArriveTwice(i)
  PROVE  Lives'
<1>1. i = 1 /\ wire \in Seq(Messages) /\ wire[1] \in Messages /\ wire # <<>>
  BY InOrder DEF ArriveTwice, Types, NetworkTypes
<1>2. /\ Sub!Receive(wire[1]) /\ wire' = Overtaken(wire, 2)
      /\ UNCHANGED <<goEna, publisher, retransmissionsLeft, publishIn>>
  BY <1>1 DEF ArriveTwice, server, control
<1>3. liveFor' >= 0
  BY <1>1, <1>2, Received, Constants
<1>4. /\ wire' \in Seq(Messages) /\ Len(wire') = Len(wire)
      /\ \A j \in DOMAIN wire : wire'[j].timeAllowedToLive = wire[j].timeAllowedToLive
  BY <1>1, <1>2, MessagesLate
<1>5. wire' # <<>> /\ Len(wire) \in DOMAIN wire
  BY <1>1, <1>4
<1> QED  BY <1>1, <1>2, <1>3, <1>4, <1>5 DEF Lives, LongWhenStable, LastAllows, LivesOn

LEMMA LossLives ==
  ASSUME ~Reorders, Types, Lives, NEW i \in DOMAIN wire, Lose(i)
  PROVE  Lives'
<1>1. i = 1 /\ wire \in Seq(Messages) /\ wire' = Without(1) /\ disturbed'
      /\ UNCHANGED <<publisher, retransmissionsLeft, publishIn>>
  BY InOrder DEF Lose, server, control, Types, NetworkTypes
<1>2. /\ wire' \in Seq(Messages) /\ Len(wire') = Len(wire) - 1
      /\ \A j \in DOMAIN wire' : wire'[j] = wire[IF j < 1 THEN j ELSE j + 1]
  BY <1>1, MessageTaken
<1>3. LastAllows'
  <2>1. CASE wire' # <<>>
    <3>1. Len(wire') \in DOMAIN wire' /\ Len(wire') >= 1 /\ wire # <<>>
      BY <1>1, <1>2, <2>1
    <3>2. wire'[Len(wire')] = wire[Len(wire)]
      BY <1>1, <1>2, <3>1
    <3> QED  BY <1>1, <3>1, <3>2 DEF Lives, LastAllows
  <2>2. CASE wire' = <<>>
    BY <2>2 DEF LastAllows
  <2> QED  BY <2>1, <2>2
<1> QED  BY <1>1, <1>3 DEF Lives, LongWhenStable, LivesOn

LEMMA TickLives ==
  ASSUME Types, Lives, Tick
  PROVE  Lives'
<1>1. /\ publishIn \in Nat /\ liveFor \in Int /\ wire = <<>> /\ wire' = <<>>
      /\ UNCHANGED <<goEna, publisher, retransmissionsLeft, disturbed>>
      /\ liveFor' = IF liveFor = -1 THEN -1 ELSE liveFor - 1
      /\ publishIn' = IF publishIn = 0 THEN 0 ELSE publishIn - 1
      /\ goEna => publishIn # 0 /\ ~ClockSetBack
  BY DEF Tick, WorkerLate, Types, ControlTypes, NetworkTypes
<1>2. LivesOn'
  <2>1. ASSUME ~disturbed, goEna
        PROVE  liveFor >= publishIn /\ publishIn > 0 /\ publishIn <= MaxTime * 2
    BY <1>1, <2>1, Constants DEF Lives, LivesOn, ClockSetBack
  <2> QED  BY <1>1, <2>1, Constants DEF LivesOn, ClockSetBack
<1> QED  BY <1>1, <1>2 DEF Lives, LongWhenStable, LastAllows

LEMMA SetBackLives ==
  ASSUME Types, Lives, SetClockBack
  PROVE  Lives'
<1>1. PICK d \in 1..SetBack : publishIn' = publishIn + d
  BY DEF SetClockBack
<1>2. /\ publishIn \in Nat /\ liveFor \in Int /\ wire = <<>> /\ wire' = <<>> /\ liveFor' = liveFor
      /\ UNCHANGED <<goEna, publisher, retransmissionsLeft>>
      /\ disturbed \in BOOLEAN
      /\ disturbed' = (disturbed \/ liveFor < publishIn + 2 * MaxTime)
  BY DEF SetClockBack, Types, ControlTypes, NetworkTypes
<1>3. ~disturbed' => liveFor >= publishIn + 2 * MaxTime
  <2>1. ~disturbed' => ~(liveFor < publishIn + 2 * MaxTime)
    BY <1>2, Zenon
  <2>2. ~(liveFor < publishIn + 2 * MaxTime) => liveFor >= publishIn + 2 * MaxTime
    BY <1>2, Constants
  <2> QED  BY <2>1, <2>2
<1>4. LivesOn'
  BY <1>1, <1>2, <1>3, Constants DEF LivesOn, ClockSetBack
<1> QED  BY <1>2, <1>4 DEF Lives, LongWhenStable, LastAllows

LEMMA NextLives ==
  ASSUME ~Reorders, Types, Lives, [Next]_vars
  PROVE  Lives'
<1>1. CASE UNCHANGED vars
  BY <1>1 DEF vars, control, Lives, LongWhenStable, LastAllows, LivesOn, ClockSetBack
<1> QED  BY <1>1, ServerLives, ArrivalLives, CopyLives, LossLives, TickLives, SetBackLives
         DEF Next, Deliver

(* On a network that keeps the order, and while no message is lost, the    *)
(* time allowed to live never runs out before the next message: the long   *)
(* time is announced by the message before the first long interval         *)
(* (checkAndPublish), and it outlasts the repair of a clock that is set    *)
(* back, however far.                                                      *)
THEOREM AllowedTimeIsEnough ==
  ASSUME ~Reorders
  PROVE  Spec => []TimeAllowedKept
<1>1. Init => Types /\ Lives
  <2>1. ASSUME Init PROVE Lives
    <3>1. goEna = FALSE /\ wire = <<>> /\ publisher = NULL
      BY <2>1 DEF Init, InitControl
    <3> QED  BY <3>1 DEF Lives, LongWhenStable, LastAllows, LivesOn
  <2> QED  BY <2>1, InitTypes
<1>2. Types /\ Lives /\ [Next]_vars => Types' /\ Lives'
  BY NextTypes, NextLives
<1>3. Types /\ Lives => TimeAllowedKept
  <2>1. ASSUME Types, Lives, goEna, ~disturbed
        PROVE  ~(liveFor < 0)
    BY <2>1 DEF Lives, LivesOn, Types, NetworkTypes
  <2> QED  BY <2>1 DEF TimeAllowedKept
<1> QED  BY <1>1, <1>2, <1>3, PTL DEF Spec

-----------------------------------------------------------------------------
(* The data are up to date *)

(* The message that was published last carries the data, unless the        *)
(* application is about to publish; and it was taken in after all others.  *)
Current ==
  (app = "idle" /\ goEna) =>
    /\ (wire # <<>> /\ ~wire[Len(wire)].past) => wire[Len(wire)].value = value
    /\ (wire = <<>> /\ ~disturbed /\ ~heard.past) => heard.value = value

LEMMA ServerCurrent ==
  ASSUME Types, Current, Server
  PROVE  Current'
<1>1. /\ NextControl /\ wire \in Seq(Messages)
      /\ heard' = IF goEna' /\ ~goEna THEN [heard EXCEPT !.past = TRUE] ELSE heard
      /\ disturbed' = (disturbed \/ goEna' # goEna)
      /\ goEna \in BOOLEAN /\ heard \in Hearings
  BY DEF Server, AroundServer, Types, ControlTypes, NetworkTypes
<1>2. ASSUME NEW m \in Messages, Published(m)
      PROVE  Current'
  <2>1. wire' # <<>> /\ wire'[Len(wire')] = m
    BY <1>1, <1>2, AppendedLast DEF Published
  <2> QED  BY <1>2, <2>1 DEF Published, Current
<1>3. CASE ObservedObjectChanged
  BY <1>2, <1>3, EventPublished
<1>4. CASE Retransmit
  BY <1>2, <1>4, Retransmitted
<1>5. CASE Enabled
  <2>1. /\ wire' \in Seq(Messages) /\ DOMAIN wire' = DOMAIN wire
        /\ \A i \in DOMAIN wire : wire'[i].past = TRUE
    BY <1>1, <1>5, MessagesPast DEF Enabled
  <2>2. heard'.past = TRUE
    BY <1>1, <1>5 DEF Enabled, Hearings
  <2>3. wire' # <<>> => Len(wire') \in DOMAIN wire
    BY <2>1
  <2> QED  BY <2>1, <2>2, <2>3 DEF Current
<1>6. CASE Quiet
  <2>1. wire' = wire /\ (goEna' => goEna)
    BY <1>6 DEF Quiet
  <2>2. heard' = heard
    BY <1>1, <2>1
  <2>3. ~disturbed' => ~disturbed
    BY <1>1, Zenon
  <2>4. (app' = "idle" /\ goEna') => (app = "idle" /\ value' = value)
    BY <1>6 DEF Quiet
  <2> QED  BY <2>1, <2>2, <2>3, <2>4 DEF Current
<1> QED  BY <1>1, <1>3, <1>4, <1>5, <1>6, ServerParts

(* The first of several messages is not the one that was published last. *)
LEMMA LastStays ==
  ASSUME wire \in Seq(Messages), 1 \in DOMAIN wire,
         wire' = Without(1) \/ wire' = Overtaken(Without(1), 1)
  PROVE  IF wire' = <<>>
           THEN wire[Len(wire)] = wire[1]
           ELSE /\ wire'[Len(wire')].past = wire[Len(wire)].past
                /\ wire'[Len(wire')].value = wire[Len(wire)].value
<1>1. /\ Without(1) \in Seq(Messages) /\ Len(Without(1)) = Len(wire) - 1
      /\ \A j \in DOMAIN Without(1) : Without(1)[j] = wire[IF j < 1 THEN j ELSE j + 1]
  BY MessageTaken
<1>2. /\ wire' \in Seq(Messages) /\ Len(wire') = Len(wire) - 1
      /\ \A j \in DOMAIN Without(1) : /\ wire'[j].past = Without(1)[j].past
                                      /\ wire'[j].value = Without(1)[j].value
  BY <1>1, MessagesLate
<1>3. CASE wire' = <<>>
  <2>1. Len(wire') = 0 /\ Len(wire) \in Nat
    BY <1>3
  <2>2. Len(wire) = 1
    BY <1>2, <2>1
  <2> QED  BY <1>3, <2>2
<1>4. CASE wire' # <<>>
  <2>1. Len(wire') \in DOMAIN Without(1) /\ Len(wire') >= 1
    BY <1>1, <1>2, <1>4
  <2>2. Without(1)[Len(wire')] = wire[Len(wire)]
    BY <1>1, <1>2, <2>1
  <2> QED  BY <1>2, <1>4, <2>1, <2>2
<1> QED  BY <1>3, <1>4

LEMMA ArrivalCurrent ==
  ASSUME ~Reorders, Types, Current, NEW i \in DOMAIN wire, Arrive(i)
  PROVE  Current'
<1>1. i = 1 /\ wire \in Seq(Messages) /\ wire[1] \in Messages /\ 1 \in DOMAIN wire /\ wire # <<>>
  BY InOrder DEF Arrive, Types, NetworkTypes
<1>2. /\ Sub!Receive(wire[1]) /\ wire' = Overtaken(Without(1), 1)
      /\ UNCHANGED <<value, app, goEna>>
  BY <1>1 DEF Arrive, server, control, threads
<1>3. heard'.value = wire[1].value /\ heard'.past = wire[1].past
  BY <1>1, <1>2, Received
<1>4. IF wire' = <<>>
        THEN wire[Len(wire)] = wire[1]
        ELSE /\ wire'[Len(wire')].past = wire[Len(wire)].past
             /\ wire'[Len(wire')].value = wire[Len(wire)].value
  BY <1>1, <1>2, LastStays
<1> QED  BY <1>1, <1>2, <1>3, <1>4 DEF Current

LEMMA CopyCurrent ==
  ASSUME ~Reorders, Types, Current, NEW i \in DOMAIN wire, ArriveTwice(i)
  PROVE  Current'
<1>1. i = 1 /\ wire \in Seq(Messages) /\ wire # <<>> /\ wire' = Overtaken(wire, 2)
      /\ UNCHANGED <<value, app, goEna>>
  BY InOrder DEF ArriveTwice, server, control, threads, Types, NetworkTypes
<1>2. /\ wire' \in Seq(Messages) /\ Len(wire') = Len(wire)
      /\ \A j \in DOMAIN wire : wire'[j].past = wire[j].past /\ wire'[j].value = wire[j].value
  BY <1>1, MessagesLate
<1>3. wire' # <<>> /\ Len(wire) \in DOMAIN wire
  BY <1>1, <1>2
<1> QED  BY <1>1, <1>2, <1>3 DEF Current

LEMMA LossCurrent ==
  ASSUME ~Reorders, Types, Current, NEW i \in DOMAIN wire, Lose(i)
  PROVE  Current'
<1>1. wire \in Seq(Messages) /\ 1 \in DOMAIN wire /\ wire # <<>> /\ wire' = Without(1) /\ disturbed'
      /\ UNCHANGED <<value, app, goEna>>
  BY InOrder DEF Lose, server, control, threads, Types, NetworkTypes
<1>2. wire' # <<>> => /\ wire'[Len(wire')].past = wire[Len(wire)].past
                     /\ wire'[Len(wire')].value = wire[Len(wire)].value
  BY <1>1, LastStays
<1> QED  BY <1>1, <1>2 DEF Current

LEMMA NextCurrent ==
  ASSUME ~Reorders, Types, Current, [Next]_vars
  PROVE  Current'
<1>1. CASE Tick \/ SetClockBack \/ UNCHANGED vars
  <2>1. UNCHANGED <<value, goEna, app, wire, heard>>
    BY <1>1 DEF Tick, SetClockBack, vars, control, threads
  <2>2. ~disturbed' => ~disturbed
    BY <1>1, Zenon DEF Tick, SetClockBack, vars
  <2> QED  BY <2>1, <2>2 DEF Current
<1> QED  BY <1>1, ServerCurrent, ArrivalCurrent, CopyCurrent, LossCurrent DEF Next, Deliver

(* On a network that keeps the order, and while no message is lost, the    *)
(* subscriber has the data of the server as soon as no message is on its   *)
(* way and no change is under way: whatever the worker repeats between an  *)
(* update and its event (observedObjectChanged), and though the receiver   *)
(* takes the data of every message, repeated or not (parseGoosePayload).   *)
THEOREM DataUpToDate ==
  ASSUME ~Reorders
  PROVE  Spec => []UpToDate
<1>1. Init => Types /\ Current
  <2>1. ASSUME Init PROVE Current
    <3>1. goEna = FALSE
      BY <2>1 DEF Init, InitControl
    <3> QED  BY <3>1 DEF Current
  <2> QED  BY <2>1, InitTypes
<1>2. Types /\ Current /\ [Next]_vars => Types' /\ Current'
  BY NextTypes, NextCurrent
<1>3. Current => UpToDate
  BY DEF Current, UpToDate
<1> QED  BY <1>1, <1>2, <1>3, PTL DEF Spec
=============================================================================
