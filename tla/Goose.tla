------------------------------- MODULE Goose -------------------------------
(***************************************************************************)
(* A GOOSE control block and a subscriber, a network between them that     *)
(* loses and repeats messages (and, when Reorders, lets one overtake       *)
(* another), and their clocks.                                             *)
(*                                                                         *)
(* A tick is longer than a message takes on the network and than the       *)
(* millisecond after which the worker looks again: what it finds due, a    *)
(* message or a clock that was set back, is dealt with in the same tick.   *)
(***************************************************************************)
EXTENDS GooseControl

CONSTANTS
  Reorders,           \* messages may overtake each other
  SetBack,            \* bound: how far the server's clock is set back
  MaxSetBacks,        \* bound: how often
  WireSize            \* bound: messages on their way at a time

ASSUME NetworkAssumption ==
  /\ Reorders \in BOOLEAN
  /\ {SetBack, MaxSetBacks, WireSize} \subseteq Nat

VARIABLES
  heard, stateValid, liveFor,
  setBacks,           \* how often the server's clock has been set back
  disturbed           \* since the last message was received one has been lost, the control
                      \* block enabled or disabled, or the clock set back during a burst

Sub == INSTANCE GooseSubscriber

vars == <<value, control, threads, wire, heard, stateValid, liveFor, setBacks, disturbed>>

Init ==
  /\ InitControl
  /\ Sub!InitSubscriber
  /\ setBacks = 0
  /\ disturbed = TRUE

(* What was heard before the control block is enabled anew is past. *)
AroundServer ==
  /\ Len(wire') <= WireSize
  /\ heard' = IF goEna' /\ ~goEna THEN [heard EXCEPT !.past = TRUE] ELSE heard
  /\ disturbed' = (disturbed \/ goEna' # goEna)
  /\ UNCHANGED <<stateValid, liveFor, setBacks>>

Server == NextControl /\ AroundServer

-----------------------------------------------------------------------------
(* The network *)

Without(i) == [j \in 1..(Len(wire) - 1) |-> wire[IF j < i THEN j ELSE j + 1]]

(* The messages before the i-th, which is received, are late now. *)
Overtaken(w, i) == [j \in DOMAIN w |-> IF j < i THEN [w[j] EXCEPT !.late = TRUE] ELSE w[j]]

(* A message is lost when it is its turn, so that what was lost is always *)
(* newer than what was received.                                          *)
CanArrive(i) == i = 1 \/ Reorders

Arrive(i) ==
  /\ CanArrive(i)
  /\ Sub!Receive(wire[i])
  /\ wire' = Overtaken(Without(i), i)
  /\ disturbed' = FALSE
  /\ UNCHANGED <<server, setBacks>>

(* The network delivers a message and keeps a copy of it. *)
ArriveTwice(i) ==
  /\ CanArrive(i)
  /\ ~wire[i].late
  /\ Sub!Receive(wire[i])
  /\ wire' = Overtaken(wire, i + 1)
  /\ disturbed' = FALSE
  /\ UNCHANGED <<server, setBacks>>

Lose(i) ==
  /\ CanArrive(i)
  /\ wire' = Without(i)
  /\ disturbed' = TRUE
  /\ UNCHANGED <<server, heard, stateValid, liveFor, setBacks>>

-----------------------------------------------------------------------------
(* The clocks *)

WorkerLate == worker = "publishing" \/ (goEna /\ (publishIn = 0 \/ ClockSetBack))

Tick ==
  /\ ~halted /\ app = "idle" /\ ~WorkerLate /\ wire = <<>>
  /\ publishIn' = IF publishIn = 0 THEN 0 ELSE publishIn - 1
  /\ liveFor' = IF liveFor = -1 THEN -1 ELSE liveFor - 1
  /\ UNCHANGED <<value, goEna, publisher, retransmissionsLeft, threads, wire, heard, stateValid,
                 setBacks, disturbed>>

(* A subscriber who has been given the long time of the stable state is   *)
(* not disturbed: it has two intervals more than the next message takes.   *)
SetClockBack ==
  /\ ~halted /\ app = "idle" /\ worker = "idle" /\ wire = <<>>
  /\ setBacks < MaxSetBacks
  /\ setBacks' = setBacks + 1
  /\ \E d \in 1..SetBack : publishIn' = publishIn + d
  /\ disturbed' = (disturbed \/ liveFor < publishIn + 2 * MaxTime)
  /\ UNCHANGED <<value, goEna, publisher, retransmissionsLeft, threads, wire, heard, stateValid,
                 liveFor>>

-----------------------------------------------------------------------------
Deliver == \E i \in DOMAIN wire : Arrive(i)

Next ==
  \/ Server
  \/ Deliver
  \/ \E i \in DOMAIN wire : ArriveTwice(i) \/ Lose(i)
  \/ Tick
  \/ SetClockBack

Spec == Init /\ [][Next]_vars

(* The server's threads run, a message is delivered or lost, time passes,  *)
(* and the network does not lose every message.                            *)
Fairness ==
  /\ WF_vars(AppStep /\ AroundServer)
  /\ WF_vars(WorkerStep /\ AroundServer)
  /\ WF_vars(DestroyPublisher /\ AroundServer)
  /\ WF_vars(Deliver \/ \E i \in DOMAIN wire : Lose(i))
  /\ SF_vars(Deliver)
  /\ WF_vars(Tick)

FairSpec == Spec /\ Fairness

-----------------------------------------------------------------------------
TypeOK ==
  /\ TypeOKControl
  /\ heard.stNum \in 0..(MaxValue + 1) /\ heard.value \in 0..MaxValue
  /\ stateValid \in BOOLEAN
  /\ liveFor \in -1..(3 * MaxTime)
  /\ Len(wire) <= WireSize

(* Who has heard the state number that the publisher is at has its data,   *)
(* whenever the application is not in the middle of a change.              *)
SameStateSameData ==
  (app = "idle" /\ goEna /\ publisher # NULL /\ ~heard.past /\ heard.stNum = publisher.stNum)
    => heard.value = value

(* While messages arrive, the time that each one allows is enough for the  *)
(* next one to come, though the clock be set back in the stable state.     *)
TimeAllowedKept == (goEna /\ ~halted /\ liveFor < 0) => disturbed

(* If no message was lost and none is on its way, the subscriber has the   *)
(* data that the server has, unless the application is changing them: no   *)
(* message takes data in that a later one has to replace, and no change    *)
(* that is complete was left out of the last one.                          *)
UpToDate ==
  (wire = <<>> /\ ~disturbed /\ app = "idle" /\ goEna /\ ~heard.past) => heard.value = value

(* A subscriber does not call a message valid that was published before    *)
(* another one that it has received already: it is valid if messages were  *)
(* received with correct numbers.                                          *)
ValidAdvances ==
  [][\A i \in DOMAIN wire : (Arrive(i) \/ ArriveTwice(i)) /\ wire[i].late => ~stateValid']_vars

(* A change of the data reaches the subscriber while the control block is  *)
(* enabled, whatever messages are lost.                                    *)
ChangesReceived ==
  \A v \in 1..MaxValue :
    (goEna /\ value = v) ~> (heard.value >= v \/ ~goEna \/ halted)

(* However far the clock is set back, a control block goes on publishing. *)
KeepsPublishing ==
  goEna ~> (wire # <<>> \/ ~goEna \/ halted)
=============================================================================
