---------------------------- MODULE GooseControl ----------------------------
(***************************************************************************)
(* A GOOSE control block of the server (mms_goose.c) and its publisher     *)
(* (goose_publisher.c).  The application changes values of the data set    *)
(* and triggers a message with a new state number; the event worker thread *)
(* repeats the message, soon at first and then at long intervals; clients  *)
(* enable and disable the control block.                                   *)
(*                                                                         *)
(* Each section under publisherMutex is one step; what is read before the  *)
(* mutex is taken is a step of its own.  The data set is one number, the   *)
(* count of its changes.  nextPublishTime enters as the time left.         *)
(***************************************************************************)
EXTENDS Integers, Sequences

CONSTANTS
  MinTime, MaxTime,       \* retransmission after an event, in the stable state
  Retransmissions,        \* CONFIG_GOOSE_EVENT_RETRANSMISSION_COUNT
  SqNums,                 \* sqNum counts modulo this number (2^32)
  MaxValue                \* bound: changes of the data set

ASSUME GooseAssumption ==
  /\ {MinTime, MaxTime, SqNums} \subseteq Nat \ {0}
  /\ MinTime <= MaxTime
  /\ {Retransmissions, MaxValue} \subseteq Nat

VARIABLES
  value,                  \* of the data set
  goEna,
  publisher,              \* NULL, or its stNum, sqNum and timeAllowedToLive
  retransmissionsLeft,
  publishIn,              \* time until nextPublishTime
  app,                    \* the application: "idle", "updated", "triggering"
  worker,                 \* the worker: "idle", "publishing"
  disabling,              \* a client is between the two halves of disable
  halted,                 \* a null pointer was used
  wire                    \* messages on their way, in the order of publication

control == <<goEna, publisher, retransmissionsLeft, publishIn>>
threads == <<app, worker, disabling, halted>>
server  == <<value, control, threads>>

NULL == [none |-> TRUE]

InitControl ==
  /\ value = 0
  /\ goEna = FALSE
  /\ publisher = NULL
  /\ retransmissionsLeft = 0
  /\ publishIn = 0
  /\ app = "idle" /\ worker = "idle"
  /\ disabling = FALSE
  /\ halted = FALSE
  /\ wire = <<>>

(* late and past serve the properties: a later message was taken before    *)
(* this one; the control block was enabled anew after this one.            *)
Message(p) ==
  [stNum |-> p.stNum, sqNum |-> p.sqNum, value |-> value,
   timeAllowedToLive |-> p.timeAllowedToLive, late |-> FALSE, past |-> FALSE]

(* GoosePublisher_publish with the number of the next message and the time *)
(* that it will allow.                                                     *)
Publish(p, tal) ==
  /\ wire' = Append(wire, Message(p))
  /\ publisher' = [p EXCEPT !.sqNum = (@ + 1) % SqNums, !.timeAllowedToLive = tal]

-----------------------------------------------------------------------------
UpdateValue ==
  /\ app = "idle" /\ ~halted /\ value < MaxValue
  /\ value' = value + 1
  /\ app' = "updated"
  /\ UNCHANGED <<control, worker, disabling, halted, wire>>

TriggerObservers ==
  /\ app = "updated" /\ ~halted
  /\ app' = IF goEna THEN "triggering" ELSE "idle"
  /\ UNCHANGED <<value, control, worker, disabling, halted, wire>>

Halt ==
  /\ halted' = TRUE
  /\ UNCHANGED <<value, control, app, worker, disabling, wire>>

\* A variant in which an event only starts the count of repetitions anew.
SameStNum(p) == [p EXCEPT !.sqNum = 0]

IncreasedStNum(p) == [p EXCEPT !.stNum = @ + 1, !.sqNum = 0]

ObservedObjectChanged ==
  /\ app = "triggering" /\ ~halted
  /\ publisher # NULL
  /\ LET interval == IF Retransmissions > 0 THEN MinTime ELSE MaxTime
     IN  /\ publishIn' = interval
         /\ Publish([IncreasedStNum(publisher) EXCEPT !.timeAllowedToLive = interval * 3],
                    interval * 3)
  /\ retransmissionsLeft' = Retransmissions
  /\ app' = "idle"
  /\ UNCHANGED <<value, goEna, worker, disabling, halted>>

ObservedWithoutPublisher ==
  /\ app = "triggering" /\ ~halted
  /\ publisher = NULL
  /\ Halt

\* A variant in which nothing is repeated after the burst that follows an event.
CheckTimeInBurst ==
  /\ worker = "idle" /\ ~halted /\ goEna
  /\ publishIn = 0 /\ retransmissionsLeft > 0
  /\ worker' = "publishing"
  /\ UNCHANGED <<value, control, app, disabling, halted, wire>>

(* checkAndPublish: the time is compared before the mutex is taken. *)
CheckTime ==
  /\ worker = "idle" /\ ~halted /\ goEna
  /\ publishIn = 0
  /\ worker' = "publishing"
  /\ UNCHANGED <<value, control, app, disabling, halted, wire>>

(* The clock must have been set back when the next time is that far away. *)
ClockSetBack == publishIn > MaxTime * 2

RepairTime ==
  /\ worker = "idle" /\ ~halted /\ goEna
  /\ ClockSetBack
  /\ publishIn' = MinTime
  /\ UNCHANGED <<value, goEna, publisher, retransmissionsLeft, threads, wire>>

\* A variant in which the message after the last quick one allows the short time.
TimeAllowedTooShort == IF retransmissionsLeft > 0 THEN MinTime * 3 ELSE MaxTime * 3

(* What the message after the one that is published now will allow. *)
TimeAllowed == IF retransmissionsLeft > 1 THEN MinTime * 3 ELSE MaxTime * 3

\* A variant that counts on below zero.
CountedOn == retransmissionsLeft - 1

CountedDown == IF retransmissionsLeft > 0 THEN retransmissionsLeft - 1 ELSE 0

Retransmit ==
  /\ worker = "publishing" /\ ~halted
  /\ publisher # NULL
  /\ Publish(publisher, TimeAllowed)
  /\ publishIn' = IF retransmissionsLeft > 0 THEN MinTime ELSE MaxTime
  /\ retransmissionsLeft' = CountedDown
  /\ worker' = "idle"
  /\ UNCHANGED <<value, goEna, app, disabling, halted>>

RetransmitWithoutPublisher ==
  /\ worker = "publishing" /\ ~halted
  /\ publisher = NULL
  /\ Halt

-----------------------------------------------------------------------------
(* A new publisher starts with state 1; retransmissionsLeft and            *)
(* nextPublishTime keep what they were.                                    *)
Enable ==
  /\ ~goEna /\ ~halted
  /\ goEna' = TRUE
  /\ publisher' = [stNum |-> 1, sqNum |-> 0, timeAllowedToLive |-> MaxTime * 3]
  /\ wire' = [i \in DOMAIN wire |-> [wire[i] EXCEPT !.past = TRUE]]
  /\ UNCHANGED <<value, retransmissionsLeft, publishIn, threads>>

Disable ==
  /\ goEna /\ ~halted /\ ~disabling
  /\ goEna' = FALSE
  /\ disabling' = TRUE
  /\ UNCHANGED <<value, publisher, retransmissionsLeft, publishIn, app, worker, halted, wire>>

DestroyPublisher ==
  /\ disabling /\ ~halted
  /\ publisher' = NULL
  /\ disabling' = FALSE
  /\ UNCHANGED <<value, goEna, retransmissionsLeft, publishIn, app, worker, halted, wire>>

AppStep    == TriggerObservers \/ ObservedObjectChanged \/ ObservedWithoutPublisher
WorkerStep == CheckTime \/ RepairTime \/ Retransmit \/ RetransmitWithoutPublisher
ClientStep == Enable \/ Disable \/ DestroyPublisher

NextControl == UpdateValue \/ AppStep \/ WorkerStep \/ ClientStep

-----------------------------------------------------------------------------
TypeOKControl ==
  /\ value \in 0..MaxValue
  /\ goEna \in BOOLEAN
  /\ publisher = NULL \/ /\ publisher.stNum \in 1..(MaxValue + 1)
                         /\ publisher.sqNum \in 0..(SqNums - 1)
                         /\ publisher.timeAllowedToLive \in {MinTime * 3, MaxTime * 3}
  /\ retransmissionsLeft \in 0..Retransmissions
  /\ publishIn \in Nat
  /\ app \in {"idle", "updated", "triggering"}
  /\ worker \in {"idle", "publishing"}
  /\ disabling \in BOOLEAN /\ halted \in BOOLEAN
=============================================================================
