-------------------------- MODULE GooseSubscriber --------------------------
(***************************************************************************)
(* A GOOSE subscriber (goose_subscriber.c) and what the receiver does to   *)
(* it with a message (parseGoosePayload of goose_receiver.c).  The data    *)
(* set is taken over before the numbers are looked at, and the numbers     *)
(* whatever they are.                                                      *)
(***************************************************************************)
EXTENDS Integers

VARIABLES
  heard,              \* stNum, sqNum and data of the last message
  stateValid,
  liveFor             \* time until invalidityTime, -1 when it has passed

subscriber == <<heard, stateValid, liveFor>>

InitSubscriber ==
  /\ heard = [stNum |-> 0, sqNum |-> 0, value |-> 0, past |-> TRUE]
  /\ stateValid = FALSE
  /\ liveFor = -1

Repeated(m) == heard.stNum = m.stNum /\ heard.sqNum >= m.sqNum

\* A variant that takes the data of new states only.
ReceiveNewStates(m) ==
  /\ stateValid' = ~Repeated(m)
  /\ heard' = [stNum |-> m.stNum, sqNum |-> m.sqNum, past |-> m.past,
               value |-> IF m.stNum = heard.stNum THEN heard.value ELSE m.value]
  /\ liveFor' = m.timeAllowedToLive

Receive(m) ==
  /\ stateValid' = ~Repeated(m)
  /\ heard' = [stNum |-> m.stNum, sqNum |-> m.sqNum, value |-> m.value, past |-> m.past]
  /\ liveFor' = m.timeAllowedToLive

isValid == stateValid /\ liveFor >= 0
=============================================================================
