----------------------------- MODULE SvReceiver -----------------------------
(***************************************************************************)
(* sv_subscriber.c: a receiver, the background thread SVReceiver_start     *)
(* creates, and the application thread that starts, stops and destroys it  *)
(* and adds and removes subscribers.  Nothing is locked: the two threads   *)
(* talk through the flags running and stopped and share the subscriber     *)
(* list.                                                                   *)
(*                                                                         *)
(* A detached thread leaves no trace, so a second SVReceiver_start may run *)
(* beside a thread that has not ended: each start takes the next element   *)
(* of Thread.  Frames queue up in the socket, are dropped when the queue   *)
(* is full, and are lost while no socket is open.  Sockets are counted and  *)
(* share one queue; more than one is open only after QuietWhenStopped was  *)
(* violated.                                                               *)
(***************************************************************************)
EXTENDS Integers, Sequences, SequencesExt

CONSTANTS Subscriber, AppIdOf, AddrOf,  \* subscribers and what they listen to
          Frame,       \* frames on the network: [appId, dest, asdus]
          MaxStarts,   \* bound: calls of SVReceiver_start
          MaxFrames,   \* bound: frames that arrive
          QueueSize,   \* frames the socket holds
          Patient,     \* the application stops only a receiver that is up
          None

ASSUME BoundAssumption == MaxStarts \in Nat
ASSUME FrameAssumption == \A f \in Frame : f.asdus \in Nat
ASSUME NoneAssumption  ==
  /\ None \notin Nat \X Frame
  /\ None \notin [to : Subscriber, frame : Nat, asdu : Nat, asdus : Nat]

VARIABLES app,          \* application thread: "idle", "stopping", "destroyed"
          started,      \* it has called start and not stop since
          starts,
          running, stopped,      \* the flags of the receiver
          socket,       \* sockets open
          queue,        \* the socket's queue of <<number, frame>>
          arrived,
          subscriberList,
          thread,       \* per thread: [pc, element, frame, asdu]
          call          \* the last listener call: [to, frame, asdu, asdus]

control == <<app, started, starts>>
flags   == <<running, stopped>>
net     == <<socket, queue, arrived>>
vars    == <<control, flags, net, subscriberList, thread, call>>

Thread == 1 .. MaxStarts

\* SVReceiver_create; no function ever sets it.
checkDestAddr == FALSE

-----------------------------------------------------------------------------
Init ==
  /\ app = "idle" /\ started = FALSE /\ starts = 0
  /\ running = FALSE /\ stopped = FALSE
  /\ socket = 0 /\ queue = <<>> /\ arrived = 0
  /\ subscriberList = <<>>
  /\ thread = [t \in Thread |-> [pc |-> "none", element |-> None, frame |-> None, asdu |-> 0]]
  /\ call = None

Up == \E t \in Thread : thread[t].pc \in {"check", "tick", "find", "deliver"}

(* The application thread. *)

Start ==
  /\ app = "idle" /\ ~started /\ starts < MaxStarts
  /\ started' = TRUE /\ starts' = starts + 1
  /\ thread' = [thread EXCEPT ![starts + 1].pc = "begin"]
  /\ UNCHANGED <<app, flags, net, subscriberList, call>>

Stop ==
  /\ app = "idle" /\ started /\ (Patient => Up)
  /\ app' = "stopping"
  /\ running' = FALSE
  /\ UNCHANGED <<started, starts, stopped, net, subscriberList, thread, call>>

\* A variant of SVReceiver_stop that does not wait for the thread.
StopReturnsAtOnce ==
  /\ app = "stopping"
  /\ app' = "idle" /\ started' = FALSE
  /\ UNCHANGED <<starts, flags, net, subscriberList, thread, call>>

StopReturns ==
  /\ app = "stopping" /\ stopped
  /\ app' = "idle" /\ started' = FALSE
  /\ UNCHANGED <<starts, flags, net, subscriberList, thread, call>>

AddSubscriber(s) ==
  /\ app = "idle" /\ s \notin ToSet(subscriberList)
  /\ subscriberList' = Append(subscriberList, s)
  /\ UNCHANGED <<control, flags, net, thread, call>>

\* The list element is freed.  The application does that while the receiver
\* is stopped: nothing else keeps the thread off the element.
RemoveSubscriber(s) ==
  /\ app = "idle" /\ ~started
  /\ \E i \in DOMAIN subscriberList : /\ subscriberList[i] = s
                                      /\ subscriberList' = RemoveAt(subscriberList, i)
  /\ UNCHANGED <<control, flags, net, thread, call>>

\* The list, the buffer and the receiver itself are freed.
Destroy ==
  /\ app = "idle" /\ ~started
  /\ app' = "destroyed"
  /\ subscriberList' = <<>>
  /\ UNCHANGED <<started, starts, flags, net, thread, call>>

-----------------------------------------------------------------------------
(* The background thread: svReceiverLoop. *)

At(t, pc)      == thread[t].pc = pc
Goto(t, pc)    == thread' = [thread EXCEPT ![t].pc = pc]

Begin(t) ==
  /\ At(t, "begin") /\ Goto(t, "begun")
  /\ running' = TRUE
  /\ UNCHANGED <<control, stopped, net, subscriberList, call>>

\* A variant that leaves the flag of the last run.
KeepStopped(t) ==
  /\ At(t, "begun") /\ Goto(t, "open")
  /\ UNCHANGED <<control, flags, net, subscriberList, call>>

ClearStopped(t) ==
  /\ At(t, "begun") /\ Goto(t, "open")
  /\ stopped' = FALSE
  /\ UNCHANGED <<control, running, net, subscriberList, call>>

\* SVReceiver_startThreadless
OpenSocket(t) ==
  /\ At(t, "open") /\ Goto(t, "check")
  /\ socket' = socket + 1
  /\ running' = TRUE
  /\ UNCHANGED <<control, stopped, queue, arrived, subscriberList, call>>

CheckRunning(t) ==
  /\ At(t, "check") /\ Goto(t, IF running THEN "tick" ELSE "close")
  /\ UNCHANGED <<control, flags, net, subscriberList, call>>

\* SVReceiver_tick: receive without blocking, else sleep.
TickEmpty(t) ==
  /\ At(t, "tick") /\ queue = <<>>
  /\ Goto(t, "check")
  /\ UNCHANGED <<control, flags, net, subscriberList, call>>

First(list) == IF list = <<>> THEN None ELSE Head(list)

\* A variant that does not advance.
SameElement(list, s) == s

\* element->next; a freed element leads nowhere.
NextOf(list, s) ==
  LET behind == {list[i] : i \in {j \in 2 .. Len(list) : list[j - 1] = s}}
  IN  IF behind = {} THEN None ELSE CHOOSE e \in behind : TRUE

Tick(t) ==
  /\ At(t, "tick") /\ queue # <<>>
  /\ queue' = Tail(queue)
  /\ thread' = [thread EXCEPT ![t] = [pc |-> "find", frame |-> Head(queue), asdu |-> 0,
                                      element |-> First(subscriberList)]]
  /\ UNCHANGED <<control, flags, socket, arrived, subscriberList, call>>

\* A variant that compares no application identifier.
MatchesAny(s, f) == checkDestAddr => AddrOf[s] = f.dest

Matches(s, f) == AppIdOf[s] = f.appId /\ (checkDestAddr => AddrOf[s] = f.dest)

\* parseSVMessage: look at one element of the subscriber list.  A frame that
\* holds no ASDU, or none that can be parsed, calls nobody.
Find(t) ==
  /\ At(t, "find")
  /\ LET e == thread[t].element
     IN  IF e = None
         THEN Goto(t, "check")
         ELSE IF Matches(e, thread[t].frame[2])
         THEN IF thread[t].frame[2].asdus = 0
              THEN Goto(t, "check")
              ELSE thread' = [thread EXCEPT ![t].pc = "deliver", ![t].asdu = 1]
         ELSE thread' = [thread EXCEPT ![t].element = NextOf(subscriberList, e)]
  /\ UNCHANGED <<control, flags, net, subscriberList, call>>

\* The listener is called for the ASDU the thread is at.
Call(t) == [to |-> thread[t].element, frame |-> thread[t].frame[1],
            asdu |-> thread[t].asdu, asdus |-> thread[t].frame[2].asdus]

\* A variant that calls the listener for the first ASDU only.
DeliverFirst(t) ==
  /\ At(t, "deliver") /\ Goto(t, "check")
  /\ call' = Call(t)
  /\ UNCHANGED <<control, flags, net, subscriberList>>

\* parseSequenceOfASDU and parseASDU: the listener is called for every ASDU.
Deliver(t) ==
  /\ At(t, "deliver")
  /\ call' = Call(t)
  /\ IF thread[t].asdu < thread[t].frame[2].asdus
     THEN thread' = [thread EXCEPT ![t].asdu = @ + 1]
     ELSE Goto(t, "check")
  /\ UNCHANGED <<control, flags, net, subscriberList>>

\* SVReceiver_stopThreadless; closing the socket drops what is queued.
CloseSocket(t) ==
  /\ At(t, "close") /\ Goto(t, "end")
  /\ socket' = socket - 1
  /\ queue' = <<>>
  /\ running' = FALSE
  /\ UNCHANGED <<control, stopped, arrived, subscriberList, call>>

\* A variant in which the thread never says that it has ended.
EndSilently(t) ==
  /\ At(t, "end") /\ Goto(t, "done")
  /\ UNCHANGED <<control, flags, net, subscriberList, call>>

End(t) ==
  /\ At(t, "end") /\ Goto(t, "done")
  /\ stopped' = TRUE
  /\ UNCHANGED <<control, running, net, subscriberList, call>>

Step(t) ==
  \/ Begin(t)
  \/ ClearStopped(t)
  \/ OpenSocket(t)
  \/ CheckRunning(t)
  \/ TickEmpty(t)
  \/ Tick(t)
  \/ Find(t)
  \/ Deliver(t)
  \/ CloseSocket(t)
  \/ End(t)

-----------------------------------------------------------------------------
\* A frame reaches the interface.
Arrive(f) ==
  /\ arrived < MaxFrames
  /\ arrived' = arrived + 1
  /\ queue' = IF socket > 0 /\ Len(queue) < QueueSize
              THEN Append(queue, <<arrived + 1, f>>) ELSE queue
  /\ UNCHANGED <<control, flags, socket, subscriberList, thread, call>>

Next ==
  \/ Start
  \/ Stop
  \/ StopReturns
  \/ Destroy
  \/ \E s \in Subscriber : AddSubscriber(s)
  \/ \E s \in Subscriber : RemoveSubscriber(s)
  \/ \E t \in Thread : Step(t)
  \/ \E f \in Frame : Arrive(f)

Spec == Init /\ [][Next]_vars

\* The operating system runs both threads; the application is free to start,
\* stop and destroy when it likes, but polls the flag while it waits.
FairSpec == Spec /\ WF_vars(StopReturns) /\ \A t \in Thread : WF_vars(Step(t))

-----------------------------------------------------------------------------
(* Properties. *)

Alive(t) == thread[t].pc \notin {"none", "done"}

\* Once SVReceiver_stop has returned, the thread no longer touches the
\* receiver - so destroying it is safe - and its socket is closed.
QuietWhenStopped == (app # "stopping" /\ ~started) => socket = 0 /\ \A t \in Thread : ~Alive(t)

\* The receiver thread never follows a list element that has been freed.
ElementInList ==
  \A t \in Thread :
    thread[t].pc \in {"find", "deliver"} /\ thread[t].element # None =>
      thread[t].element \in ToSet(subscriberList)

\* A listener is called for the ASDUs of a frame in their order, all of them,
\* and for the frames in the order of their arrival.
CallsInOrder ==
  [][call' # call =>
       \/ call # None /\ call'.frame = call.frame /\ call'.to = call.to
                      /\ call'.asdu = call.asdu + 1
       \/ (call # None => call'.frame > call.frame /\ call.asdu = call.asdus)
          /\ call'.asdu = 1]_vars

\* A listener is only called for the frame its thread received last, which
\* carries the listener's application identifier, and never once the receiver
\* was destroyed.
CallsMatch ==
  [][call' # call =>
       /\ app # "destroyed"
       /\ \E t \in Thread : /\ thread[t].frame # None
                            /\ thread[t].frame[1] = call'.frame
                            /\ AppIdOf[call'.to] = thread[t].frame[2].appId]_vars

\* SVReceiver_stop returns.
StopTerminates == (app = "stopping") ~> (app = "idle")

\* While the receiver is up, a queued frame is taken in.
FramesTaken == \A n \in 1 .. MaxFrames :
  (\E i \in DOMAIN queue : queue[i][1] = n) ~> (\A i \in DOMAIN queue : queue[i][1] # n)
=============================================================================
