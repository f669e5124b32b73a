-------------------------- MODULE SvReceiverProofs --------------------------
(***************************************************************************)
(* For any number of starts, frames and subscribers: if the application    *)
(* stops only a receiver that is up, its thread is gone when stop returns, *)
(* never follows a freed list element, and calls the listeners in the      *)
(* order of the frames and their ASDUs.                                    *)
(***************************************************************************)
EXTENDS SvReceiver, SequenceTheorems, TLAPS

-----------------------------------------------------------------------------
(* The inductive invariant.                                                *)

Listening == {"check", "tick", "find", "deliver", "close"}
Pc(t)     == thread[t].pc

Threads ==
  /\ thread = [t \in Thread |-> thread[t]]
  /\ \A t \in Thread :
       thread[t] = [pc |-> Pc(t), element |-> thread[t].element,
                    frame |-> thread[t].frame, asdu |-> thread[t].asdu]

\* Threads are born one after the other, and the next only when the last one
\* is gone.
Succession ==
  /\ starts \in 0 .. MaxStarts
  /\ \A t \in Thread : /\ t < starts => Pc(t) = "done"
                       /\ t > starts => Pc(t) = "none"
  /\ ~started => \A t \in Thread : ~Alive(t)
  /\ started => starts \in Thread
  /\ starts \in Thread => Pc(starts) # "none"

\* Stop waits for a thread that has cleared the flag stop looks at, and which
\* sets it as the last thing it does.
Awaited ==
  /\ \A t \in Thread : Pc(t) \in Listening \cup {"open", "end"} => ~stopped
  /\ app = "stopping" => started /\ Pc(starts) \in Listening \cup {"end", "done"}

SocketOfThread ==
  /\ \A t \in Thread : Pc(t) \in Listening => socket = 1
  /\ (\A t \in Thread : Pc(t) \notin Listening) => socket = 0

IInv ==
  /\ subscriberList \in Seq(Subscriber)
  /\ Threads
  /\ Succession
  /\ Awaited
  /\ SocketOfThread
  /\ ElementInList

-----------------------------------------------------------------------------
(* Threads and lists. *)

\* What a step of one thread to another place changes.
LEMMA ThreadMoves ==
  ASSUME Threads, NEW t \in Thread, NEW pc, Goto(t, pc)
  PROVE  /\ Threads' /\ Pc(t)' = pc /\ thread'[t].element = thread[t].element
         /\ \A u \in Thread : u # t => thread'[u] = thread[u] /\ Pc(u)' = Pc(u)
<1>1. thread' = [u \in Thread |-> IF u = t THEN [thread[t] EXCEPT !.pc = pc] ELSE thread[u]]
  BY DEF Goto, Threads
<1>2. [thread[t] EXCEPT !.pc = pc] =
        [pc |-> pc, element |-> thread[t].element,
         frame |-> thread[t].frame, asdu |-> thread[t].asdu]
  BY DEF Threads
<1>3. QED BY <1>1, <1>2 DEF Threads, Pc

\* An element of the list behind another one is in the list.
LEMMA NextInList ==
  ASSUME NEW list \in Seq(Subscriber), NEW s
  PROVE  NextOf(list, s) = None \/ NextOf(list, s) \in ToSet(list)
<1> DEFINE behind == {list[i] : i \in {j \in 2 .. Len(list) : list[j - 1] = s}}
<1>1. behind \subseteq ToSet(list)
  BY DEF ToSet
<1>2. NextOf(list, s) = IF behind = {} THEN None ELSE CHOOSE e \in behind : TRUE
  BY DEF NextOf
<1>3. behind # {} => (CHOOSE e \in behind : TRUE) \in behind
  OBVIOUS
<1> HIDE DEF behind
<1>4. QED BY <1>1, <1>2, <1>3

\* The first element is in the list.
LEMMA FirstInList ==
  ASSUME NEW list \in Seq(Subscriber)
  PROVE  First(list) = None \/ First(list) \in ToSet(list)
<1>1. list # <<>> => Head(list) = list[1] /\ 1 \in DOMAIN list
  BY EmptySeq
<1>2. QED BY <1>1 DEF First, ToSet

\* The list with an element taken out.
LEMMA RemovedList ==
  ASSUME NEW list \in Seq(Subscriber), NEW i \in DOMAIN list
  PROVE  RemoveAt(list, i) \in Seq(Subscriber)
<1>1. i \in 1 .. Len(list) /\ Len(list) \in Nat
  OBVIOUS
<1>2. SubSeq(list, 1, i - 1) \in Seq(Subscriber)
  <2>1. i - 1 \in Int /\ \A h \in 1 .. i - 1 : list[h] \in Subscriber
    BY <1>1, ElementOfSeq
  <2>2. QED BY <2>1, SubSeqProperties
<1>3. SubSeq(list, i + 1, Len(list)) \in Seq(Subscriber)
  <2>1. i + 1 \in Int /\ \A h \in i + 1 .. Len(list) : list[h] \in Subscriber
    BY <1>1, ElementOfSeq
  <2>2. QED BY <1>1, <2>1, SubSeqProperties
<1>4. QED BY <1>2, <1>3, ConcatProperties DEF RemoveAt

-----------------------------------------------------------------------------
(* The invariant is inductive.                                             *)

\* Only the thread started last is alive.
LEMMA OnlyLastAlive ==
  ASSUME Succession, NEW t \in Thread, Alive(t)
  PROVE  t = starts /\ started
BY BoundAssumption DEF Succession, Alive, Pc, Thread

\* The parts that a step of a living thread keeps when it stays alive.
LEMMA StaysAlive ==
  ASSUME Succession, NEW t \in Thread, Alive(t), UNCHANGED control,
         Pc(t)' \notin {"none", "done"}, \A u \in Thread : u # t => Pc(u)' = Pc(u)
  PROVE  Succession'
<1>1. t = starts /\ started
  BY OnlyLastAlive
<1>2. starts' = starts /\ started' = started
  BY DEF control
<1>3. QED BY <1>1, <1>2, BoundAssumption DEF Succession, Alive, Pc, Thread

LEMMA InitIInv == Init => IInv
<1> SUFFICES ASSUME Init PROVE IInv
  OBVIOUS
<1> USE DEF Init
<1>1. subscriberList \in Seq(Subscriber)
  OBVIOUS
<1>2. /\ \A t \in Thread : /\ thread[t] = [pc |-> "none", element |-> None,
                                            frame |-> None, asdu |-> 0]
                           /\ Pc(t) = "none"
  BY DEF Pc
<1>3. Threads
  BY <1>2 DEF Threads
<1>4. Succession
  BY <1>2, BoundAssumption DEF Succession, Alive, Pc, Thread
<1>5. Awaited /\ SocketOfThread /\ ElementInList
  BY <1>2 DEF Awaited, SocketOfThread, ElementInList, Listening, Pc
<1>6. QED BY <1>1, <1>3, <1>4, <1>5 DEF IInv

\* A new thread, when the last one is gone.
LEMMA StartIInv ==
  ASSUME IInv, Start
  PROVE  IInv'
<1>0. PICK n \in Thread : n = starts + 1
  BY BoundAssumption DEF Start, IInv, Succession, Thread
<1>1. /\ ~started /\ app = "idle"
      /\ \A t \in Thread : ~Alive(t)
  BY DEF Start, IInv, Succession
<1>2. thread' = [thread EXCEPT ![n].pc = "begin"]
  BY <1>0 DEF Start
<1>3. Goto(n, "begin")
  BY <1>2 DEF Goto
<1>4. /\ Threads' /\ Pc(n)' = "begin"
      /\ \A u \in Thread : u # n => thread'[u] = thread[u] /\ Pc(u)' = Pc(u)
  BY <1>1, <1>3, ThreadMoves DEF IInv
<1>5. starts' = n /\ started' = TRUE /\ app' = app
  BY <1>0 DEF Start
<1>6. Succession'
  <2>1. starts' \in 0 .. MaxStarts
    BY <1>5, BoundAssumption DEF Thread
  <2>2. ASSUME NEW t \in Thread
        PROVE  /\ t < n => Pc(t)' = "done"
               /\ t > n => Pc(t)' = "none"
    <3>1. t \in Int /\ starts \in Int /\ n = starts + 1
      BY <1>0, BoundAssumption DEF Thread, IInv, Succession
    <3>2. CASE t < n
      <4>1. t = starts \/ t < starts
        BY <3>1, <3>2
      <4>2. t # n /\ Pc(t)' = Pc(t)
        BY <1>4, <3>1, <3>2
      <4>3. CASE t < starts
        BY <3>1, <3>2, <4>2, <4>3 DEF IInv, Succession
      <4>4. CASE t = starts
        <5>1. Pc(t) = "none" \/ Pc(t) = "done"
          BY <1>1 DEF Alive, Pc
        <5>2. Pc(t) # "none"
          BY <4>4 DEF IInv, Succession
        <5>3. QED BY <4>2, <5>1, <5>2, <3>1, <3>2
      <4>5. QED BY <4>1, <4>3, <4>4
    <3>3. CASE t > n
      BY <1>4, <3>1, <3>3 DEF IInv, Succession
    <3>4. QED BY <3>2, <3>3, <3>1
  <2>3. QED BY <1>4, <1>5, <2>1, <2>2 DEF Succession
<1>7. \A t \in Thread : Pc(t) \notin Listening \cup {"open", "end"}
  BY <1>1 DEF Alive, Pc, Listening
<1>8. \A t \in Thread : Pc(t)' \notin Listening \cup {"open", "end"}
  BY <1>4, <1>7 DEF Listening
<1>9. Awaited'
  BY <1>1, <1>5, <1>8 DEF Awaited
<1>10. SocketOfThread'
  BY <1>7, <1>8 DEF SocketOfThread, Start, net, IInv
<1>11. ElementInList'
  BY <1>8 DEF ElementInList, Listening, Pc
<1>12. QED BY <1>4, <1>6, <1>9, <1>10, <1>11 DEF IInv, Start

\* What the application's other steps leave alone.
LEMMA SameThreads ==
  ASSUME IInv, UNCHANGED <<flags, net, thread>>
  PROVE  Threads' /\ SocketOfThread' /\ \A t \in Thread : Pc(t)' = Pc(t)
BY DEF IInv, flags, net, Threads, SocketOfThread, Pc

\* A patient application waits for a thread that listens.
LEMMA StopIInv ==
  ASSUME Patient, IInv, Stop
  PROVE  IInv'
<1>1. PICK t \in Thread : thread[t].pc \in {"check", "tick", "find", "deliver"}
  BY DEF Stop, Up
<1>2. t = starts /\ started
  BY <1>1, OnlyLastAlive DEF IInv, Alive
<1>3. Threads' /\ Succession' /\ SocketOfThread' /\ ElementInList'
  BY DEF Stop, IInv, net, Threads, Succession, Alive, SocketOfThread, ElementInList, Pc
<1>4. Awaited'
  BY <1>1, <1>2 DEF Stop, IInv, Awaited, Pc, Listening
<1>5. QED BY <1>3, <1>4 DEF Stop, IInv

\* When the awaited thread has set the flag, it is gone.
LEMMA StopReturnsIInv ==
  ASSUME IInv, StopReturns
  PROVE  IInv'
<1>1. started /\ starts \in Thread /\ Pc(starts) = "done"
  BY DEF StopReturns, IInv, Succession, Awaited
<1>2. \A t \in Thread : ~Alive(t)
  BY <1>1, BoundAssumption DEF IInv, Succession, Alive, Pc, Thread
<1>3. Threads' /\ SocketOfThread' /\ \A t \in Thread : Pc(t)' = Pc(t)
  BY SameThreads DEF StopReturns
<1>4. Succession'
  BY <1>2 DEF StopReturns, IInv, Succession, Alive, Pc
<1>5. Awaited' /\ ElementInList'
  BY DEF StopReturns, IInv, Awaited, ElementInList, flags, Pc
<1>6. QED BY <1>3, <1>4, <1>5 DEF StopReturns, IInv

\* A longer list still has its elements.
LEMMA AddSubscriberIInv ==
  ASSUME IInv, NEW s \in Subscriber, AddSubscriber(s)
  PROVE  IInv'
<1>1. /\ subscriberList \in Seq(Subscriber)
      /\ subscriberList' = Append(subscriberList, s)
      /\ UNCHANGED <<control, flags, net, thread, call>>
  BY DEF IInv, AddSubscriber
<1>2. Threads' /\ SocketOfThread'
  BY <1>1, SameThreads
<1>3. Succession' /\ Awaited'
  BY <1>1 DEF IInv, control, flags, Succession, Awaited, Alive, Pc
<1>4. ToSet(subscriberList) \subseteq ToSet(subscriberList')
  BY <1>1, AppendProperties DEF ToSet
<1>5. ElementInList'
  BY <1>1, <1>4 DEF IInv, ElementInList
<1>6. QED BY <1>1, <1>2, <1>3, <1>5 DEF IInv

\* While the receiver is stopped, no thread is at an element.
LEMMA NoElementInUse ==
  ASSUME Succession, ~started, UNCHANGED thread
  PROVE  ElementInList'
BY DEF Succession, Alive, ElementInList

LEMMA RemoveSubscriberIInv ==
  ASSUME IInv, NEW s \in Subscriber, RemoveSubscriber(s)
  PROVE  IInv'
<1>1. ~started /\ UNCHANGED <<control, flags, net, thread, call>>
  BY DEF RemoveSubscriber
<1>2. subscriberList' \in Seq(Subscriber)
  BY RemovedList DEF IInv, RemoveSubscriber
<1>3. Threads' /\ SocketOfThread'
  BY <1>1, SameThreads
<1>4. Succession' /\ Awaited'
  BY <1>1 DEF IInv, control, flags, Succession, Awaited, Alive, Pc
<1>5. QED BY <1>1, <1>2, <1>3, <1>4, NoElementInUse DEF IInv

LEMMA DestroyIInv ==
  ASSUME IInv, Destroy
  PROVE  IInv'
<1>1. ~started /\ UNCHANGED <<started, starts, flags, net, thread>>
  BY DEF Destroy
<1>2. subscriberList' \in Seq(Subscriber)
  BY DEF Destroy
<1>3. Threads' /\ SocketOfThread'
  BY <1>1, SameThreads
<1>4. Succession' /\ Awaited'
  BY <1>1 DEF Destroy, IInv, flags, Succession, Awaited, Alive, Pc
<1>5. QED BY <1>1, <1>2, <1>3, <1>4, NoElementInUse DEF IInv

\* A frame changes the queue only.
LEMMA ArriveIInv ==
  ASSUME IInv, NEW f \in Frame, Arrive(f)
  PROVE  IInv'
BY DEF Arrive, IInv, control, flags, Threads, Succession, Awaited, Alive, SocketOfThread,
       ElementInList, Pc

\* The invariant follows from the place and the element of the living thread,
\* the flag stopped and the socket: the other threads do not matter.
LEMMA LivingThread ==
  ASSUME IInv, NEW t \in Thread, Alive(t), Threads', UNCHANGED <<control, subscriberList>>,
         \A u \in Thread : u # t => thread'[u] = thread[u] /\ Pc(u)' = Pc(u),
         Pc(t)' \notin {"none", "done"},
         Pc(t)' \in Listening \cup {"open", "end"} => ~stopped',
         app = "stopping" => Pc(t)' \in Listening \cup {"end"},
         socket' = IF Pc(t)' \in Listening THEN 1 ELSE 0,
         Pc(t)' \in {"find", "deliver"} =>
           thread'[t].element \in {None} \cup ToSet(subscriberList)
  PROVE  IInv'
<1>1. t = starts /\ started /\ starts' = starts /\ started' = started /\ app' = app
  BY OnlyLastAlive DEF IInv, control
<1>2. \A u \in Thread : u # t => Pc(u) \in {"none", "done"}
  BY <1>1, OnlyLastAlive DEF IInv, Alive, Pc
<1>3. \A u \in Thread : u # t => Pc(u)' \notin Listening \cup {"open", "end"}
  BY <1>2 DEF Listening
<1>4. Succession'
  BY StaysAlive DEF IInv
<1>5. Awaited'
  BY <1>1, <1>3 DEF Awaited
<1>6. SocketOfThread'
  BY <1>3 DEF SocketOfThread
<1>7. ElementInList'
  BY <1>3 DEF ElementInList, Listening, Pc
<1>8. QED BY <1>4, <1>5, <1>6, <1>7 DEF IInv

\* The socket and the flag as the living thread finds them.
LEMMA Found ==
  ASSUME IInv, NEW t \in Thread, Alive(t)
  PROVE  /\ t = starts
         /\ Pc(t) \in Listening \cup {"open", "end"} => ~stopped
         /\ app = "stopping" => Pc(t) \in Listening \cup {"end"}
         /\ socket = IF Pc(t) \in Listening THEN 1 ELSE 0
         /\ Pc(t) \in {"find", "deliver"} =>
              thread[t].element \in {None} \cup ToSet(subscriberList)
<1>1. t = starts
  BY OnlyLastAlive DEF IInv
<1>2. \A u \in Thread : u # t => Pc(u) \in {"none", "done"}
  BY <1>1, OnlyLastAlive DEF IInv, Alive, Pc
<1>3. \A u \in Thread : u # t => Pc(u) \notin Listening
  BY <1>2 DEF Listening
<1>4. socket = IF Pc(t) \in Listening THEN 1 ELSE 0
  BY <1>3 DEF IInv, SocketOfThread
<1>5. Pc(t) \in Listening \cup {"open", "end"} => ~stopped
  BY DEF IInv, Awaited
<1>6. app = "stopping" => Pc(t) \in Listening \cup {"end"}
  BY <1>1 DEF IInv, Awaited, Alive, Pc
<1>7. Pc(t) \in {"find", "deliver"} =>
        thread[t].element \in {None} \cup ToSet(subscriberList)
  BY DEF IInv, ElementInList, Pc
<1>8. QED BY <1>1, <1>4, <1>5, <1>6, <1>7

\* Before the socket is open.
LEMMA BeginIInv ==
  ASSUME IInv, NEW t \in Thread, Begin(t)
  PROVE  IInv'
<1>1. Pc(t) = "begin" /\ Alive(t) /\ Goto(t, "begun") /\ UNCHANGED <<control, subscriberList>>
      /\ socket' = socket
  BY DEF Begin, At, Pc, Alive, net
<1>2. /\ Threads' /\ Pc(t)' = "begun"
      /\ \A u \in Thread : u # t => thread'[u] = thread[u] /\ Pc(u)' = Pc(u)
  BY <1>1, ThreadMoves DEF IInv
<1>3. app # "stopping" /\ socket = 0
  BY <1>1, Found DEF Listening
<1>4. QED BY <1>1, <1>2, <1>3, LivingThread DEF Listening

LEMMA ClearStoppedIInv ==
  ASSUME IInv, NEW t \in Thread, ClearStopped(t)
  PROVE  IInv'
<1>1. Pc(t) = "begun" /\ Alive(t) /\ Goto(t, "open") /\ UNCHANGED <<control, subscriberList>>
      /\ socket' = socket /\ stopped' = FALSE
  BY DEF ClearStopped, At, Pc, Alive, net
<1>2. /\ Threads' /\ Pc(t)' = "open"
      /\ \A u \in Thread : u # t => thread'[u] = thread[u] /\ Pc(u)' = Pc(u)
  BY <1>1, ThreadMoves DEF IInv
<1>3. app # "stopping" /\ socket = 0
  BY <1>1, Found DEF Listening
<1>4. QED BY <1>1, <1>2, <1>3, LivingThread DEF Listening

LEMMA OpenSocketIInv ==
  ASSUME IInv, NEW t \in Thread, OpenSocket(t)
  PROVE  IInv'
<1>1. Pc(t) = "open" /\ Alive(t) /\ Goto(t, "check") /\ UNCHANGED <<control, subscriberList>>
      /\ socket' = socket + 1 /\ stopped' = stopped
  BY DEF OpenSocket, At, Pc, Alive
<1>2. /\ Threads' /\ Pc(t)' = "check"
      /\ \A u \in Thread : u # t => thread'[u] = thread[u] /\ Pc(u)' = Pc(u)
  BY <1>1, ThreadMoves DEF IInv
<1>3. ~stopped /\ socket = 0
  BY <1>1, Found DEF Listening
<1>4. QED BY <1>1, <1>2, <1>3, LivingThread DEF Listening

\* While the socket is open, the thread stays alive and at an element that is
\* in the list.
StaysListening(t) ==
  /\ Threads' /\ Pc(t)' \in Listening
  /\ \A u \in Thread : u # t => thread'[u] = thread[u] /\ Pc(u)' = Pc(u)
  /\ Pc(t)' \in {"find", "deliver"} =>
       thread'[t].element \in {None} \cup ToSet(subscriberList)

LEMMA GotoStaysListening ==
  ASSUME IInv, NEW t \in Thread, Alive(t), NEW pc \in Listening, Goto(t, pc),
         pc \in {"find", "deliver"} => Pc(t) \in {"find", "deliver"}
  PROVE  StaysListening(t)
<1>1. /\ Threads' /\ Pc(t)' = pc /\ thread'[t].element = thread[t].element
      /\ \A u \in Thread : u # t => thread'[u] = thread[u] /\ Pc(u)' = Pc(u)
  BY ThreadMoves DEF IInv
<1>2. QED BY <1>1, Found DEF StaysListening

LEMMA TickStaysListening ==
  ASSUME IInv, NEW t \in Thread, Tick(t)
  PROVE  StaysListening(t)
<1> DEFINE r == [pc |-> "find", frame |-> Head(queue), asdu |-> 0,
                 element |-> First(subscriberList)]
<1>1. thread' = [u \in Thread |-> IF u = t THEN r ELSE thread[u]]
  BY DEF Tick, IInv, Threads
<1>2. First(subscriberList) \in {None} \cup ToSet(subscriberList)
  BY FirstInList DEF IInv
<1>3. /\ r = [pc |-> r.pc, element |-> r.element, frame |-> r.frame, asdu |-> r.asdu]
      /\ r.pc = "find" /\ r.element = First(subscriberList)
  OBVIOUS
<1> HIDE DEF r
<1>4. Threads' /\ thread'[t] = r /\ \A u \in Thread : u # t => thread'[u] = thread[u]
  BY <1>1, <1>3 DEF IInv, Threads, Pc
<1>5. QED BY <1>2, <1>3, <1>4 DEF StaysListening, Pc, Listening

LEMMA FindStaysListening ==
  ASSUME IInv, NEW t \in Thread, Find(t)
  PROVE  StaysListening(t)
<1> DEFINE e == thread[t].element
<1>1. Pc(t) = "find" /\ Alive(t)
  BY DEF Find, At, Pc, Alive
<1>2. thread = [u \in Thread |-> thread[u]]
      /\ thread[t] = [pc |-> Pc(t), element |-> e,
                      frame |-> thread[t].frame, asdu |-> thread[t].asdu]
  BY DEF IInv, Threads
<1>3. CASE e = None \/ (Matches(e, thread[t].frame[2]) /\ thread[t].frame[2].asdus = 0)
  <2>1. Goto(t, "check")
    BY <1>3 DEF Find
  <2>2. QED BY <1>1, <2>1, GotoStaysListening DEF Listening
<1>4. ASSUME NEW r, thread' = [u \in Thread |-> IF u = t THEN r ELSE thread[u]],
             r = [pc |-> r.pc, element |-> r.element, frame |-> r.frame, asdu |-> r.asdu],
             r.pc \in {"find", "deliver"}, r.element \in {None} \cup ToSet(subscriberList)
      PROVE  StaysListening(t)
  <2>1. Threads' /\ thread'[t] = r /\ \A u \in Thread : u # t => thread'[u] = thread[u]
    BY <1>4 DEF IInv, Threads, Pc
  <2>2. QED BY <1>4, <2>1 DEF StaysListening, Pc, Listening
<1>5. CASE e # None /\ Matches(e, thread[t].frame[2]) /\ thread[t].frame[2].asdus # 0
  <2> DEFINE r == [pc |-> "deliver", element |-> e, frame |-> thread[t].frame, asdu |-> 1]
  <2>1. thread' = [thread EXCEPT ![t].pc = "deliver", ![t].asdu = 1]
    BY <1>5 DEF Find
  <2> DEFINE q == [pc |-> "deliver", element |-> e, frame |-> thread[t].frame,
                   asdu |-> thread[t].asdu]
  <2>2. [thread[t] EXCEPT !.pc = "deliver"] = q /\ [q EXCEPT !.asdu = 1] = r
    <3>1. [thread[t] EXCEPT !.pc = "deliver"] = q
      BY <1>2
    <3>2. QED BY <3>1
  <2>3. thread' = [u \in Thread |-> IF u = t THEN r ELSE thread[u]]
    BY <1>2, <2>1, <2>2
  <2>4. QED BY <1>1, <1>4, <2>3, Found
<1>6. CASE e # None /\ ~Matches(e, thread[t].frame[2])
  <2> DEFINE n == NextOf(subscriberList, e)
             r == [pc |-> "find", element |-> n,
                   frame |-> thread[t].frame, asdu |-> thread[t].asdu]
  <2>1. thread' = [thread EXCEPT ![t].element = n]
    BY <1>6 DEF Find
  <2>2. n \in {None} \cup ToSet(subscriberList)
    BY NextInList DEF IInv
  <2> HIDE DEF n
  <2>3. [thread[t] EXCEPT !.element = n] = r
    BY <1>1, <1>2
  <2>4. thread' = [u \in Thread |-> IF u = t THEN r ELSE thread[u]]
    BY <1>2, <2>1, <2>3
  <2>5. QED BY <1>4, <2>2, <2>4
<1>7. QED BY <1>3, <1>5, <1>6

LEMMA DeliverStaysListening ==
  ASSUME IInv, NEW t \in Thread, Deliver(t)
  PROVE  StaysListening(t)
<1>1. Pc(t) = "deliver" /\ Alive(t)
  BY DEF Deliver, At, Pc, Alive
<1>2. CASE thread[t].asdu < thread[t].frame[2].asdus
  <2> DEFINE a == thread[t].asdu + 1
             r == [pc |-> "deliver", element |-> thread[t].element,
                   frame |-> thread[t].frame, asdu |-> a]
  <2>1. thread' = [thread EXCEPT ![t].asdu = a]
    BY <1>2 DEF Deliver
  <2> HIDE DEF a
  <2>2. thread = [u \in Thread |-> thread[u]] /\ [thread[t] EXCEPT !.asdu = a] = r
    BY <1>1 DEF IInv, Threads
  <2>3. thread' = [u \in Thread |-> IF u = t THEN r ELSE thread[u]]
    BY <2>1, <2>2
  <2>4. Threads' /\ thread'[t] = r /\ \A u \in Thread : u # t => thread'[u] = thread[u]
    BY <2>3 DEF IInv, Threads, Pc
  <2>5. QED BY <1>1, <2>4, Found DEF StaysListening, Pc, Listening
<1>3. CASE ~(thread[t].asdu < thread[t].frame[2].asdus)
  <2>1. Goto(t, "check")
    BY <1>3 DEF Deliver
  <2>2. QED BY <1>1, <2>1, GotoStaysListening DEF Listening
<1>4. QED BY <1>2, <1>3

LEMMA ListeningIInv ==
  ASSUME IInv, NEW t \in Thread,
         CheckRunning(t) \/ TickEmpty(t) \/ Tick(t) \/ Find(t) \/ Deliver(t)
  PROVE  IInv'
<1>1. /\ Pc(t) \in {"check", "tick", "find", "deliver"} /\ Alive(t)
      /\ UNCHANGED <<control, subscriberList, stopped, socket>>
  BY DEF CheckRunning, TickEmpty, Tick, Find, Deliver, At, Pc, Alive, flags, net
<1>2. ~stopped /\ socket = 1
  BY <1>1, Found DEF Listening
<1>3. StaysListening(t)
  <2>1. CASE CheckRunning(t)
    BY <1>1, <2>1, GotoStaysListening DEF CheckRunning, Listening
  <2>2. CASE TickEmpty(t)
    BY <1>1, <2>2, GotoStaysListening DEF TickEmpty, Listening
  <2>3. QED BY <2>1, <2>2, TickStaysListening, FindStaysListening, DeliverStaysListening
<1>4. QED BY <1>1, <1>2, <1>3, LivingThread DEF StaysListening, Listening

\* When the socket is closed, and at the end.
LEMMA CloseSocketIInv ==
  ASSUME IInv, NEW t \in Thread, CloseSocket(t)
  PROVE  IInv'
<1>1. Pc(t) = "close" /\ Alive(t) /\ Goto(t, "end") /\ UNCHANGED <<control, subscriberList>>
      /\ socket' = socket - 1 /\ stopped' = stopped
  BY DEF CloseSocket, At, Pc, Alive
<1>2. /\ Threads' /\ Pc(t)' = "end"
      /\ \A u \in Thread : u # t => thread'[u] = thread[u] /\ Pc(u)' = Pc(u)
  BY <1>1, ThreadMoves DEF IInv
<1>3. ~stopped /\ socket = 1
  BY <1>1, Found DEF Listening
<1>4. QED BY <1>1, <1>2, <1>3, LivingThread DEF Listening

LEMMA EndIInv ==
  ASSUME IInv, NEW t \in Thread, End(t)
  PROVE  IInv'
<1>1. Pc(t) = "end" /\ Alive(t) /\ Goto(t, "done") /\ UNCHANGED <<control, subscriberList>>
      /\ socket' = socket
  BY DEF End, At, Pc, Alive, net
<1>2. /\ Threads' /\ Pc(t)' = "done"
      /\ \A u \in Thread : u # t => thread'[u] = thread[u] /\ Pc(u)' = Pc(u)
  BY <1>1, ThreadMoves DEF IInv
<1>3. t = starts /\ started /\ socket = 0
  BY <1>1, Found, OnlyLastAlive DEF Listening, IInv
<1>4. starts' = starts /\ started' = started /\ app' = app
  BY <1>1 DEF control
<1>5. Succession'
  BY <1>2, <1>3, <1>4, BoundAssumption DEF IInv, Succession, Alive, Pc, Thread
<1>6. \A u \in Thread : Pc(u)' \in {"none", "done"}
  BY <1>2, <1>3, OnlyLastAlive DEF IInv, Alive, Pc
<1>7. Awaited'
  BY <1>2, <1>3, <1>4, <1>6 DEF Awaited, Listening
<1>8. SocketOfThread' /\ ElementInList'
  BY <1>1, <1>3, <1>6 DEF SocketOfThread, ElementInList, Listening, Pc
<1>9. QED BY <1>1, <1>2, <1>5, <1>7, <1>8 DEF IInv

LEMMA NextIInv ==
  ASSUME Patient, IInv, [Next]_vars
  PROVE  IInv'
<1>1. CASE Start                                     BY <1>1, StartIInv
<1>2. CASE Stop                                      BY <1>2, StopIInv
<1>3. CASE StopReturns                               BY <1>3, StopReturnsIInv
<1>4. CASE Destroy                                   BY <1>4, DestroyIInv
<1>5. CASE \E s \in Subscriber : AddSubscriber(s)    BY <1>5, AddSubscriberIInv
<1>6. CASE \E s \in Subscriber : RemoveSubscriber(s) BY <1>6, RemoveSubscriberIInv
<1>7. CASE \E t \in Thread : Step(t)
  <2>1. PICK t \in Thread : Step(t)
    BY <1>7
  <2>2. QED BY <2>1, BeginIInv, ClearStoppedIInv, OpenSocketIInv, ListeningIInv,
               CloseSocketIInv, EndIInv DEF Step
<1>8. CASE \E f \in Frame : Arrive(f)                BY <1>8, ArriveIInv
<1>9. CASE UNCHANGED vars
  BY <1>9 DEF vars, control, flags, net, IInv, Threads, Succession, Awaited, Alive,
              SocketOfThread, ElementInList, Pc
<1>10. QED BY <1>1, <1>2, <1>3, <1>4, <1>5, <1>6, <1>7, <1>8, <1>9 DEF Next

LEMMA SpecIInv ==
  ASSUME Patient
  PROVE  Spec => []IInv
<1>1. Init => IInv
  BY InitIInv
<1>2. IInv /\ [Next]_vars => IInv'
  BY NextIInv
<1>3. QED BY <1>1, <1>2, PTL DEF Spec

-----------------------------------------------------------------------------
(* The order of the calls.                                                 *)

Taken(n) == n <= arrived /\ \A i \in DOMAIN queue : n < queue[i][1]

\* The queue holds frames in the order of their arrival.
Arrivals ==
  /\ arrived \in Nat
  /\ queue \in Seq(Nat \X Frame)
  /\ \A i \in DOMAIN queue : queue[i][1] <= arrived
  /\ \A i, j \in DOMAIN queue : i < j => queue[i][1] < queue[j][1]

Complete == call # None => call.asdu = call.asdus

Before(n) == call # None => call.frame < n

\* The last call was for a frame that has left the queue.
CallTaken ==
  call # None =>
    /\ call \in [to : Subscriber, frame : Nat, asdu : Nat, asdus : Nat]
    /\ Taken(call.frame)

\* The frame a thread is at has left the queue.
InHand(t) ==
  Pc(t) \in {"find", "deliver"} =>
    thread[t].frame \in Nat \X Frame /\ Taken(thread[t].frame[1])

\* What a thread at a listener has found.
AtListener(t) ==
  Pc(t) = "deliver" =>
    /\ thread[t].element \in Subscriber
    /\ AppIdOf[thread[t].element] = thread[t].frame[2].appId
    /\ thread[t].asdu \in 1 .. thread[t].frame[2].asdus

\* A frame nobody was called for is newer than the last call, which ended its
\* frame.
Untold(t) ==
  Pc(t) = "find" \/ (Pc(t) = "deliver" /\ thread[t].asdu = 1) =>
    Before(thread[t].frame[1]) /\ Complete

\* Between two ASDUs the last call was for the one before.
Halfway(t) ==
  Pc(t) = "deliver" /\ thread[t].asdu # 1 =>
    call = [to |-> thread[t].element, frame |-> thread[t].frame[1],
            asdu |-> thread[t].asdu - 1, asdus |-> thread[t].frame[2].asdus]

Order ==
  /\ Arrivals
  /\ CallTaken
  /\ \A t \in Thread : InHand(t) /\ AtListener(t) /\ Untold(t) /\ Halfway(t)
  /\ (\A t \in Thread : Pc(t) # "deliver") => Complete
  /\ app = "destroyed" => ~started
-----------------------------------------------------------------------------
(* The order of the calls is kept.                                         *)

LEMMA InitOrder == Init => Order
<1> SUFFICES ASSUME Init PROVE Order
  OBVIOUS
<1>1. Arrivals
  BY DEF Init, Arrivals
<1>2. CallTaken /\ Complete /\ (app = "destroyed" => ~started)
  BY DEF Init, CallTaken, Complete
<1>3. ASSUME NEW t \in Thread PROVE Pc(t) = "none"
  BY DEF Init, Pc
<1>4. QED BY <1>1, <1>2, <1>3 DEF Order, InHand, AtListener, Untold, Halfway

\* What a step that concerns no call may do with the queue.
KeepsOrder == Arrivals' /\ \A n \in Nat : Taken(n) => Taken(n)'

LEMMA SameQueue ==
  ASSUME Arrivals, UNCHANGED <<queue, arrived>>
  PROVE  KeepsOrder
BY DEF Arrivals, KeepsOrder, Taken

\* Steps that leave every thread where it is, or take it from one place outside
\* find and deliver to another.
LEMMA OutsideOrder ==
  ASSUME Order, KeepsOrder, UNCHANGED call, app' = "destroyed" => ~started',
         \A t \in Thread : \/ thread'[t] = thread[t]
                           \/ Pc(t) # "deliver" /\ Pc(t)' \notin {"find", "deliver"}
  PROVE  Order'
<1>1. CallTaken'
  <2>1. SUFFICES ASSUME call # None
                 PROVE  /\ call \in [to : Subscriber, frame : Nat, asdu : Nat, asdus : Nat]
                        /\ Taken(call.frame)'
    BY DEF CallTaken
  <2>2. call.frame \in Nat /\ Taken(call.frame)
    BY <2>1 DEF Order, CallTaken
  <2>3. QED BY <2>1, <2>2 DEF Order, CallTaken, KeepsOrder
<1>2. ASSUME NEW t \in Thread
      PROVE  InHand(t)' /\ AtListener(t)' /\ Untold(t)' /\ Halfway(t)'
  <2>1. CASE Pc(t)' \notin {"find", "deliver"}
    BY <2>1 DEF InHand, AtListener, Untold, Halfway
  <2>2. CASE Pc(t)' \in {"find", "deliver"}
    <3>1. thread'[t] = thread[t] /\ Pc(t)' = Pc(t)
      BY <2>2 DEF Pc
    <3>2. thread[t].frame \in Nat \X Frame /\ Taken(thread[t].frame[1])
      BY <2>2, <3>1 DEF Order, InHand
    <3>3. thread[t].frame[1] \in Nat
      BY <3>2
    <3>4. InHand(t)'
      BY <3>1, <3>2, <3>3 DEF InHand, KeepsOrder
    <3>5. QED BY <3>1, <3>4 DEF Order, AtListener, Untold, Halfway, Before, Complete
  <2>3. QED BY <2>1, <2>2
<1>3. (\A t \in Thread : Pc(t)' # "deliver") => Complete'
  <2>1. SUFFICES ASSUME \A t \in Thread : Pc(t)' # "deliver" PROVE Complete
    BY DEF Complete
  <2>2. \A t \in Thread : Pc(t) # "deliver"
    BY <2>1 DEF Pc
  <2>3. QED BY <2>2 DEF Order
<1>4. QED BY <1>1, <1>2, <1>3 DEF Order, KeepsOrder

\* A living thread goes to a place outside find and deliver and calls nobody.
LEMMA GotoOrder ==
  ASSUME IInv, Order, KeepsOrder, UNCHANGED <<app, started, call>>,
         NEW t \in Thread, Pc(t) # "deliver", NEW pc, pc \notin {"find", "deliver"}, Goto(t, pc)
  PROVE  Order'
<1>1. Pc(t)' = pc /\ \A u \in Thread : u # t => thread'[u] = thread[u]
  BY ThreadMoves DEF IInv
<1>2. QED BY <1>1, OutsideOrder DEF Order

\* No other thread is at an element while one thread lives.
LEMMA OthersGone ==
  ASSUME IInv, NEW t \in Thread, Alive(t), NEW u \in Thread, u # t
  PROVE  Pc(u) \notin {"find", "deliver"}
BY OnlyLastAlive DEF IInv, Alive, Pc

\* What has to be shown of a step of the living thread.
LEMMA LivingOrder ==
  ASSUME IInv, Order, NEW t \in Thread, Alive(t), Arrivals', CallTaken',
         UNCHANGED <<app, started>>,
         \A u \in Thread : u # t => thread'[u] = thread[u],
         InHand(t)', AtListener(t)', Untold(t)', Halfway(t)',
         Pc(t)' # "deliver" => Complete'
  PROVE  Order'
<1>1. ASSUME NEW u \in Thread, u # t
      PROVE  InHand(u)' /\ AtListener(u)' /\ Untold(u)' /\ Halfway(u)'
  <2>1. Pc(u)' \notin {"find", "deliver"}
    BY <1>1, OthersGone DEF Pc
  <2>2. QED BY <2>1 DEF InHand, AtListener, Untold, Halfway
<1>2. QED BY <1>1 DEF Order

\* The oldest frame leaves the queue; it is newer than the last call.
LEMMA TickOrder ==
  ASSUME IInv, Order, NEW t \in Thread, Tick(t)
  PROVE  Order'
<1>1. Pc(t) = "tick" /\ Alive(t) /\ queue # <<>> /\ queue' = Tail(queue)
      /\ UNCHANGED <<arrived, call, app, started>>
  BY DEF Tick, At, Pc, Alive, control
<1>2. PICK h : h = Head(queue)
  OBVIOUS
<1>3. PICK r : r = [pc |-> "find", frame |-> h, asdu |-> 0, element |-> First(subscriberList)]
  OBVIOUS
<1>4. thread' = [u \in Thread |-> IF u = t THEN r ELSE thread[u]]
  BY <1>2, <1>3 DEF Tick, IInv, Threads
<1>5. thread'[t] = r /\ \A u \in Thread : u # t => thread'[u] = thread[u]
  BY <1>4
<1>6. Pc(t)' = "find" /\ thread'[t].frame = h
  BY <1>3, <1>5 DEF Pc
<1>7. /\ Len(queue) \in Nat /\ Len(queue) >= 1 /\ DOMAIN queue = 1 .. Len(queue)
      /\ h = queue[1] /\ h \in Nat \X Frame
      /\ queue' \in Seq(Nat \X Frame)
      /\ Len(queue') = Len(queue) - 1
      /\ \A i \in 1 .. Len(queue') : queue'[i] = queue[i + 1]
  BY <1>1, <1>2, EmptySeq, HeadTailProperties, ElementOfSeq DEF Order, Arrivals
<1> DEFINE l == Len(queue)
<1>8. DOMAIN queue = 1 .. l /\ DOMAIN queue' = 1 .. l - 1 /\ l \in Nat /\ l >= 1
      /\ \A i \in 1 .. l - 1 : queue'[i] = queue[i + 1]
  BY <1>7
<1> HIDE DEF l
<1>9. \A i \in DOMAIN queue' : /\ i \in Nat /\ i + 1 \in DOMAIN queue /\ queue'[i] = queue[i + 1]
                               /\ 1 \in DOMAIN queue /\ 1 < i + 1
  BY <1>8
<1>10. \A i \in DOMAIN queue : queue[i] \in Nat \X Frame /\ queue[i][1] \in Nat
  <2>1. \A i \in DOMAIN queue : queue[i] \in Nat \X Frame
    BY <1>8 DEF Order, Arrivals
  <2>2. QED BY <2>1
<1>11. Arrivals'
  <2>1. \A i \in DOMAIN queue' : queue'[i][1] <= arrived'
    BY <1>1, <1>9 DEF Order, Arrivals
  <2>2. \A i, j \in DOMAIN queue' : i < j => queue'[i][1] < queue'[j][1]
    <3>1. SUFFICES ASSUME NEW i \in DOMAIN queue', NEW j \in DOMAIN queue', i < j
                   PROVE  queue'[i][1] < queue'[j][1]
      OBVIOUS
    <3>2. i + 1 \in DOMAIN queue /\ j + 1 \in DOMAIN queue /\ i + 1 < j + 1
      BY <1>9, <3>1
    <3>3. queue[i + 1][1] < queue[j + 1][1]
      BY <3>2 DEF Order, Arrivals
    <3>4. QED BY <1>9, <3>3
  <2>3. QED BY <1>1, <1>7, <2>1, <2>2 DEF Arrivals, Order
<1>12. \A n \in Nat : Taken(n) => Taken(n)'
  BY <1>1, <1>9 DEF Taken
<1>13. CallTaken'
  BY <1>1, <1>12 DEF Order, CallTaken
<1>14. h[1] \in Nat /\ Taken(h[1])'
  <2>1. h = queue[1] /\ 1 \in DOMAIN queue /\ h[1] <= arrived
    BY <1>7, <1>8 DEF Order, Arrivals
  <2>2. \A i \in DOMAIN queue' : h[1] < queue'[i][1]
    BY <1>9, <2>1 DEF Order, Arrivals
  <2>3. QED BY <1>1, <1>7, <2>1, <2>2 DEF Taken
<1>15. Before(h[1])' /\ Complete'
  <2>1. 1 \in DOMAIN queue /\ h = queue[1]
    BY <1>7, <1>8
  <2>2. call # None => call.frame < h[1]
    BY <2>1 DEF Order, CallTaken, Taken
  <2>3. \A u \in Thread : Pc(u) # "deliver"
    BY <1>1, OthersGone
  <2>4. QED BY <1>1, <2>2, <2>3 DEF Order, Before, Complete
<1>16. /\ InHand(t)' /\ AtListener(t)' /\ Untold(t)' /\ Halfway(t)'
  BY <1>6, <1>7, <1>14, <1>15 DEF InHand, AtListener, Untold, Halfway, Before
<1>17. QED BY <1>1, <1>5, <1>11, <1>13, <1>15, <1>16, LivingOrder

\* An element with the application identifier of the frame.
LEMMA FindOrder ==
  ASSUME IInv, Order, NEW t \in Thread, Find(t)
  PROVE  Order'
<1>1. Pc(t) = "find" /\ Alive(t) /\ UNCHANGED <<queue, arrived, call, app, started>>
  BY DEF Find, At, Pc, Alive, control, net
<1>2. KeepsOrder /\ Arrivals' /\ CallTaken'
  <2>1. KeepsOrder
    BY <1>1, SameQueue DEF Order
  <2>2. CallTaken'
    BY <1>1 DEF Order, CallTaken, Taken
  <2>3. QED BY <2>1, <2>2 DEF KeepsOrder
<1>3. PICK e, k, a : e = thread[t].element /\ k = thread[t].frame /\ a = thread[t].asdu
  OBVIOUS
<1>4. thread = [u \in Thread |-> thread[u]]
      /\ thread[t] = [pc |-> "find", element |-> e, frame |-> k, asdu |-> a]
  BY <1>1, <1>3 DEF IInv, Threads
<1>5. k \in Nat \X Frame /\ k[2] \in Frame /\ k[2].asdus \in Nat /\ Taken(k[1])'
  BY <1>1, <1>3, FrameAssumption DEF Order, InHand, Taken
<1>6. Before(k[1])' /\ Complete' /\ Before(k[1])
  BY <1>1, <1>3 DEF Order, Untold, Before, Complete
<1>7. CASE e = None \/ (Matches(e, k[2]) /\ k[2].asdus = 0)
  <2>1. Goto(t, "check")
    BY <1>3, <1>7 DEF Find
  <2>2. QED BY <1>1, <1>2, <2>1, GotoOrder
<1>8. CASE e # None /\ Matches(e, k[2]) /\ k[2].asdus # 0
  <2>1. PICK r : r = [pc |-> "deliver", element |-> e, frame |-> k, asdu |-> 1]
    OBVIOUS
  <2>2. thread' = [thread EXCEPT ![t].pc = "deliver", ![t].asdu = 1]
    BY <1>3, <1>8 DEF Find
  <2>3. PICK q : q = [pc |-> "deliver", element |-> e, frame |-> k, asdu |-> a]
    OBVIOUS
  <2>4. [thread[t] EXCEPT !.pc = "deliver"] = q /\ [q EXCEPT !.asdu = 1] = r
    BY <1>4, <2>1, <2>3
  <2>5. thread'[t] = r /\ \A u \in Thread : u # t => thread'[u] = thread[u]
    BY <1>4, <2>2, <2>4
  <2>6. e \in Subscriber
    <3>1. e \in ToSet(subscriberList)
      BY <1>1, <1>3, <1>8 DEF IInv, ElementInList, Pc
    <3>2. QED BY <3>1, ElementOfSeq DEF IInv, ToSet
  <2>7. AppIdOf[e] = k[2].appId /\ 1 \in 1 .. k[2].asdus
    BY <1>5, <1>8 DEF Matches
  <2>8. Pc(t)' = "deliver" /\ thread'[t].frame = k /\ thread'[t].element = e /\ thread'[t].asdu = 1
    BY <2>1, <2>5 DEF Pc
  <2>9. InHand(t)' /\ AtListener(t)' /\ Untold(t)' /\ Halfway(t)'
    BY <1>5, <1>6, <2>6, <2>7, <2>8 DEF InHand, AtListener, Untold, Halfway, Before
  <2>10. QED BY <1>1, <1>2, <2>5, <2>8, <2>9, LivingOrder
<1>9. CASE e # None /\ ~Matches(e, k[2])
  <2>1. PICK n : n = NextOf(subscriberList, e)
    OBVIOUS
  <2>2. PICK r : r = [pc |-> "find", element |-> n, frame |-> k, asdu |-> a]
    OBVIOUS
  <2>3. thread' = [thread EXCEPT ![t].element = n]
    BY <1>3, <1>9, <2>1 DEF Find
  <2>4. [thread[t] EXCEPT !.element = n] = r
    BY <1>4, <2>2
  <2>5. thread'[t] = r /\ \A u \in Thread : u # t => thread'[u] = thread[u]
    BY <1>4, <2>3, <2>4
  <2>6. Pc(t)' = "find" /\ thread'[t].frame = k
    BY <2>2, <2>5 DEF Pc
  <2>7. InHand(t)' /\ AtListener(t)' /\ Untold(t)' /\ Halfway(t)'
    BY <1>5, <1>6, <2>6 DEF InHand, AtListener, Untold, Halfway, Before
  <2>8. QED BY <1>1, <1>2, <1>6, <2>5, <2>7, LivingOrder
<1>10. QED BY <1>7, <1>8, <1>9

\* What a thread at a listener calls it with.
LEMMA CallOfThread ==
  ASSUME Order, NEW t \in Thread, Pc(t) = "deliver"
  PROVE  /\ Call(t) \in [to : Subscriber, frame : Nat, asdu : Nat, asdus : Nat]
         /\ Call(t) # None
         /\ Call(t).to = thread[t].element /\ Call(t).frame = thread[t].frame[1]
         /\ Call(t).asdu = thread[t].asdu /\ Call(t).asdus = thread[t].frame[2].asdus
         /\ thread[t].frame \in Nat \X Frame /\ Taken(thread[t].frame[1])
         /\ AppIdOf[thread[t].element] = thread[t].frame[2].appId
         /\ thread[t].asdu \in 1 .. thread[t].frame[2].asdus
         /\ thread[t].frame[2].asdus \in Nat
<1>1. thread[t].frame \in Nat \X Frame /\ Taken(thread[t].frame[1])
  BY DEF Order, InHand
<1>2. thread[t].frame[1] \in Nat /\ thread[t].frame[2] \in Frame
      /\ thread[t].frame[2].asdus \in Nat
  BY <1>1, FrameAssumption
<1>3. /\ thread[t].element \in Subscriber
      /\ AppIdOf[thread[t].element] = thread[t].frame[2].appId
      /\ thread[t].asdu \in 1 .. thread[t].frame[2].asdus
  BY DEF Order, AtListener
<1>4. thread[t].asdu \in Nat
  BY <1>2, <1>3
<1>5. Call(t) \in [to : Subscriber, frame : Nat, asdu : Nat, asdus : Nat]
  BY <1>2, <1>3, <1>4 DEF Call
<1>6. QED BY <1>1, <1>2, <1>3, <1>5, NoneAssumption DEF Call

\* The listener is called for the next ASDU, and the thread leaves the frame
\* after the last one.
LEMMA DeliverOrder ==
  ASSUME IInv, Order, NEW t \in Thread, Deliver(t)
  PROVE  Order'
<1>1. Pc(t) = "deliver" /\ Alive(t) /\ UNCHANGED <<queue, arrived, app, started>>
      /\ call' = Call(t)
  BY DEF Deliver, At, Pc, Alive, control, net
<1>2. PICK e, k, a : e = thread[t].element /\ k = thread[t].frame /\ a = thread[t].asdu
  OBVIOUS
<1>3. thread = [u \in Thread |-> thread[u]]
      /\ thread[t] = [pc |-> "deliver", element |-> e, frame |-> k, asdu |-> a]
  BY <1>1, <1>2 DEF IInv, Threads
<1>4. PICK m : m = k[2].asdus
  OBVIOUS
<1>5. /\ call' \in [to : Subscriber, frame : Nat, asdu : Nat, asdus : Nat]
      /\ call'.asdu = a /\ call'.asdus = m /\ call'.frame = k[1]
      /\ k \in Nat \X Frame /\ k[1] \in Nat /\ Taken(k[1]) /\ m \in Nat /\ a \in 1 .. m
  BY <1>1, <1>2, <1>4, CallOfThread
<1>6. Arrivals' /\ CallTaken' /\ Taken(k[1])'
  <2>1. Arrivals' /\ Taken(k[1])'
    BY <1>1, <1>5, SameQueue DEF Order, KeepsOrder
  <2>2. QED BY <1>5, <2>1 DEF CallTaken
<1>7. CASE a < m
  <2>1. PICK b : b = a + 1
    OBVIOUS
  <2>2. PICK r : r = [pc |-> "deliver", element |-> e, frame |-> k, asdu |-> b]
    OBVIOUS
  <2>3. thread' = [thread EXCEPT ![t].asdu = b]
    BY <1>2, <1>4, <1>7, <2>1 DEF Deliver
  <2>4. [thread[t] EXCEPT !.asdu = b] = r
    BY <1>3, <2>2
  <2>5. thread'[t] = r /\ \A u \in Thread : u # t => thread'[u] = thread[u]
    BY <1>3, <2>3, <2>4
  <2>6. /\ Pc(t)' = "deliver" /\ thread'[t].frame = k /\ thread'[t].element = e
        /\ thread'[t].asdu = b
    BY <2>2, <2>5 DEF Pc
  <2>7. b \in 1 .. m /\ b # 1 /\ a = b - 1
    BY <1>5, <1>7, <2>1
  <2>8. e \in Subscriber /\ AppIdOf[e] = k[2].appId
    BY <1>1, <1>2 DEF Order, AtListener
  <2>9. InHand(t)' /\ AtListener(t)' /\ Untold(t)'
    BY <1>4, <1>5, <1>6, <2>6, <2>7, <2>8 DEF InHand, AtListener, Untold
  <2>10. call' = [to |-> e, frame |-> k[1], asdu |-> b - 1, asdus |-> k[2].asdus]
    BY <1>1, <1>2, <2>7 DEF Call
  <2>11. Halfway(t)'
    BY <2>6, <2>10 DEF Halfway
  <2>12. QED BY <1>1, <1>6, <2>5, <2>6, <2>9, <2>11, LivingOrder
<1>8. CASE ~(a < m)
  <2>1. Goto(t, "check")
    BY <1>2, <1>4, <1>8 DEF Deliver
  <2>2. Pc(t)' = "check" /\ \A u \in Thread : u # t => thread'[u] = thread[u]
    BY <2>1, ThreadMoves DEF IInv
  <2>3. Complete'
    BY <1>5, <1>8 DEF Complete
  <2>4. InHand(t)' /\ AtListener(t)' /\ Untold(t)' /\ Halfway(t)'
    BY <2>2 DEF InHand, AtListener, Untold, Halfway
  <2>5. QED BY <1>1, <1>6, <2>2, <2>3, <2>4, LivingOrder
<1>9. QED BY <1>7, <1>8

\* A frame that arrives is the newest.
LEMMA ArriveOrder ==
  ASSUME Order, NEW f \in Frame, Arrive(f)
  PROVE  Order'
<1>1. arrived' = arrived + 1 /\ UNCHANGED <<app, started, thread, call>>
  BY DEF Arrive, control
<1>2. arrived \in Nat /\ arrived' \in Nat /\ arrived < arrived' /\ queue \in Seq(Nat \X Frame)
  BY <1>1 DEF Order, Arrivals
<1>3. \A i \in DOMAIN queue : queue[i] \in Nat \X Frame /\ queue[i][1] \in Nat
  <2>1. \A i \in DOMAIN queue : queue[i] \in Nat \X Frame
    BY <1>2
  <2>2. QED BY <2>1
<1>4. KeepsOrder
  <2>1. CASE queue' = queue
    <3>1. Arrivals'
      BY <1>2, <1>3, <2>1 DEF Order, Arrivals
    <3>2. QED BY <1>2, <2>1, <3>1 DEF KeepsOrder, Taken
  <2>2. CASE queue' = Append(queue, <<arrived + 1, f>>)
    <3>1. PICK x : x = <<arrived', f>>
      OBVIOUS
    <3>2. x \in Nat \X Frame /\ x[1] = arrived' /\ queue' = Append(queue, x)
      BY <1>1, <1>2, <2>2, <3>1
    <3>3. PICK l \in Nat : l = Len(queue)
      BY <1>2
    <3>4. /\ DOMAIN queue = 1 .. l /\ DOMAIN queue' = 1 .. l + 1
          /\ queue' \in Seq(Nat \X Frame)
          /\ queue'[l + 1] = x
          /\ \A i \in 1 .. l : queue'[i] = queue[i]
      BY <1>2, <3>2, <3>3, AppendProperties
    <3>5. \A i \in DOMAIN queue' : (i \in DOMAIN queue /\ queue'[i] = queue[i])
                                   \/ (i = l + 1 /\ queue'[i] = x)
      BY <3>3, <3>4
    <3>6. \A i \in DOMAIN queue' : queue'[i][1] <= arrived'
      BY <1>2, <1>3, <3>2, <3>5 DEF Order, Arrivals
    <3>7. ASSUME NEW i \in DOMAIN queue', NEW j \in DOMAIN queue', i < j
          PROVE  queue'[i][1] < queue'[j][1]
      <4>1. i \in DOMAIN queue /\ queue'[i] = queue[i]
        BY <3>3, <3>4, <3>5, <3>7
      <4>2. CASE j \in DOMAIN queue /\ queue'[j] = queue[j]
        BY <3>7, <4>1, <4>2 DEF Order, Arrivals
      <4>3. CASE queue'[j] = x
        <5>1. queue[i][1] <= arrived
          BY <4>1 DEF Order, Arrivals
        <5>2. QED BY <1>2, <1>3, <3>2, <4>1, <4>3, <5>1
      <4>4. QED BY <3>5, <4>2, <4>3
    <3>8. Arrivals'
      BY <1>2, <3>4, <3>6, <3>7 DEF Arrivals
    <3>9. ASSUME NEW n \in Nat, Taken(n) PROVE Taken(n)'
      <4>1. n <= arrived /\ \A i \in DOMAIN queue : n < queue[i][1]
        BY <3>9 DEF Taken
      <4>2. n <= arrived' /\ n < arrived'
        BY <1>2, <4>1
      <4>3. \A i \in DOMAIN queue' : n < queue'[i][1]
        BY <3>2, <3>5, <4>1, <4>2
      <4>4. QED BY <4>2, <4>3 DEF Taken
    <3>10. QED BY <3>8, <3>9 DEF KeepsOrder
  <2>3. QED BY <2>1, <2>2 DEF Arrive
<1>5. QED BY <1>1, <1>4, OutsideOrder DEF Order

\* The application calls nobody and takes nothing from the queue.
LEMMA ApplicationOrder ==
  ASSUME IInv, Order,
         \/ Start \/ Stop \/ StopReturns \/ Destroy
         \/ \E s \in Subscriber : AddSubscriber(s) \/ RemoveSubscriber(s)
  PROVE  Order'
<1>1. UNCHANGED <<queue, arrived, call>> /\ (app' = "destroyed" => ~started')
  BY DEF Start, Stop, StopReturns, Destroy, AddSubscriber, RemoveSubscriber, net, control, Order
<1>2. KeepsOrder
  BY <1>1, SameQueue DEF Order
<1>3. CASE UNCHANGED thread
  BY <1>1, <1>2, <1>3, OutsideOrder
<1>4. CASE Start
  <2>1. PICK n \in Thread : n = starts + 1
    BY <1>4, BoundAssumption DEF Start, IInv, Succession, Thread
  <2>2. Goto(n, "begin") /\ ~started
    BY <1>4, <2>1 DEF Start, Goto
  <2>3. Pc(n)' = "begin" /\ \A u \in Thread : u # n => thread'[u] = thread[u]
    BY <2>2, ThreadMoves DEF IInv
  <2>4. Pc(n) # "deliver"
    BY <2>2 DEF IInv, Succession, Alive, Pc
  <2>5. QED BY <1>1, <1>2, <2>3, <2>4, OutsideOrder
<1>5. QED BY <1>3, <1>4 DEF Stop, StopReturns, Destroy, AddSubscriber, RemoveSubscriber

\* The thread's steps outside find and deliver.
LEMMA GoingOrder ==
  ASSUME IInv, Order, NEW t \in Thread,
         \/ Begin(t) \/ ClearStopped(t) \/ OpenSocket(t) \/ CheckRunning(t) \/ TickEmpty(t)
         \/ CloseSocket(t) \/ End(t)
  PROVE  Order'
<1>1. /\ UNCHANGED <<app, started, arrived, call>> /\ Pc(t) # "deliver"
      /\ \E pc : pc \notin {"find", "deliver"} /\ Goto(t, pc)
  <2>1. CASE CheckRunning(t)
    BY <2>1 DEF CheckRunning, At, Pc, control, net
  <2>2. QED BY <2>1 DEF Begin, ClearStopped, OpenSocket, TickEmpty, CloseSocket, End,
                        At, Pc, control, net
<1>2. KeepsOrder
  <2>1. CASE CloseSocket(t)
    <3>1. queue' = <<>>
      BY <2>1 DEF CloseSocket
    <3>2. QED BY <1>1, <3>1 DEF Order, Arrivals, KeepsOrder, Taken
  <2>2. CASE ~CloseSocket(t)
    BY <1>1, <2>2, SameQueue
    DEF Begin, ClearStopped, OpenSocket, CheckRunning, TickEmpty, End, net, Order
  <2>3. QED BY <2>1, <2>2
<1>3. QED BY <1>1, <1>2, GotoOrder

LEMMA NextOrder ==
  ASSUME IInv, Order, [Next]_vars
  PROVE  Order'
<1>1. CASE \E t \in Thread : Step(t)
  <2>1. PICK t \in Thread : Step(t)
    BY <1>1
  <2>2. QED BY <2>1, GoingOrder, TickOrder, FindOrder, DeliverOrder DEF Step
<1>2. CASE \E f \in Frame : Arrive(f)
  BY <1>2, ArriveOrder
<1>3. CASE UNCHANGED vars
  <2>1. UNCHANGED <<app, started, queue, arrived, call, thread>>
    BY <1>3 DEF vars, control, net
  <2>2. QED BY <2>1, SameQueue, OutsideOrder DEF Order
<1>4. QED BY <1>1, <1>2, <1>3, ApplicationOrder DEF Next

LEMMA SpecOrder ==
  ASSUME Patient
  PROVE  Spec => [](IInv /\ Order)
<1>1. Init => Order
  BY InitOrder
<1>2. IInv /\ Order /\ [Next]_vars => Order'
  BY NextOrder
<1>3. Spec => []IInv
  BY SpecIInv
<1>4. QED BY <1>1, <1>2, <1>3, PTL DEF Spec

\* Only Deliver calls a listener.
LEMMA WhoCalls ==
  ASSUME [Next]_vars, call' # call
  PROVE  \E t \in Thread : Deliver(t)
BY DEF Next, Step, vars, Start, Stop, StopReturns, Destroy, AddSubscriber, RemoveSubscriber,
       Begin, ClearStopped, OpenSocket, CheckRunning, TickEmpty, Tick, Find, CloseSocket, End,
       Arrive

-----------------------------------------------------------------------------
(* What follows from it. *)

\* SVReceiver_stop: when it has returned, the thread is gone and its socket
\* closed, over any number of restarts - if the application lets the receiver
\* come up before it stops it.
THEOREM QuietAfterStop == ASSUME Patient PROVE Spec => []QuietWhenStopped
<1>1. ASSUME IInv PROVE QuietWhenStopped
  <2>1. SUFFICES ASSUME ~started PROVE socket = 0 /\ \A t \in Thread : ~Alive(t)
    BY DEF QuietWhenStopped
  <2>2. \A t \in Thread : ~Alive(t)
    BY <1>1, <2>1 DEF IInv, Succession
  <2>3. QED BY <1>1, <2>2 DEF IInv, SocketOfThread, Alive, Listening, Pc
<1>2. QED BY <1>1, SpecIInv, PTL

\* parseSVMessage never follows an element that was removed, whatever an
\* application adds at any time and removes while the receiver is stopped.
THEOREM ElementsNotFreed == ASSUME Patient PROVE Spec => []ElementInList
<1>1. IInv => ElementInList
  BY DEF IInv
<1>2. QED BY <1>1, SpecIInv, PTL

\* parseSequenceOfASDU: a listener is called for the ASDUs of a frame one after
\* the other and all of them, and for frames in the order of their arrival:
\* a thread that was stopped in the middle ends the frame it is at before
\* another thread begins.
THEOREM CalledInOrder == ASSUME Patient PROVE Spec => CallsInOrder
<1>1. ASSUME IInv, Order, [Next]_vars, call' # call
      PROVE  \/ call # None /\ call'.frame = call.frame /\ call'.to = call.to
                            /\ call'.asdu = call.asdu + 1
             \/ (call # None => call'.frame > call.frame /\ call.asdu = call.asdus)
                /\ call'.asdu = 1
  <2>1. PICK t \in Thread : Deliver(t)
    BY <1>1, WhoCalls
  <2>2. Pc(t) = "deliver" /\ call' = Call(t)
    BY <2>1 DEF Deliver, At, Pc
  <2>3. /\ call'.to = thread[t].element /\ call'.frame = thread[t].frame[1]
        /\ call'.asdu = thread[t].asdu /\ thread[t].frame[1] \in Nat
        /\ thread[t].asdu \in 1 .. thread[t].frame[2].asdus /\ thread[t].frame[2].asdus \in Nat
    BY <1>1, <2>2, CallOfThread
  <2>4. CASE thread[t].asdu = 1
    <3>1. call # None => call.frame < thread[t].frame[1] /\ call.asdu = call.asdus
      BY <1>1, <2>2, <2>4 DEF Order, Untold, Before, Complete
    <3>2. call # None => call.frame \in Nat
      BY <1>1 DEF Order, CallTaken
    <3>3. QED BY <2>3, <2>4, <3>1, <3>2
  <2>5. CASE thread[t].asdu # 1
    <3>1. PICK a : a = thread[t].asdu
      OBVIOUS
    <3>2. call = [to |-> thread[t].element, frame |-> thread[t].frame[1],
                  asdu |-> a - 1, asdus |-> thread[t].frame[2].asdus]
      BY <1>1, <2>2, <2>5, <3>1 DEF Order, Halfway
    <3>3. a \in Int /\ call.asdu = a - 1 /\ call'.asdu = a
          /\ call.to = call'.to /\ call.frame = call'.frame
      BY <2>3, <3>1, <3>2
    <3>4. a - 1 \in Nat /\ a = call.asdu + 1
      BY <2>3, <2>5, <3>1, <3>3
    <3>5. call \in [to : Subscriber, frame : Nat, asdu : Nat, asdus : Nat]
      <4>1. thread[t].element \in Subscriber
        BY <1>1, <2>2 DEF Order, AtListener
      <4>2. QED BY <2>3, <3>2, <3>4, <4>1
    <3>6. call # None
      BY <3>5, NoneAssumption
    <3>7. QED BY <3>3, <3>4, <3>6
  <2>6. QED BY <2>4, <2>5
<1>2. IInv /\ Order /\ [Next]_vars =>
        (call' # call =>
           \/ call # None /\ call'.frame = call.frame /\ call'.to = call.to
                          /\ call'.asdu = call.asdu + 1
           \/ (call # None => call'.frame > call.frame /\ call.asdu = call.asdus)
              /\ call'.asdu = 1)
  BY <1>1
<1>3. QED BY <1>2, SpecOrder, PTL DEF Spec, CallsInOrder

\* parseSVMessage: the listener that is called has the application identifier
\* of the frame its thread took from the queue, whatever the application added
\* meanwhile, and the receiver is still there.
THEOREM CalledForItsFrame == ASSUME Patient PROVE Spec => CallsMatch
<1>1. ASSUME IInv, Order, [Next]_vars, call' # call
      PROVE  /\ app # "destroyed"
             /\ \E t \in Thread : /\ thread[t].frame # None
                                  /\ thread[t].frame[1] = call'.frame
                                  /\ AppIdOf[call'.to] = thread[t].frame[2].appId
  <2>1. PICK t \in Thread : Deliver(t)
    BY <1>1, WhoCalls
  <2>2. Pc(t) = "deliver" /\ call' = Call(t) /\ Alive(t)
    BY <2>1 DEF Deliver, At, Pc, Alive
  <2>3. started
    BY <1>1, <2>2, OnlyLastAlive DEF IInv
  <2>4. thread[t].frame # None
    BY <1>1, <2>2, CallOfThread, NoneAssumption
  <2>5. thread[t].frame[1] = call'.frame /\ AppIdOf[call'.to] = thread[t].frame[2].appId
    BY <1>1, <2>2, CallOfThread
  <2>6. QED BY <1>1, <2>3, <2>4, <2>5 DEF Order
<1>2. IInv /\ Order /\ [Next]_vars =>
        (call' # call =>
           /\ app # "destroyed"
           /\ \E t \in Thread : /\ thread[t].frame # None
                                /\ thread[t].frame[1] = call'.frame
                                /\ AppIdOf[call'.to] = thread[t].frame[2].appId)
  BY <1>1
<1>3. QED BY <1>2, SpecOrder, PTL DEF Spec, CallsMatch
=============================================================================
