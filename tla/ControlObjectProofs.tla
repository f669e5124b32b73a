------------------------- MODULE ControlObjectProofs -------------------------
(***************************************************************************)
(* For any number of objects, clients and orders: the types and at most    *)
(* one performance of what was handed to the worker in ControlObject.      *)
(***************************************************************************)
EXTENDS ControlObject, TLAPS

RequestOK ==
  /\ request \in ActiveRequests \cup {NoRequest}
  /\ request # NoRequest => connection[request.by] = "open"
  /\ request.at \in {"expire", "select", "selected", "unselect"} => SBO(request.obj)

LEMMA InitTypeOK == Init => TypeOK
<1> SUFFICES ASSUME Init
             PROVE  TypeOK
  OBVIOUS
<1>1. /\ state \in [Objects -> States]
      /\ \A o \in Objects : state[o] = "unselected" => SBO(o)
  BY DEF Init, States
<1>2. worker \in [at : WorkerPlaces, obj : Objects]
  BY ControlAssumption DEF Init, WorkerPlaces, Objects
<1>3. orders \in 0..MaxOrders
  BY ControlAssumption DEF Init
<1>4. RequestOK
  BY DEF Init, RequestOK, NoRequest
<1> QED  BY <1>1, <1>2, <1>3, <1>4 DEF Init, TypeOK, RequestOK

(* The parts of the next-state relation. *)
ArrivalStep ==
  \E c \in Clients, o \in Objects, kind \in {"select", "oper", "cancel"} : Arrives(c, o, kind)

OtherStep ==
  \/ ArrivalStep
  \/ \E o \in Objects : TimePasses(o)
  \/ \E c \in Clients : Connect(c) \/ CloseBegins(c) \/ ClosingStep(c)

LEMMA NextParts ==
  ASSUME [Next]_vars
  PROVE  \/ \E c \in Clients, o \in Objects : RequestStep(c, o)
         \/ \E o \in Objects : WorkerStep(o)
         \/ OtherStep
         \/ UNCHANGED vars
  BY DEF Next, ArrivalStep, OtherStep

(* Types of what several actions assign. *)
LEMMA CountedType ==
  ASSUME TypeOK, NEW c, NEW n \in Int
  PROVE  Counted(c, n) \in [Clients -> Int]
<1>0. tasksCount \in [Clients -> Int]
  BY DEF TypeOK
<1>1. CASE c \in Clients /\ connection[c] = "open" /\ tasksCount[c] + n >= -2 * MaxOrders
  <2>1. Counted(c, n) = [tasksCount EXCEPT ![c] = tasksCount[c] + n]
    BY <1>1 DEF Counted
  <2>2. tasksCount[c] + n \in Int
    BY <1>0, <1>1
  <2> QED  BY <1>0, <2>1, <2>2
<1>2. CASE ~(c \in Clients /\ connection[c] = "open" /\ tasksCount[c] + n >= -2 * MaxOrders)
  <2>1. Counted(c, n) = tasksCount
    BY <1>2 DEF Counted
  <2> QED  BY <1>0, <2>1
<1> QED  BY <1>1, <1>2

LEMMA OutstandingChanged ==
  ASSUME TypeOK, NEW o \in Objects, NEW n \in Int
  PROVE  /\ outstanding[o] \in Int
         /\ [outstanding EXCEPT ![o] = n] \in [Objects -> Int]
         /\ \A p \in Objects : [outstanding EXCEPT ![o] = n][p] = IF p = o THEN n ELSE outstanding[p]
  BY DEF TypeOK

LEMMA OrderAdded ==
  ASSUME TypeOK, NEW o \in Objects, Ordered(o)
  PROVE  /\ outstanding[o] \in Int
         /\ outstanding' \in [Objects -> Int]
         /\ \A p \in Objects : outstanding'[p] = IF p = o THEN outstanding[o] + 1 ELSE outstanding[p]
<1>1. outstanding[o] \in Int /\ outstanding[o] + 1 \in Int
  BY OutstandingChanged
<1>2. outstanding' = [outstanding EXCEPT ![o] = outstanding[o] + 1]
  BY DEF Ordered
<1> QED  BY <1>1, <1>2, OutstandingChanged

LEMMA OrderDone ==
  ASSUME TypeOK, NEW o \in Objects, Perform(o)
  PROVE  /\ outstanding[o] \in Int
         /\ outstanding' \in [Objects -> Int]
         /\ \A p \in Objects : outstanding'[p] = IF p = o THEN outstanding[o] - 1 ELSE outstanding[p]
<1>1. outstanding[o] \in Int /\ outstanding[o] - 1 \in Int
  BY OutstandingChanged
<1>2. outstanding' = [outstanding EXCEPT ![o] = outstanding[o] - 1]
  BY DEF Perform
<1> QED  BY <1>1, <1>2, OutstandingChanged

LEMMA Went ==
  ASSUME NEW at \in WorkerPlaces, NEW o \in Objects, Goes(at, o) \/ Leaves(o)
  PROVE  /\ worker' \in [at : WorkerPlaces, obj : Objects]
         /\ (worker'.at = at /\ worker'.obj = o) \/ worker'.at = "look"
<1>1. CASE Goes(at, o)
  BY <1>1 DEF Goes
<1>2. CASE Leaves(o)
  <2>1. /\ 1 \in Objects
        /\ o # ObjectCount => o + 1 \in Objects
    BY ControlAssumption DEF Objects
  <2>2. "look" \in WorkerPlaces
    BY DEF WorkerPlaces
  <2> QED  BY <1>2, <2>1, <2>2 DEF Leaves, Goes
<1> QED  BY <1>1, <1>2

LEMMA AbortedType ==
  ASSUME NEW o \in Objects
  PROVE  /\ Aborted(o) \in {"unselected", "ready"}
         /\ Aborted(o) = "unselected" => SBO(o)
  BY DEF Aborted

LEMMA StateChanged ==
  ASSUME TypeOK, NEW o \in Objects, NEW s \in States, Becomes(o, s), s = "unselected" => SBO(o)
  PROVE  /\ state' \in [Objects -> States]
         /\ \A p \in Objects : state'[p] = "unselected" => SBO(p)
         /\ \A p \in Objects : state'[p] = IF p = o THEN s ELSE state[p]
  BY DEF TypeOK, Becomes

LEMMA Handled ==
  ASSUME TypeOK, NEW c \in Clients, NEW o \in Objects, NEW at \in RequestPlaces,
         Handling(at, c, o)
  PROVE  /\ request \in ActiveRequests /\ request # NoRequest
         /\ connection[c] = "open"
         /\ at \in {"expire", "select", "selected", "unselect"} => SBO(o)
<1>1. at # "none"
  BY DEF RequestPlaces
<1>2. request # NoRequest
  BY <1>1 DEF Handling, NoRequest
<1> QED  BY <1>2 DEF TypeOK, Handling

LEMMA RequestEnded ==
  ASSUME Ends
  PROVE  RequestOK'
  BY DEF Ends, RequestOK, NoRequest

LEMMA RequestContinued ==
  ASSUME TypeOK, NEW c \in Clients, NEW o \in Objects, NEW at \in RequestPlaces,
         NEW to \in RequestPlaces, Handling(at, c, o), Continues(to), connection' = connection,
         to \in {"expire", "select", "selected", "unselect"} => SBO(o)
  PROVE  RequestOK'
<1>1. /\ request \in ActiveRequests /\ connection[c] = "open"
      /\ request.by = c /\ request.obj = o
  BY Handled DEF Handling
<1>2. /\ request' \in ActiveRequests
      /\ request'.at = to /\ request'.by = c /\ request'.obj = o
  BY <1>1 DEF Continues, ActiveRequests
<1>3. SBO(request.obj)' = SBO(o)
  BY <1>2 DEF SBO
<1> QED  BY <1>1, <1>2, <1>3 DEF RequestOK, SBO

(* The place that a request is at after its step. *)
LEMMA RequestKept ==
  ASSUME TypeOK, NEW c \in Clients, NEW o \in Objects, RequestStep(c, o)
  PROVE  RequestOK' /\ connection' = connection
<1> USE DEF RequestPlaces
<1>1. CASE Expire(c, o)
  BY <1>1, RequestContinued DEF Expire, clients
<1>2. CASE Refused(c, o)
  BY <1>2, RequestEnded DEF Refused, clients
<1>3. CASE SelectAccepted(c, o)
  <2>1. SBO(o)
    BY <1>3 DEF SelectAccepted, TypeOK
  <2> QED  BY <1>3, <2>1, RequestContinued DEF SelectAccepted, clients
<1>4. CASE Select(c, o)
  <2>1. Handling("select", c, o) => SBO(o)
    BY Handled
  <2> QED  BY <1>4, <2>1, RequestContinued, RequestEnded DEF Select, clients
<1>5. CASE OperTimed(c, o)
  <2>1. /\ Handling("look", c, o) /\ connection' = connection
        /\ request' = [request EXCEPT !.at = "take timed", !.timed = TRUE]
    BY <1>5 DEF OperTimed, OperAccepted, clients
  <2>2. /\ request \in ActiveRequests /\ connection[c] = "open"
        /\ request.by = c
    BY <2>1, Handled DEF Handling
  <2>3. request' \in ActiveRequests /\ request'.at = "take timed" /\ request'.by = c
    BY <2>1, <2>2 DEF ActiveRequests
  <2> QED  BY <2>1, <2>2, <2>3 DEF RequestOK
<1>6. CASE Oper(c, o)
  BY <1>6, RequestContinued DEF Oper, OperAccepted, clients
<1>7. CASE HandOverTimed(c, o)
  BY <1>7, RequestContinued DEF HandOverTimed
<1>8. CASE Decide(c, o)
  BY <1>8, RequestContinued, RequestEnded DEF Decide, clients
<1>9. CASE HandOver(c, o)
  BY <1>9, RequestContinued, RequestEnded DEF HandOver
<1>10. CASE Cancel(c, o)
  BY <1>10, RequestContinued DEF Cancel, clients
<1>11. CASE Unselect(c, o)
  BY <1>11, RequestEnded DEF Unselect, clients
<1>12. CASE AbortRequest(c, o)
  BY <1>12, RequestContinued, RequestEnded DEF AbortRequest
<1> QED  BY <1>1, <1>2, <1>3, <1>4, <1>5, <1>6, <1>7, <1>8, <1>9, <1>10, <1>11, <1>12
         DEF RequestStep

-----------------------------------------------------------------------------
(* The types are preserved. *)

StateOK ==
  /\ state \in [Objects -> States]
  /\ \A o \in Objects : state[o] = "unselected" => SBO(o)

LEMMA RequestTypeOK ==
  ASSUME TypeOK, NEW c \in Clients, NEW o \in Objects, RequestStep(c, o)
  PROVE  TypeOK'
<1>r. RequestOK' /\ connection' = connection
  BY RequestKept
<1>p. Counted(c, 1) \in [Clients -> Int] /\ Counted(mmsConnection[o], 1) \in [Clients -> Int]
      /\ Counted(mmsConnection[o], -1) \in [Clients -> Int]
  BY CountedType
<1>q. {"expire", "unselect"} \subseteq RequestPlaces /\ States \subseteq States
  BY DEF RequestPlaces
<1> USE DEF StateOK
<1>1. CASE Expire(c, o)
  <2>1. SBO(o) /\ "unselected" \in States
    BY <1>1, <1>q, Handled DEF Expire, States
  <2>2. StateOK'
    BY <1>1, <2>1, StateChanged DEF Expire, SBO
  <2> QED  BY <1>1, <1>r, <2>2 DEF Expire, TypeOK, RequestOK, clients, counts, times
<1>2. CASE Refused(c, o)
  BY <1>2, <1>r DEF Refused, TypeOK, RequestOK, object, clients, counts, times
<1>3. CASE SelectAccepted(c, o)
  BY <1>3, <1>r DEF SelectAccepted, TypeOK, RequestOK, object, clients, counts, times
<1>4. CASE Select(c, o)
  <2>1. StateOK'
    <3>1. CASE Becomes(o, "ready")
      BY <3>1, StateChanged DEF SBO, States
    <3>2. CASE UNCHANGED state
      BY <3>2 DEF TypeOK, SBO
    <3> QED  BY <1>4, <3>1, <3>2 DEF Select
  <2>2. /\ fresh' \in [Objects -> BOOLEAN]
        /\ mmsConnection' \in [Objects -> Clients \cup {Nobody}]
    <3>1. CASE UNCHANGED <<fresh, mmsConnection>>
      BY <3>1 DEF TypeOK
    <3>2. CASE /\ fresh' = [fresh EXCEPT ![o] = TRUE]
               /\ mmsConnection' = [mmsConnection EXCEPT ![o] = c]
      BY <3>2 DEF TypeOK
    <3> QED  BY <1>4, <3>1, <3>2 DEF Select
  <2> QED  BY <1>4, <1>r, <2>1, <2>2 DEF Select, TypeOK, RequestOK, clients, counts, times
<1>5. CASE OperTimed(c, o) \/ Oper(c, o)
  <2>1. OperAccepted(c, o)
    BY <1>5 DEF OperTimed, Oper
  <2>2. orders' \in 0..MaxOrders
    <3>1. orders \in 0..MaxOrders /\ orders < MaxOrders /\ orders' = orders + 1
      BY <2>1 DEF TypeOK, OperAccepted
    <3> QED  BY <3>1, ControlAssumption
  <2>3. timeActivated' \in [Objects -> BOOLEAN] /\ due' \in [Objects -> BOOLEAN]
    BY <1>5 DEF OperTimed, Oper, TypeOK
  <2> QED  BY <1>r, <2>1, <2>2, <2>3 DEF OperAccepted, TypeOK, RequestOK, clients
<1>6. CASE HandOverTimed(c, o)
  <2>1. /\ StateOK'
        /\ outstanding' \in [Objects -> Int]
    <3>1. CASE Becomes(o, "wait for activation") /\ Ordered(o)
      BY <3>1, StateChanged, OrderAdded DEF SBO, States
    <3>2. CASE UNCHANGED <<state, outstanding>>
      BY <3>2 DEF TypeOK, SBO
    <3> QED  BY <1>6, <3>1, <3>2 DEF HandOverTimed
  <2>2. /\ mmsConnection' \in [Objects -> Clients \cup {Nobody}]
        /\ tasksCount' \in [Clients -> Int]
    <3>1. /\ \/ mmsConnection' = mmsConnection
             \/ mmsConnection' = [mmsConnection EXCEPT ![o] = c]
          /\ tasksCount' = tasksCount \/ tasksCount' = Counted(c, 1)
      BY <1>6 DEF HandOverTimed
    <3>2. mmsConnection' \in [Objects -> Clients \cup {Nobody}]
      BY <3>1 DEF TypeOK
    <3>3. tasksCount \in [Clients -> Int]
      BY DEF TypeOK
    <3> QED  BY <1>p, <3>1, <3>2, <3>3
  <2> QED  BY <1>6, <1>r, <2>1, <2>2 DEF HandOverTimed, TypeOK, RequestOK, times
<1>7. CASE Decide(c, o)
  BY <1>7, <1>r DEF Decide, TypeOK, RequestOK, object, clients, counts, times
<1>8. CASE HandOver(c, o)
  <2>1. /\ StateOK'
        /\ outstanding' \in [Objects -> Int]
    <3>1. CASE Becomes(o, "wait for execution") /\ Ordered(o)
      BY <3>1, StateChanged, OrderAdded DEF SBO, States
    <3>2. CASE UNCHANGED <<state, outstanding>>
      BY <3>2 DEF TypeOK, SBO
    <3> QED  BY <1>8, <3>1, <3>2 DEF HandOver
  <2>2. /\ mmsConnection' \in [Objects -> Clients \cup {Nobody}]
        /\ tasksCount' \in [Clients -> Int]
    <3>1. /\ \/ mmsConnection' = mmsConnection
             \/ mmsConnection' = [mmsConnection EXCEPT ![o] = c]
          /\ tasksCount' = tasksCount \/ tasksCount' = Counted(mmsConnection[o], 1)
      BY <1>8 DEF HandOver
    <3>2. mmsConnection' \in [Objects -> Clients \cup {Nobody}]
      BY <3>1 DEF TypeOK
    <3>3. tasksCount \in [Clients -> Int]
      BY DEF TypeOK
    <3> QED  BY <1>p, <3>1, <3>2, <3>3
  <2> QED  BY <1>8, <1>r, <2>1, <2>2 DEF HandOver, TypeOK, RequestOK, times
<1>9. CASE Cancel(c, o)
  BY <1>9, <1>r DEF Cancel, TypeOK, RequestOK, clients, counts
<1>10. CASE Unselect(c, o)
  <2>1. SBO(o) /\ "unselected" \in States
    BY <1>10, <1>q, Handled DEF Unselect, States
  <2>2. StateOK'
    BY <1>10, <2>1, StateChanged DEF Unselect, SBO
  <2> QED  BY <1>10, <1>r, <2>2 DEF Unselect, TypeOK, RequestOK, clients, counts, times
<1>11. CASE AbortRequest(c, o)
  <2>1. StateOK'
    <3>1. CASE Becomes(o, Aborted(o))
      BY <3>1, StateChanged, AbortedType DEF SBO, States
    <3>2. CASE UNCHANGED state
      BY <3>2 DEF TypeOK, SBO
    <3> QED  BY <1>11, <3>1, <3>2 DEF AbortRequest
  <2>2. tasksCount' \in [Clients -> Int]
    BY <1>11, <1>p DEF AbortRequest, TypeOK
  <2> QED  BY <1>11, <1>r, <2>1, <2>2 DEF AbortRequest, TypeOK, RequestOK, counts, times
<1> QED  BY <1>1, <1>2, <1>3, <1>4, <1>5, <1>6, <1>7, <1>8, <1>9, <1>10, <1>11 DEF RequestStep

LEMMA WorkerGoes ==
  ASSUME NEW o \in Objects, WorkerStep(o)
  PROVE  /\ \E at \in WorkerPlaces : Goes(at, o) \/ Leaves(o)
         /\ connection' = connection /\ givesUp' = givesUp /\ request' = request
         /\ mmsConnection' = mmsConnection /\ due' = due /\ orders' = orders
<1> USE DEF WorkerPlaces, object, times, clients, counts
<1>1. CASE Look(o) \/ LookAgain(o) \/ LookAtTime(o) \/ Check(o)
  BY <1>1 DEF Look, LookAgain, LookAtTime, Check
<1>2. CASE Unfinished(o) \/ Wait(o) \/ Start(o) \/ Perform(o) \/ NothingToExecute(o)
  BY <1>2 DEF Unfinished, Wait, Start, Perform, NothingToExecute
<1>3. CASE Abort(o) \/ Exit(o)
  BY <1>3 DEF Abort, Exit
<1> QED  BY <1>1, <1>2, <1>3 DEF WorkerStep

LEMMA WorkerTypeOK ==
  ASSUME TypeOK, NEW o \in Objects, WorkerStep(o)
  PROVE  TypeOK'
<1>w. /\ worker' \in [at : WorkerPlaces, obj : Objects]
      /\ connection' = connection /\ givesUp' = givesUp /\ request' = request
      /\ mmsConnection' = mmsConnection /\ due' = due /\ orders' = orders
  BY WorkerGoes, Went
<1>r. RequestOK'
  BY <1>w DEF TypeOK, RequestOK, SBO
<1> USE DEF StateOK
<1>s. ASSUME UNCHANGED state
      PROVE  StateOK'
  BY <1>s DEF TypeOK, SBO
<1>1. CASE Look(o) \/ LookAgain(o) \/ LookAtTime(o) \/ Wait(o) \/ NothingToExecute(o)
  <2>1. UNCHANGED <<object, clients, counts>>
    BY <1>1 DEF Look, LookAgain, LookAtTime, Wait, NothingToExecute
  <2> QED  BY <1>w, <1>r, <1>s, <2>1 DEF TypeOK, RequestOK, object, clients, counts, times
<1>2. CASE Check(o)
  BY <1>2, <1>w, <1>r, <1>s DEF Check, TypeOK, RequestOK, clients, counts
<1>3. CASE Unfinished(o)
  BY <1>3, <1>w, <1>r, <1>s DEF Unfinished, TypeOK, RequestOK, clients, counts, times
<1>4. CASE Start(o)
  <2>1. StateOK'
    BY <1>4, StateChanged DEF Start, SBO, States
  <2> QED  BY <1>4, <1>w, <1>r, <2>1 DEF Start, TypeOK, RequestOK, clients, counts, times
<1>5. CASE Perform(o)
  <2>1. outstanding' \in [Objects -> Int]
    BY <1>5, OrderDone
  <2> QED  BY <1>5, <1>w, <1>r, <1>s, <2>1 DEF Perform, TypeOK, RequestOK, clients, times
<1>6. CASE Abort(o)
  <2>1. StateOK'
    BY <1>6, StateChanged, AbortedType DEF Abort, SBO, States
  <2> QED  BY <1>6, <1>w, <1>r, <2>1 DEF Abort, TypeOK, RequestOK, clients, counts, times
<1>7. CASE Exit(o)
  <2>1. tasksCount' \in [Clients -> Int]
    <3>1. Counted(mmsConnection[o], -1) \in [Clients -> Int]
      BY CountedType
    <3> QED  BY <1>7, <3>1 DEF Exit
  <2> QED  BY <1>7, <1>w, <1>r, <1>s, <2>1 DEF Exit, TypeOK, RequestOK, object, counts, times
<1> QED  BY <1>1, <1>2, <1>3, <1>4, <1>5, <1>6, <1>7 DEF WorkerStep

LEMMA OtherTypeOK ==
  ASSUME TypeOK, OtherStep
  PROVE  TypeOK'
<1> USE DEF StateOK
<1>s. ASSUME UNCHANGED state
      PROVE  StateOK'
  BY <1>s DEF TypeOK, SBO
<1>n. \A c \in Clients : request.by = c => request # NoRequest
  BY ControlAssumption DEF NoRequest
(* A connection that is not handling a request may change. *)
<1>r. ASSUME NEW c \in Clients, request' = request, request.by # c,
             \A d \in Clients \ {c} : connection'[d] = connection[d]
      PROVE  RequestOK'
  <2>1. CASE request = NoRequest
    BY <1>r, <2>1 DEF RequestOK, NoRequest
  <2>2. CASE request # NoRequest
    <3>1. request \in ActiveRequests /\ connection[request.by] = "open" /\ request.by \in Clients
      BY <2>2 DEF TypeOK, ActiveRequests
    <3> QED  BY <1>r, <3>1 DEF RequestOK, TypeOK, SBO
  <2> QED  BY <2>1, <2>2
<1>c. ASSUME NEW c \in Clients, connection[c] # "open"
      PROVE  request.by # c
  <2>1. request = NoRequest => request.by # c
    BY ControlAssumption DEF NoRequest
  <2> QED  BY <1>c, <2>1 DEF TypeOK
<1>1. CASE ArrivalStep
  <2>1. PICK c \in Clients, o \in Objects, kind \in {"select", "oper", "cancel"} :
          Arrives(c, o, kind)
    BY <1>1 DEF ArrivalStep
  <2>2. /\ request' \in ActiveRequests /\ request'.by = c /\ request'.obj = o
        /\ request'.at \in {"expire", "look"}
        /\ request'.at = "expire" => SBO(o)
    BY <2>1 DEF Arrives, ActiveRequests, RequestPlaces, Expired
  <2>3. RequestOK'
    BY <2>1, <2>2 DEF RequestOK, Arrives, clients, SBO
  <2> QED  BY <1>s, <2>1, <2>3 DEF Arrives, TypeOK, RequestOK, object, times, clients, counts
<1>2. ASSUME NEW o \in Objects, TimePasses(o)
      PROVE  TypeOK'
  <2>1. RequestOK'
    BY <1>2 DEF TypeOK, RequestOK, SBO, TimePasses, SelectTimePasses, OperateTimeComes, clients
  <2> QED  BY <1>2, <1>s, <2>1
           DEF TypeOK, RequestOK, TimePasses, SelectTimePasses, OperateTimeComes, clients, counts,
               times
<1>t. ASSUME NEW c \in Clients
      PROVE  [tasksCount EXCEPT ![c] = 0] \in [Clients -> Int]
  <2>1. tasksCount \in [Clients -> Int]
    BY DEF TypeOK
  <2>2. 0 \in Int
    OBVIOUS
  <2> QED  BY <2>1, <2>2
<1>3. ASSUME NEW c \in Clients, Connect(c)
      PROVE  TypeOK'
  <2>1. RequestOK'
    BY <1>3, <1>c, <1>r DEF Connect, TypeOK
  <2> QED  BY <1>3, <1>s, <1>t, <2>1 DEF Connect, TypeOK, RequestOK, object, times, counts
<1>4. ASSUME NEW c \in Clients, CloseBegins(c)
      PROVE  TypeOK'
  <2>1. RequestOK'
    BY <1>4, <1>r DEF CloseBegins, TypeOK
  <2> QED  BY <1>4, <1>s, <2>1 DEF CloseBegins, TypeOK, RequestOK, object, times, counts
<1>5. ASSUME NEW c \in Clients, NoTasksLeft(c)
      PROVE  TypeOK'
  <2>1. RequestOK'
    BY <1>5, <1>c, <1>r DEF NoTasksLeft, TypeOK
  <2>2. givesUp' \in [Clients -> Objects \cup {0}]
    BY <1>5 DEF NoTasksLeft, TypeOK, Used
  <2>3. connection' \in [Clients -> {"closed", "open", "closing", "gives up", "leaves"}]
    BY <1>5 DEF NoTasksLeft, TypeOK
  <2> QED  BY <1>5, <1>s, <2>1, <2>2, <2>3
           DEF NoTasksLeft, TypeOK, RequestOK, object, times, counts
<1>6. ASSUME NEW c \in Clients, NEW o \in Objects, GiveUp(c, o)
      PROVE  TypeOK'
  <2>1. RequestOK'
    BY <1>6, <1>c, <1>r DEF GiveUp, TypeOK
  <2>2. StateOK'
    <3>1. CASE Becomes(o, Aborted(o))
      BY <3>1, StateChanged, AbortedType DEF SBO, States
    <3> QED  BY <1>6, <1>s, <3>1 DEF GiveUp
  <2>3. tasksCount' \in [Clients -> Int]
    <3>1. Counted(mmsConnection[o], -1) \in [Clients -> Int]
      BY CountedType
    <3> QED  BY <1>6, <3>1 DEF GiveUp, TypeOK
  <2>4. /\ connection' \in [Clients -> {"closed", "open", "closing", "gives up", "leaves"}]
        /\ givesUp' \in [Clients -> Objects \cup {0}]
    BY <1>6 DEF GiveUp, TypeOK
  <2> QED  BY <1>6, <2>1, <2>2, <2>3, <2>4 DEF GiveUp, TypeOK, RequestOK, times, counts
<1> QED  BY <1>1, <1>2, <1>3, <1>4, <1>5, <1>6 DEF OtherStep, ClosingStep

(* After any requests, closed connections and work, in any order of their  *)
(* reads and writes, the variables have their types, and a direct object   *)
(* is never unselected (control.c 316-330, 629-657, 1561-1566: only a      *)
(* model with selection unselects).                                        *)
THEOREM Types == Spec => []TypeOK
<1>1. TypeOK /\ [Next]_vars => TypeOK'
  <2> SUFFICES ASSUME TypeOK, [Next]_vars
               PROVE  TypeOK'
    OBVIOUS
  <2>1. CASE \E c \in Clients, o \in Objects : RequestStep(c, o)
    BY <2>1, RequestTypeOK
  <2>2. CASE \E o \in Objects : WorkerStep(o)
    BY <2>2, WorkerTypeOK
  <2>3. CASE OtherStep
    BY <2>3, OtherTypeOK
  <2>4. CASE UNCHANGED vars
    BY <2>4 DEF TypeOK, SBO, vars, object, times, clients, counts
  <2> QED  BY <2>1, <2>2, <2>3, <2>4, NextParts
<1> QED  BY <1>1, InitTypeOK, PTL DEF Spec
-----------------------------------------------------------------------------
(* An object that is under way has an order that was not performed, except *)
(* while the worker, having performed it, has not put the state back; and  *)
(* so has one that the worker is about to start.                           *)
Underway(o) == state[o] \notin {"unselected", "ready"}

OrderKept(o) ==
  /\ outstanding[o] >= 0
  /\ Underway(o) /\ ~At("abort", o) => outstanding[o] >= 1
  /\ At("start", o) => outstanding[o] >= 1

OrdersKept == \A o \in Objects : OrderKept(o)

LEMMA SameOrders ==
  ASSUME OrdersKept, UNCHANGED <<outstanding, worker>>,
         \A o \in Objects : state'[o] \in {state[o], "unselected", "ready"}
  PROVE  OrdersKept'
  BY DEF OrdersKept, OrderKept, Underway, At

LEMMA HandedOverKeeps ==
  ASSUME TypeOK, OrdersKept, NEW o \in Objects, NEW s \in States, Ordered(o), Becomes(o, s),
         worker' = worker
  PROVE  OrdersKept'
<1> SUFFICES ASSUME NEW p \in Objects
             PROVE  OrderKept(p)'
  BY DEF OrdersKept
<1>1. /\ outstanding[o] \in Int
      /\ outstanding'[p] = IF p = o THEN outstanding[o] + 1 ELSE outstanding[p]
  BY OrderAdded
<1>2. p # o => state'[p] = state[p]
  BY DEF Becomes, TypeOK
<1>3. OrderKept(p) /\ outstanding[o] >= 0
  BY DEF OrdersKept, OrderKept
<1>4. outstanding'[p] >= 0 /\ (p = o => outstanding'[p] >= 1)
  BY <1>1, <1>3 DEF OrderKept
<1>5. CASE p = o
  BY <1>4, <1>5 DEF OrderKept
<1>6. CASE p # o
  BY <1>1, <1>2, <1>3, <1>6 DEF OrderKept, Underway, At
<1> QED  BY <1>5, <1>6

LEMMA RequestKeeps ==
  ASSUME TypeOK, OrdersKept, NEW c \in Clients, NEW o \in Objects, RequestStep(c, o)
  PROVE  OrdersKept'
<1>1. ASSUME NEW s \in {"unselected", "ready"}, Becomes(o, s)
      PROVE  \A p \in Objects : state'[p] \in {state[p], "unselected", "ready"}
  BY <1>1 DEF Becomes, TypeOK
<1>2. CASE Expire(c, o) \/ Unselect(c, o)
  BY <1>1, <1>2, SameOrders DEF Expire, Unselect, counts
<1>3. CASE Refused(c, o) \/ SelectAccepted(c, o) \/ Decide(c, o) \/ Cancel(c, o)
  BY <1>3, SameOrders DEF Refused, SelectAccepted, Decide, Cancel, object, counts
<1>4. CASE Select(c, o)
  BY <1>1, <1>4, SameOrders DEF Select, counts
<1>5. CASE OperTimed(c, o) \/ Oper(c, o)
  BY <1>5, SameOrders DEF OperTimed, Oper, OperAccepted
<1>6. CASE HandOverTimed(c, o)
  <2>1. CASE Becomes(o, "wait for activation") /\ Ordered(o)
    BY <1>6, <2>1, HandedOverKeeps DEF HandOverTimed, States
  <2>2. CASE UNCHANGED <<state, outstanding>>
    BY <1>6, <2>2, SameOrders DEF HandOverTimed
  <2> QED  BY <1>6, <2>1, <2>2 DEF HandOverTimed
<1>7. CASE HandOver(c, o)
  <2>1. CASE Becomes(o, "wait for execution") /\ Ordered(o)
    BY <1>7, <2>1, HandedOverKeeps DEF HandOver, States
  <2>2. CASE UNCHANGED <<state, outstanding>>
    BY <1>7, <2>2, SameOrders DEF HandOver
  <2> QED  BY <1>7, <2>1, <2>2 DEF HandOver
<1>8. CASE AbortRequest(c, o)
  <2>1. CASE Becomes(o, Aborted(o))
    BY <1>1, <1>8, <2>1, AbortedType, SameOrders DEF AbortRequest, counts
  <2>2. CASE UNCHANGED state
    BY <1>8, <2>2, SameOrders DEF AbortRequest, counts
  <2> QED  BY <1>8, <2>1, <2>2 DEF AbortRequest
<1> QED  BY <1>2, <1>3, <1>4, <1>5, <1>6, <1>7, <1>8 DEF RequestStep

LEMMA PlaceGone ==
  ASSUME NEW at, NEW o, Goes(at, o)
  PROVE  worker'.at = at /\ worker'.obj = o
  BY DEF Goes

LEMMA PlaceLeft ==
  ASSUME NEW o, Leaves(o)
  PROVE  worker'.at = "look"
  BY DEF Leaves, Goes

(* The worker's steps other than Start, Perform and Abort write neither    *)
(* state nor outstanding.                                                  *)
LEMMA WorkerKeeps ==
  ASSUME TypeOK, OrdersKept, NEW o \in Objects, WorkerStep(o)
  PROVE  OrdersKept'
<1> SUFFICES ASSUME NEW p \in Objects
             PROVE  OrderKept(p)'
  BY DEF OrdersKept
<1>k. OrderKept(p) /\ OrderKept(o)
  BY DEF OrdersKept
<1>w. worker \in [at : WorkerPlaces, obj : Objects]
  BY DEF TypeOK
<1>l. Leaves(o) => worker'.at = "look"
  BY PlaceLeft
<1>g. \A at \in WorkerPlaces : Goes(at, o) => worker'.at = at /\ worker'.obj = o
  BY PlaceGone
<1> USE <1>g DEF OrderKept, Underway, At, object, counts, WorkerPlaces
<1>1. CASE Look(o) \/ LookAgain(o) \/ LookAtTime(o) \/ Check(o)
  <2>1. /\ state' = state /\ outstanding' = outstanding
        /\ worker.at \in {"look", "look again", "time", "check"}
        /\ worker'.at \in {"look", "look again", "time", "check", "execute", "abort once"}
    BY <1>1, <1>l DEF Look, LookAgain, LookAtTime, Check
  <2> QED  BY <1>k, <2>1
<1>2. CASE Unfinished(o) \/ NothingToExecute(o)
  BY <1>2, <1>k, <1>l DEF Unfinished, NothingToExecute
<1>3. CASE Wait(o)
  <2>1. /\ state' = state /\ outstanding' = outstanding
        /\ worker.at = "execute" /\ Underway(o)
        /\ worker'.at \in {"start", "abort"} /\ worker'.obj = o
    BY <1>3 DEF Wait, Waiting
  <2> QED  BY <1>k, <2>1
<1>4. CASE Start(o)
  <2>1. /\ outstanding' = outstanding /\ outstanding[o] >= 1
        /\ worker'.at = "execute" /\ (p # o => state'[p] = state[p])
        /\ worker.obj = o
    BY <1>4, <1>k DEF Start, Becomes, TypeOK
  <2> QED  BY <1>k, <2>1
<1>5. CASE Perform(o)
  <2>1. outstanding'[p] = IF p = o THEN outstanding[o] - 1 ELSE outstanding[p]
    BY <1>5, OrderDone
  <2>2. worker'.at = "abort" /\ worker'.obj = o /\ state' = state
    BY <1>5 DEF Perform
  <2>3. outstanding[o] >= 1 /\ outstanding[o] \in Int
    BY <1>5, <1>k, OrderDone DEF Perform
  <2>4. outstanding'[p] >= 0 /\ (p # o => outstanding'[p] = outstanding[p])
    <3>1. outstanding[p] >= 0
      BY <1>k
    <3> HIDE <1>g DEF OrderKept, Underway, At, object, counts, WorkerPlaces
    <3> QED  BY <2>1, <2>3, <3>1
  <2>5. CASE p = o
    BY <2>2, <2>4, <2>5
  <2>6. CASE p # o
    BY <1>5, <1>k, <2>2, <2>4, <2>6 DEF Perform
  <2> QED  BY <2>5, <2>6
<1>6. CASE Abort(o)
  <2>1. /\ outstanding' = outstanding
        /\ worker'.at \in {"exit", "exit again"} /\ worker.obj = o
        /\ state'[p] = IF p = o THEN Aborted(o) ELSE state[p]
    <3>1. state'[p] = IF p = o THEN Aborted(o) ELSE state[p]
      BY <1>6 DEF Abort, Becomes, TypeOK
    <3> QED  BY <1>6, <3>1 DEF Abort
  <2> QED  BY <1>k, <2>1, AbortedType
<1>7. CASE Exit(o)
  <2>1. /\ state' = state /\ outstanding' = outstanding
        /\ worker.at \in {"exit", "exit again"}
        /\ worker'.at \in {"exit again", "look"}
    BY <1>7, <1>l DEF Exit
  <2> QED  BY <1>k, <2>1
<1> QED  BY <1>1, <1>2, <1>3, <1>4, <1>5, <1>6, <1>7 DEF WorkerStep

LEMMA OtherKeeps ==
  ASSUME TypeOK, OrdersKept, OtherStep
  PROVE  OrdersKept'
<1>1. CASE ArrivalStep
  BY <1>1, SameOrders DEF ArrivalStep, Arrives, object, counts
<1>2. ASSUME NEW o \in Objects, TimePasses(o)
      PROVE  OrdersKept'
  BY <1>2, SameOrders DEF TimePasses, SelectTimePasses, OperateTimeComes, counts
<1>3. ASSUME NEW c \in Clients, Connect(c) \/ CloseBegins(c) \/ NoTasksLeft(c)
      PROVE  OrdersKept'
  BY <1>3, SameOrders DEF Connect, CloseBegins, NoTasksLeft, object, counts
<1>4. ASSUME NEW c \in Clients, NEW o \in Objects, GiveUp(c, o)
      PROVE  OrdersKept'
  <2>1. CASE Becomes(o, Aborted(o))
    <3>1. \A p \in Objects : state'[p] \in {state[p], "unselected", "ready"}
      BY <2>1, AbortedType DEF Becomes, TypeOK
    <3> QED  BY <1>4, <3>1, SameOrders DEF GiveUp, counts
  <2>2. CASE UNCHANGED state
    BY <1>4, <2>2, SameOrders DEF GiveUp, counts
  <2> QED  BY <1>4, <2>1, <2>2 DEF GiveUp
<1> QED  BY <1>1, <1>2, <1>3, <1>4 DEF OtherStep, ClosingStep

(* Whatever cancels, selections and closing connections come between the   *)
(* reads and writes of the worker and of a request (control.c 346-427,     *)
(* 1421-1530), what was handed to the worker is performed once at most.    *)
THEOREM NoOrderTwice == Spec => []NeverTwice
<1>1. Init => OrdersKept
  <2> SUFFICES ASSUME Init, NEW o \in Objects
               PROVE  OrderKept(o)
    BY DEF OrdersKept
  <2>1. outstanding[o] = 0 /\ state[o] \in {"unselected", "ready"} /\ worker.at = "look"
    BY DEF Init
  <2> QED  BY <2>1 DEF OrderKept, Underway, At
<1>2. TypeOK /\ OrdersKept /\ [Next]_vars => OrdersKept'
  <2> SUFFICES ASSUME TypeOK, OrdersKept, [Next]_vars
               PROVE  OrdersKept'
    OBVIOUS
  <2>1. CASE \E c \in Clients, o \in Objects : RequestStep(c, o)
    BY <2>1, RequestKeeps
  <2>2. CASE \E o \in Objects : WorkerStep(o)
    BY <2>2, WorkerKeeps
  <2>3. CASE OtherStep
    BY <2>3, OtherKeeps
  <2>4. CASE UNCHANGED vars
    BY <2>4, SameOrders DEF vars, object, counts
  <2> QED  BY <2>1, <2>2, <2>3, <2>4, NextParts
<1>3. OrdersKept => NeverTwice
  BY DEF OrdersKept, OrderKept, NeverTwice
<1> QED  BY <1>1, <1>2, <1>3, Types, PTL DEF Spec
=============================================================================
