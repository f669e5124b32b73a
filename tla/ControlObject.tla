---------------------------- MODULE ControlObject ----------------------------
(***************************************************************************)
(* The controllable objects of the server (control.c): clients select,     *)
(* operate and cancel, the event worker thread carries operations out, and *)
(* a connection that closes gives up its object (mms_mapping.c).           *)
(*                                                                         *)
(* Requests are handled one at a time, with the model mutex held, each by  *)
(* the thread of its connection.  The worker and a closing connection take *)
(* no mutex: every read and every write of a request that they may come    *)
(* between is a step of its own.  The application's handlers answer as     *)
(* they like.  The values of a request are left out: one that is malformed *)
(* or does not agree with what was selected is refused.                    *)
(*                                                                         *)
(* A connection is known by its address, so one that is opened later may   *)
(* be taken for one that was closed.                                       *)
(***************************************************************************)
EXTENDS Integers

CONSTANTS
  ObjectCount,        \* the objects are numbered in the order of the list controlObjects
  Clients, Nobody,    \* addresses of connections; NULL
  CtlModel,           \* CtlModel[o] \in 1..4
  OperateOnce,        \* OperateOnce[o]: sboClass is not operate-many
  SelectTimeout,      \* SelectTimeout[o]; 0: a selection has no end
  MaxOrders           \* bound: operate requests to objects that are ready

Objects == 1..ObjectCount

ASSUME ControlAssumption ==
  /\ ObjectCount \in Nat \ {0}
  /\ Nobody \notin Clients
  /\ CtlModel \in [Objects -> 1..4]
  /\ OperateOnce \in [Objects -> BOOLEAN]
  /\ SelectTimeout \in [Objects -> Nat]
  /\ MaxOrders \in Nat

VARIABLES
  state,              \* of each object
  mmsConnection,      \* who selected or operated the object last
  fresh,              \* selectTimeout has not passed since selectTime
  timeActivated,      \* timeActivatedOperate
  due,                \* operateTime has come (it is 0 at first)
  connection,         \* of each client: "closed", "open", "closing", "gives up", "leaves"
  tasksCount,         \* of each connection
  givesUp,            \* the object that a connection gives up when it closes
  request,            \* the request that is handled, and where in the code
  worker,             \* what the worker is about to do, for which object
  orders,             \* operate requests so far, for the bound
  outstanding         \* orders handed to the worker and not performed (yet)

times   == <<timeActivated, due>>
object  == <<state, mmsConnection, fresh, times>>
clients == <<connection, tasksCount, givesUp>>
counts  == <<orders, outstanding>>
vars    == <<object, clients, request, worker, counts>>

SBO(o) == CtlModel[o] \in {2, 4}

NoRequest == [at |-> "none", kind |-> "none", by |-> Nobody, obj |-> 0, timed |-> FALSE]

Init ==
  /\ state = [o \in Objects |-> IF SBO(o) THEN "unselected" ELSE "ready"]
  /\ mmsConnection = [o \in Objects |-> Nobody]
  /\ fresh = [o \in Objects |-> FALSE]
  /\ timeActivated = [o \in Objects |-> FALSE]
  /\ due = [o \in Objects |-> TRUE]
  /\ connection = [c \in Clients |-> "closed"]
  /\ tasksCount = [c \in Clients |-> 0]
  /\ givesUp = [c \in Clients |-> 0]
  /\ request = NoRequest
  /\ worker = [at |-> "look", obj |-> 1]
  /\ orders = 0
  /\ outstanding = [o \in Objects |-> 0]

-----------------------------------------------------------------------------
(* initiateControlTask and exitControlTask: a connection that is closing   *)
(* is not found in the list any more.  Tasks that were never counted may   *)
(* be given up without end; every request counts two at most, so what is   *)
(* below the bound would not become positive.                              *)
Counted(c, n) ==
  IF c \in Clients /\ connection[c] = "open" /\ tasksCount[c] + n >= -2 * MaxOrders
    THEN [tasksCount EXCEPT ![c] = @ + n]
    ELSE tasksCount

\* A variant that leaves an object to be operated many times as it is.
AbortedIfOnce(o) ==
  IF SBO(o) THEN IF OperateOnce[o] THEN "unselected" ELSE state[o] ELSE "ready"

(* What abortControlOperation makes of the state. *)
Aborted(o) == IF SBO(o) /\ OperateOnce[o] THEN "unselected" ELSE "ready"

\* A variant that looks for the wrong state.
ExpiredUnselected(o) == SBO(o) /\ state[o] = "unselected" /\ SelectTimeout[o] > 0 /\ ~fresh[o]

(* checkSelectTimeout *)
Expired(o) == SBO(o) /\ state[o] = "ready" /\ SelectTimeout[o] > 0 /\ ~fresh[o]

-----------------------------------------------------------------------------
(* Requests *)

Handling(at, c, o) == request.at = at /\ request.by = c /\ request.obj = o

Continues(at) == request' = [request EXCEPT !.at = at]

Ends == request' = NoRequest

Becomes(o, s) == state' = [state EXCEPT ![o] = s]

Ordered(o) == outstanding' = [outstanding EXCEPT ![o] = @ + 1]

(* A write of SBOw, Oper or Cancel, or a read of SBO. *)
Arrives(c, o, kind) ==
  /\ connection[c] = "open" /\ request = NoRequest
  /\ kind = "select" => SBO(o)
  /\ request' = [at |-> IF kind # "cancel" /\ Expired(o) THEN "expire" ELSE "look",
                 kind |-> kind, by |-> c, obj |-> o, timed |-> FALSE]
  /\ UNCHANGED <<object, clients, worker, counts>>

Expire(c, o) ==
  /\ Handling("expire", c, o)
  /\ Becomes(o, "unselected") /\ Continues("look")
  /\ UNCHANGED <<mmsConnection, fresh, times, clients, worker, counts>>

(* Refused for its values, the state it finds or by the check handler. *)
Refused(c, o) ==
  /\ Handling("look", c, o)
  /\ Ends
  /\ UNCHANGED <<object, clients, worker, counts>>

(* Found unselected, and the check handler accepts. *)
SelectAccepted(c, o) ==
  /\ Handling("look", c, o) /\ request.kind = "select"
  /\ state[o] = "unselected"
  /\ Continues("select")
  /\ UNCHANGED <<object, clients, worker, counts>>

(* selectObject *)
Select(c, o) ==
  /\ \/ /\ Handling("select", c, o) /\ Continues("selected")
        /\ fresh' = [fresh EXCEPT ![o] = TRUE]
        /\ mmsConnection' = [mmsConnection EXCEPT ![o] = c]
        /\ UNCHANGED state
     \/ /\ Handling("selected", c, o) /\ Ends
        /\ Becomes(o, "ready")
        /\ UNCHANGED <<fresh, mmsConnection>>
  /\ UNCHANGED <<times, clients, worker, counts>>

(* An Oper that finds the object ready, from the client that selected it   *)
(* if it must be selected.                                                 *)
OperAccepted(c, o) ==
  /\ Handling("look", c, o) /\ request.kind = "oper"
  /\ orders < MaxOrders
  /\ state[o] = "ready"
  /\ SBO(o) => mmsConnection[o] = c
  /\ orders' = orders + 1
  /\ UNCHANGED <<state, mmsConnection, fresh, clients, worker, outstanding>>

OperTimed(c, o) ==
  /\ OperAccepted(c, o)
  /\ due' = [due EXCEPT ![o] = FALSE]
  /\ timeActivated' = [timeActivated EXCEPT ![o] = TRUE]
  /\ request' = [request EXCEPT !.at = "take timed", !.timed = TRUE]

(* Without a time, operateTime is 0. *)
Oper(c, o) ==
  /\ OperAccepted(c, o)
  /\ due' = [due EXCEPT ![o] = TRUE]
  /\ Continues("decide")
  /\ UNCHANGED timeActivated

(* A timed one is handed to the worker. *)
HandOverTimed(c, o) ==
  /\ \/ /\ Handling("take timed", c, o) /\ Continues("hand over timed")
        /\ mmsConnection' = [mmsConnection EXCEPT ![o] = c]
        /\ tasksCount' = Counted(c, 1)
        /\ UNCHANGED <<state, outstanding>>
     \/ /\ Handling("hand over timed", c, o) /\ Continues("decide")
        /\ Becomes(o, "wait for activation") /\ Ordered(o)
        /\ UNCHANGED <<mmsConnection, tasksCount>>
  /\ UNCHANGED <<fresh, times, connection, givesUp, worker, orders>>

(* Whether it has a time is then looked up in timeActivatedOperate, and if *)
(* not, the check handler is asked.                                        *)
Decide(c, o) ==
  /\ Handling("decide", c, o)
  /\ IF timeActivated[o] THEN Ends ELSE Continues("take") \/ Continues("abort")
  /\ UNCHANGED <<object, clients, worker, counts>>

HandOver(c, o) ==
  /\ \/ /\ Handling("take", c, o) /\ Continues("hand over")
        /\ mmsConnection' = [mmsConnection EXCEPT ![o] = c]
        /\ UNCHANGED <<state, tasksCount, outstanding>>
     \/ /\ Handling("hand over", c, o) /\ Continues("count")
        /\ Becomes(o, "wait for execution") /\ Ordered(o)
        /\ UNCHANGED <<mmsConnection, tasksCount>>
     \/ /\ Handling("count", c, o) /\ Ends
        /\ tasksCount' = Counted(mmsConnection[o], 1)
        /\ UNCHANGED <<state, mmsConnection, outstanding>>
  /\ UNCHANGED <<fresh, times, connection, givesUp, worker, orders>>

(* An object that the client has selected, or else an order with a time.   *)
Cancel(c, o) ==
  /\ Handling("look", c, o) /\ request.kind = "cancel"
  /\ IF SBO(o) /\ state[o] # "unselected" /\ mmsConnection[o] = c
       THEN Continues("unselect") /\ UNCHANGED timeActivated
       ELSE /\ timeActivated[o] /\ Continues("abort")
            /\ timeActivated' = [timeActivated EXCEPT ![o] = FALSE]
  /\ UNCHANGED <<state, mmsConnection, fresh, due, clients, worker, counts>>

Unselect(c, o) ==
  /\ Handling("unselect", c, o)
  /\ Becomes(o, "unselected") /\ Ends
  /\ UNCHANGED <<mmsConnection, fresh, times, clients, worker, counts>>

(* abortControlOperation, for a cancel and for an Oper that the check      *)
(* handler rejects: its task was never counted, and one is given up for    *)
(* whoever used the object last.                                           *)
AbortRequest(c, o) ==
  /\ \/ /\ Handling("abort", c, o) /\ Continues("exit")
        /\ Becomes(o, Aborted(o)) /\ UNCHANGED tasksCount
     \/ /\ Handling("exit", c, o) /\ Ends
        /\ tasksCount' = Counted(mmsConnection[o], -1) /\ UNCHANGED state
  /\ UNCHANGED <<mmsConnection, fresh, times, connection, givesUp, worker, counts>>

-----------------------------------------------------------------------------
(* The worker: Control_processControlActions and executeControlTask.       *)

At(at, o) == worker.at = at /\ worker.obj = o

Goes(at, o) == worker' = [at |-> at, obj |-> o]

(* On to the next object of the list, or to the first one of the next round. *)
Leaves(o) == Goes("look", IF o = ObjectCount THEN 1 ELSE o + 1)

(* An object that waits for its time is asked whether it has come; the     *)
(* state of any other is read again.                                       *)
Look(o) ==
  /\ At("look", o)
  /\ IF state[o] = "wait for activation" THEN Goes("time", o) ELSE Goes("look again", o)
  /\ UNCHANGED <<object, clients, request, counts>>

\* A variant that does not come back to an operation that is under way.
LookAgainForWaiting(o) ==
  /\ At("look again", o)
  /\ IF state[o] = "wait for execution" THEN Goes("execute", o) ELSE Leaves(o)
  /\ UNCHANGED <<object, clients, request, counts>>

LookAgain(o) ==
  /\ At("look again", o)
  /\ IF state[o] \in {"unselected", "ready"} THEN Leaves(o) ELSE Goes("execute", o)
  /\ UNCHANGED <<object, clients, request, counts>>

LookAtTime(o) ==
  /\ At("time", o)
  /\ IF due[o] THEN Goes("check", o) ELSE Leaves(o)
  /\ UNCHANGED <<object, clients, request, counts>>

Check(o) ==
  /\ At("check", o)
  /\ timeActivated' = [timeActivated EXCEPT ![o] = FALSE]
  /\ Goes("execute", o) \/ Goes("abort once", o)
  /\ UNCHANGED <<state, mmsConnection, fresh, due, clients, request, counts>>

Waiting(o) == state[o] \in {"wait for activation", "wait for execution"}

(* The handler that waits for execution and the one that operates: each is *)
(* called again when it has not finished.                                  *)
Unfinished(o) ==
  /\ At("execute", o) /\ (Waiting(o) \/ state[o] = "operate")
  /\ fresh' = IF state[o] = "operate" THEN [fresh EXCEPT ![o] = TRUE] ELSE fresh
  /\ Leaves(o)
  /\ UNCHANGED <<state, mmsConnection, times, clients, request, counts>>

Wait(o) ==
  /\ At("execute", o) /\ Waiting(o)
  /\ Goes("start", o) \/ Goes("abort", o)
  /\ UNCHANGED <<object, clients, request, counts>>

Start(o) ==
  /\ At("start", o)
  /\ Becomes(o, "operate")
  /\ Goes("execute", o)
  /\ UNCHANGED <<mmsConnection, fresh, times, clients, request, counts>>

Perform(o) ==
  /\ At("execute", o) /\ state[o] = "operate"
  /\ fresh' = [fresh EXCEPT ![o] = TRUE]
  /\ outstanding' = [outstanding EXCEPT ![o] = @ - 1]
  /\ Goes("abort", o)
  /\ UNCHANGED <<state, mmsConnection, times, clients, request, orders>>

NothingToExecute(o) ==
  /\ At("execute", o) /\ state[o] \in {"unselected", "ready"}
  /\ Leaves(o)
  /\ UNCHANGED <<object, clients, request, counts>>

(* abortControlOperation leaves the task, and executeControlTask leaves it *)
(* once more.                                                              *)
Abort(o) ==
  /\ \/ At("abort", o) /\ Goes("exit", o)
     \/ At("abort once", o) /\ Goes("exit again", o)
  /\ Becomes(o, Aborted(o))
  /\ UNCHANGED <<mmsConnection, fresh, times, clients, request, counts>>

Exit(o) ==
  /\ \/ At("exit", o) /\ Goes("exit again", o)
     \/ At("exit again", o) /\ Leaves(o)
  /\ tasksCount' = Counted(mmsConnection[o], -1)
  /\ UNCHANGED <<object, connection, givesUp, request, counts>>

-----------------------------------------------------------------------------
(* Connections and time *)

Connect(c) ==
  /\ connection[c] = "closed"
  /\ connection' = [connection EXCEPT ![c] = "open"]
  /\ tasksCount' = [tasksCount EXCEPT ![c] = 0]
  /\ UNCHANGED <<object, givesUp, request, worker, counts>>

\* A variant in which another thread closes the connection.
CloseBeginsAnyTime(c) ==
  /\ connection[c] = "open"
  /\ connection' = [connection EXCEPT ![c] = "closing"]
  /\ UNCHANGED <<object, tasksCount, givesUp, request, worker, counts>>

(* mmsConnectionHandler, in the thread of the connection: takes it out of  *)
(* the list, waits until it has no tasks, and then gives up the first      *)
(* object that it used last.                                               *)
CloseBegins(c) ==
  /\ connection[c] = "open" /\ request.by # c
  /\ connection' = [connection EXCEPT ![c] = "closing"]
  /\ UNCHANGED <<object, tasksCount, givesUp, request, worker, counts>>

Used(c) == {o \in Objects : mmsConnection[o] = c}

NoTasksLeft(c) ==
  /\ connection[c] = "closing" /\ tasksCount[c] <= 0
  /\ \/ /\ Used(c) = {}
        /\ connection' = [connection EXCEPT ![c] = "closed"]
        /\ UNCHANGED givesUp
     \/ \E o \in Used(c) :
          /\ \A p \in Used(c) : o <= p
          /\ givesUp' = [givesUp EXCEPT ![c] = o]
          /\ connection' = [connection EXCEPT ![c] = "gives up"]
  /\ UNCHANGED <<object, tasksCount, request, worker, counts>>

(* abortControlOperation once more.  *)
GiveUp(c, o) ==
  /\ givesUp[c] = o
  /\ \/ /\ connection[c] = "gives up"
        /\ connection' = [connection EXCEPT ![c] = "leaves"]
        /\ Becomes(o, Aborted(o)) /\ UNCHANGED <<tasksCount, givesUp>>
     \/ /\ connection[c] = "leaves"
        /\ connection' = [connection EXCEPT ![c] = "closed"]
        /\ givesUp' = [givesUp EXCEPT ![c] = 0]
        /\ tasksCount' = Counted(mmsConnection[o], -1) /\ UNCHANGED state
  /\ UNCHANGED <<mmsConnection, fresh, times, request, worker, counts>>

SelectTimePasses(o) ==
  /\ SBO(o) /\ SelectTimeout[o] > 0 /\ fresh[o]
  /\ fresh' = [fresh EXCEPT ![o] = FALSE]
  /\ UNCHANGED <<state, mmsConnection, times, clients, request, worker, counts>>

OperateTimeComes(o) ==
  /\ ~due[o]
  /\ due' = [due EXCEPT ![o] = TRUE]
  /\ UNCHANGED <<state, mmsConnection, fresh, timeActivated, clients, request, worker, counts>>

-----------------------------------------------------------------------------
RequestStep(c, o) ==
  \/ Expire(c, o) \/ Refused(c, o) \/ SelectAccepted(c, o) \/ Select(c, o)
  \/ OperTimed(c, o) \/ Oper(c, o) \/ HandOverTimed(c, o) \/ Decide(c, o) \/ HandOver(c, o)
  \/ Cancel(c, o) \/ Unselect(c, o) \/ AbortRequest(c, o)

WorkerStep(o) ==
  \/ Look(o) \/ LookAgain(o) \/ LookAtTime(o) \/ Check(o)
  \/ Unfinished(o) \/ Wait(o) \/ Start(o) \/ Perform(o) \/ NothingToExecute(o)
  \/ Abort(o) \/ Exit(o)

TimePasses(o) == SelectTimePasses(o) \/ OperateTimeComes(o)

ClosingStep(c) == NoTasksLeft(c) \/ \E o \in Objects : GiveUp(c, o)

Next ==
  \/ \E c \in Clients, o \in Objects :
       \/ \E kind \in {"select", "oper", "cancel"} : Arrives(c, o, kind)
       \/ RequestStep(c, o)
  \/ \E o \in Objects : WorkerStep(o) \/ TimePasses(o)
  \/ \E c \in Clients : Connect(c) \/ CloseBegins(c) \/ ClosingStep(c)

Spec == Init /\ [][Next]_vars

(* The worker goes on, and a handler that is called again and again has    *)
(* an answer some time; a request is handled; time passes; a connection    *)
(* that may be closed is closed; of clients that are connected, some one   *)
(* tries to select each object again and again.                            *)
Fairness ==
  /\ WF_vars(\E o \in Objects : WorkerStep(o))
  /\ \A o \in Objects : SF_vars(Wait(o) \/ Perform(o))
  /\ WF_vars(\E c \in Clients, o \in Objects : RequestStep(c, o))
  /\ \A o \in Objects : WF_vars(SelectTimePasses(o)) /\ WF_vars(OperateTimeComes(o))
  /\ \A c \in Clients : WF_vars(ClosingStep(c))
  /\ \A o \in Objects : SF_vars(\E c \in Clients : Arrives(c, o, "select"))

FairSpec == Spec /\ Fairness

-----------------------------------------------------------------------------
States == {"unselected", "ready", "wait for activation", "wait for execution", "operate"}

RequestPlaces == {"expire", "look", "select", "selected", "take timed", "hand over timed",
                  "decide", "take", "hand over", "count", "unselect", "abort", "exit"}

WorkerPlaces == {"look", "look again", "time", "check", "execute", "start", "abort",
                 "abort once", "exit", "exit again"}

ActiveRequests ==
  [at : RequestPlaces, kind : {"select", "oper", "cancel"}, by : Clients, obj : Objects,
   timed : BOOLEAN]

(* The variables have their types; a direct object is always selected, and *)
(* a connection that is handling a request is open.                        *)
TypeOK ==
  /\ state \in [Objects -> States]
  /\ \A o \in Objects : state[o] = "unselected" => SBO(o)
  /\ mmsConnection \in [Objects -> Clients \cup {Nobody}]
  /\ fresh \in [Objects -> BOOLEAN]
  /\ timeActivated \in [Objects -> BOOLEAN] /\ due \in [Objects -> BOOLEAN]
  /\ connection \in [Clients -> {"closed", "open", "closing", "gives up", "leaves"}]
  /\ tasksCount \in [Clients -> Int]
  /\ givesUp \in [Clients -> Objects \cup {0}]
  /\ request \in ActiveRequests \cup {NoRequest}
  /\ request # NoRequest => connection[request.by] = "open"
  /\ request.at \in {"expire", "select", "selected", "unselect"} => SBO(request.obj)
  /\ worker \in [at : WorkerPlaces, obj : Objects]
  /\ orders \in 0..MaxOrders
  /\ outstanding \in [Objects -> Int]

(* However cancels, selections and closing connections come in between,    *)
(* the worker performs an order that was handed to it once at most.        *)
NeverTwice == \A o \in Objects : outstanding[o] >= 0

(* An order with a time is not executed at once as well: a request hands   *)
(* its order to the worker in one of the two ways.                         *)
HandedOverOnce == request.at = "hand over" => ~request.timed

(* An order without a time does not fall under the table because of the    *)
(* time of an earlier one.                                                 *)
ExecutedInstantly ==
  \A o \in Objects : (request.at = "decide" /\ request.obj = o /\ ~request.timed)
                       => ~timeActivated[o]

(* An operation is performed only if the time that was ordered has come.   *)
NotBeforeItsTime ==
  [][\A o \in Objects : outstanding'[o] < outstanding[o] => due[o]]_vars

(* An object that must be selected changes hands only when it is selected  *)
(* by nobody: one that is selected or operated is not available.           *)
SelectionExclusive ==
  [][\A o \in Objects : (SBO(o) /\ mmsConnection'[o] # mmsConnection[o])
                          => state[o] = "unselected"]_vars

(* An object that is operated becomes free again, whatever happens to the  *)
(* client and whatever the handlers answer.                                *)
ControlFreed ==
  \A o \in Objects :
    state[o] \notin {"unselected", "ready"} ~> state[o] \in {"unselected", "ready"}

(* A selection that is not used ends, as long as anybody is connected, even *)
(* if the connection it belongs to is closed and another has its address.   *)
SelectionEnds ==
  \A o \in {p \in Objects : SBO(p) /\ SelectTimeout[p] > 0} :
    state[o] = "ready" ~> (state[o] # "ready" \/ \A c \in Clients : connection[c] # "open")

(* A connection that begins to close is closed in the end. *)
ClosingEnds ==
  \A c \in Clients : connection[c] = "closing" ~> connection[c] = "closed"
=============================================================================
