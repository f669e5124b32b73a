----------------------------- MODULE MmsClient -----------------------------
(***************************************************************************)
(* mms_client_connection.c and iso_client_connection.c: one association of *)
(* an MMS client, from when MmsConnection_connect has returned until its   *)
(* receiving thread has ended.  Several application threads call the       *)
(* server through it; one thread receives.                                 *)
(*                                                                         *)
(* All callers share one receive buffer, one place for "the answer to this *)
(* invoke id is there" and one error.  The receiver hands the buffer over  *)
(* by writing responseInvokeId and reads the next message when somebody    *)
(* has posted receiveBufferMutex, a semaphore that counts.  It posts       *)
(* itself after a message that is for nobody; a caller posts at the end of *)
(* every call, also of one that was given up.  lastResponse always points  *)
(* to the same buffer, whatever message is in it.                          *)
(*                                                                         *)
(* The server answers each request once at most, with data or an error, in *)
(* any order, sends reports, and may close the connection.                 *)
(***************************************************************************)
EXTENDS Naturals, Sequences, FiniteSets

CONSTANTS Callers,    \* application threads
          Slots,      \* OUTSTANDING_CALLS
          MaxCalls,   \* bound: calls made; far below the wrap of the 32-bit id
          MaxReports  \* bound: reports the server sends

ASSUME ClientAssumption == Slots \in Nat /\ MaxCalls \in Nat

VARIABLES
  \* mms_client_connection.c
  lastInvokeId,
  outstanding,       \* outstandingCalls, as the set of ids in it
  responseInvokeId,  \* 0: none
  lastResponseError, \* "none", "service" or "timeout"
  association,       \* associationState: "connected" or "closed"
  caller,            \* what each thread does: [at, id, got, error, value]
  transmit,          \* who holds transmitBufferMutex, or "free"
  \* iso_client_connection.c
  receiver,          \* where connectionHandlingThread is
  buffer,            \* the last message received
  permits,           \* of receiveBufferMutex
  stopHandlingThread,
  \* the server and the connection to it
  asked,             \* ids of requests it has not answered
  answers,           \* history: how it has answered each id
  wire,              \* what it has sent and nobody has read
  reports,           \* how many reports it has sent
  unanswered         \* history: some call ended without its answer

calls   == <<lastInvokeId, outstanding, transmit>>
answer  == <<responseInvokeId, lastResponseError>>
receive == <<receiver, buffer, permits>>
server  == <<asked, answers, reports>>
vars    == <<calls, answer, association, caller, receive, stopHandlingThread, server, wire,
             unanswered>>

Ids == 1 .. MaxCalls

Nothing   == [kind |-> "nothing"]
Report    == [kind |-> "report"]
Closed    == [kind |-> "closed"]    \* or anything else that is not data
Data(id)  == [kind |-> "data", id |-> id]
Error(id) == [kind |-> "error", id |-> id]

At(c, place) == caller[c].at = place

\* Thread c goes on at another place.
Goto(c, place) == caller' = [caller EXCEPT ![c].at = place]

\* A thread with nothing to show yet for its call; one that is idle has handed
\* over what its last call returned, and shows it only if the connection was lost.
Calling(place, id) == [at |-> place, id |-> id, got |-> FALSE, error |-> "none", value |-> Nothing]

Idle == Calling("idle", 0)

Init ==
  /\ lastInvokeId = 0 /\ outstanding = {} /\ transmit = "free"
  /\ responseInvokeId = 0 /\ lastResponseError = "none"
  /\ association = "connected"
  /\ caller = [c \in Callers |-> Idle]
  /\ receiver = "starting" /\ buffer = Nothing /\ permits = 1
  /\ stopHandlingThread = FALSE
  /\ asked = {} /\ answers = [id \in Ids |-> "none"] /\ reports = 0
  /\ wire = <<>>
  /\ unanswered = FALSE

-----------------------------------------------------------------------------
(* A call, for example MmsConnection_readVariable. *)

\* A variant that never uses the last place.
RegisteredOneLess(id) ==
  IF Cardinality(outstanding) < Slots - 1 THEN outstanding \cup {id} ELSE outstanding
\* addToOutstandingCalls; nobody looks at whether there was room.
Registered(id) ==
  IF Cardinality(outstanding) < Slots THEN outstanding \cup {id} ELSE outstanding

\* The transmit buffer is taken, an invoke id drawn and registered.
BeginCall(c) ==
  /\ At(c, "idle")
  /\ association = "connected"
  /\ transmit = "free"
  /\ lastInvokeId < MaxCalls
  /\ transmit' = c
  /\ lastInvokeId' = lastInvokeId + 1
  /\ outstanding' = Registered(lastInvokeId')
  /\ caller' = [caller EXCEPT ![c] = Calling("sending", lastInvokeId')]
  /\ UNCHANGED <<answer, association, receive, stopHandlingThread, server, wire, unanswered>>

\* sendMessage; on a closed connection it fails, and nobody notices.
Send(c) ==
  /\ At(c, "sending")
  /\ transmit' = "free"
  /\ asked' = IF association = "connected" THEN asked \cup {caller[c].id} ELSE asked
  /\ Goto(c, "waiting")
  /\ UNCHANGED <<lastInvokeId, outstanding, answer, association, receive, stopHandlingThread,
                 answers, reports, wire, unanswered>>

\* The loop of sendRequestAndWaitForResponse sees the answer ...
Found(c) ==
  /\ At(c, "waiting")
  /\ association = "connected"
  /\ responseInvokeId = caller[c].id
  /\ caller' = [caller EXCEPT ![c].at = "remove", ![c].got = TRUE]
  /\ UNCHANGED <<calls, answer, association, receive, stopHandlingThread, server, wire,
                 unanswered>>

\* ... or the time is over, without another look ...
TimesOut(c) ==
  /\ At(c, "waiting")
  /\ lastResponseError' = "timeout"
  /\ unanswered' = TRUE
  /\ Goto(c, "remove")
  /\ UNCHANGED <<calls, responseInvokeId, association, receive, stopHandlingThread, server,
                 wire>>

\* ... or the connection is lost.
Lost(c) ==
  /\ At(c, "waiting")
  /\ association = "closed"
  /\ unanswered' = TRUE
  /\ Goto(c, "remove")
  /\ UNCHANGED <<calls, answer, association, receive, stopHandlingThread, server, wire>>

Remove(c) ==
  /\ At(c, "remove")
  /\ outstanding' = outstanding \ {caller[c].id}
  /\ Goto(c, "look")
  /\ UNCHANGED <<lastInvokeId, transmit, answer, association, receive, stopHandlingThread,
                 server,
                 wire, unanswered>>

\* The shared error, if any, is taken for that of this call.
Look(c) ==
  /\ At(c, "look")
  /\ caller' = [caller EXCEPT ![c].error = lastResponseError,
                              ![c].at = IF lastResponseError = "none" /\ caller[c].got
                                        THEN "parse" ELSE "release"]
  /\ UNCHANGED <<calls, answer, association, receive, stopHandlingThread, server, wire,
                 unanswered>>

\* What is in the receive buffer by now is parsed.
Parse(c) ==
  /\ At(c, "parse")
  /\ caller' = [caller EXCEPT ![c].value = buffer, ![c].at = "release"]
  /\ UNCHANGED <<calls, answer, association, receive, stopHandlingThread, server, wire,
                 unanswered>>

\* releaseResponse: under lastResponseLock ...
Release(c) ==
  /\ At(c, "release")
  /\ responseInvokeId' = 0 /\ lastResponseError' = "none"
  /\ Goto(c, "post")
  /\ UNCHANGED <<calls, association, receive, stopHandlingThread, server, wire, unanswered>>

\* A variant that posts only when there was an answer.
PostIfGot(c) ==
  /\ At(c, "post")
  /\ permits' = IF caller[c].got THEN permits + 1 ELSE permits
  /\ Goto(c, "return")
  /\ UNCHANGED <<calls, answer, association, receiver, buffer, stopHandlingThread, server, wire,
                 unanswered>>
\* ... and after it.
Post(c) ==
  /\ At(c, "post")
  /\ permits' = permits + 1
  /\ Goto(c, "return")
  /\ UNCHANGED <<calls, answer, association, receiver, buffer, stopHandlingThread, server,
                 wire, unanswered>>

\* A connection that has been lost by now is reported in place of the error,
\* together with the value that was parsed.
Return(c) ==
  /\ At(c, "return")
  /\ caller' = [caller EXCEPT ![c] = IF association = "closed"
                                    THEN [@ EXCEPT !.at = "idle", !.error = "lost"]
                                    ELSE Idle]
  /\ UNCHANGED <<calls, answer, association, receive, stopHandlingThread, server, wire, unanswered>>

CallStep(c) ==
  \/ Send(c) \/ Found(c) \/ Lost(c) \/ Remove(c) \/ Look(c) \/ Parse(c) \/ Release(c)
  \/ Post(c) \/ Return(c)

-----------------------------------------------------------------------------
(* The receiving thread, with mmsIsoCallback. *)

\* What it is told before it is here is forgotten.  The buffer is released
\* when connect has parsed the server's answer.
StartHandling ==
  /\ receiver = "starting"
  /\ stopHandlingThread' = FALSE
  /\ receiver' = "acquire"
  /\ UNCHANGED <<calls, answer, association, caller, buffer, permits, server, wire, unanswered>>

ReadMessage ==
  /\ receiver = "reading"
  /\ wire # <<>> /\ Head(wire) # Closed
  /\ buffer' = Head(wire) /\ wire' = Tail(wire)
  /\ receiver' = "callback"
  /\ UNCHANGED <<calls, answer, association, caller, permits, stopHandlingThread, server,
                 unanswered>>

\* checkForOutstandingCall
IsOutstanding == buffer # Report /\ buffer.id \in outstanding

\* A report, or an answer nobody waits for: the buffer is released at once.
ForNobody ==
  /\ receiver = "callback"
  /\ ~IsOutstanding
  /\ permits' = permits + 1
  /\ receiver' = "acquire"
  /\ UNCHANGED <<calls, answer, association, caller, buffer, stopHandlingThread, server, wire,
                 unanswered>>

ForACaller ==
  /\ receiver = "callback"
  /\ IsOutstanding
  /\ receiver' = "store"
  /\ UNCHANGED <<calls, answer, association, caller, buffer, permits, stopHandlingThread,
                 server,
                 wire, unanswered>>

\* waitUntilLastResponseHasBeenProcessed, and the answer is there.
Store ==
  /\ receiver = "store"
  /\ responseInvokeId = 0
  /\ responseInvokeId' = buffer.id
  /\ lastResponseError' = IF buffer.kind = "error" THEN "service" ELSE lastResponseError
  /\ receiver' = "acquire"
  /\ UNCHANGED <<calls, association, caller, buffer, permits, stopHandlingThread, server, wire,
                 unanswered>>

\* A variant that does not wait for the buffer.
AcquireAnyway ==
  /\ receiver = "acquire"
  /\ permits' = IF permits > 0 THEN permits - 1 ELSE 0
  /\ receiver' = "reading"
  /\ UNCHANGED <<calls, answer, association, caller, buffer, stopHandlingThread, server, wire,
                 unanswered>>
Acquire ==
  /\ receiver = "acquire"
  /\ permits > 0 /\ permits' = permits - 1
  /\ receiver' = "reading"
  /\ UNCHANGED <<calls, answer, association, caller, buffer, stopHandlingThread, server, wire,
                 unanswered>>

\* Told to stop while there is nothing to read, or the server has closed:
\* the callback marks the association closed ...
EndReading ==
  /\ receiver = "reading"
  /\ IF wire = <<>> THEN stopHandlingThread ELSE Head(wire) = Closed
  /\ association' = "closed"
  /\ receiver' = "ending"
  /\ UNCHANGED <<calls, answer, caller, buffer, permits, stopHandlingThread, server, wire,
                 unanswered>>

\* ... and the thread closes the socket, releases the buffer and is gone.
End ==
  /\ receiver = "ending"
  /\ permits' = permits + 1
  /\ receiver' = "ended"
  /\ UNCHANGED <<calls, answer, association, caller, buffer, stopHandlingThread, server, wire,
                 unanswered>>

ReceiveStep ==
  \/ StartHandling \/ ReadMessage \/ ForNobody \/ ForACaller \/ Store \/ Acquire
  \/ EndReading \/ End

\* MmsConnection_close, which then waits until the thread is gone.
Close ==
  /\ association = "connected" /\ ~stopHandlingThread
  /\ stopHandlingThread' = TRUE
  /\ UNCHANGED <<calls, answer, association, caller, receive, server, wire, unanswered>>

-----------------------------------------------------------------------------
(* The server. *)

CanSend == association = "connected" /\ \A i \in DOMAIN wire : wire[i] # Closed

Answer(id) ==
  /\ CanSend
  /\ id \in asked /\ asked' = asked \ {id}
  /\ \E m \in {Data(id), Error(id)} :
       /\ wire' = Append(wire, m)
       /\ answers' = [answers EXCEPT ![id] = m.kind]
  /\ UNCHANGED <<calls, answer, association, caller, receive, stopHandlingThread, reports,
                 unanswered>>

SendReport ==
  /\ CanSend
  /\ reports < MaxReports /\ reports' = reports + 1
  /\ wire' = Append(wire, Report)
  /\ UNCHANGED <<calls, answer, association, caller, receive, stopHandlingThread, asked,
                 answers,
                 unanswered>>

PeerCloses ==
  /\ CanSend
  /\ wire' = Append(wire, Closed)
  /\ UNCHANGED <<calls, answer, association, caller, receive, stopHandlingThread, server,
                 unanswered>>

-----------------------------------------------------------------------------
Next ==
  \/ \E c \in Callers : BeginCall(c) \/ CallStep(c) \/ TimesOut(c)
  \/ ReceiveStep
  \/ Close
  \/ \E id \in Ids : Answer(id)
  \/ SendReport
  \/ PeerCloses

\* Threads run.  Nothing is assumed of the server, and no call has to time out.
Fairness ==
  /\ \A c \in Callers : WF_vars(CallStep(c))
  /\ WF_vars(ReceiveStep)

Spec == Init /\ [][Next]_vars /\ Fairness

-----------------------------------------------------------------------------
(* Properties. *)

Message == {Nothing, Report} \cup {Data(id) : id \in Ids} \cup {Error(id) : id \in Ids}

\* Unless a call has ended without its answer, what a call returns is the
\* answer to its own request: the data the server sent for it, or its error,
\* also if the connection is lost before it returns.
OwnAnswer ==
  unanswered \/
  \A c \in Callers : (caller[c].at \in {"release", "post", "return", "idle"} /\ caller[c].id # 0) =>
    \/ answers[caller[c].id] = "data" /\ caller[c].error \in {"none", "lost"}
                                      /\ caller[c].value = Data(caller[c].id)
    \/ answers[caller[c].id] = "error" /\ caller[c].error \in {"service", "lost"}

\* An answer reaches the thread that waits for it, however many reports and
\* answers to others come first, as long as no call has ended without its own.
AnswersArrive ==
  \A c \in Callers :
    (At(c, "waiting") /\ answers[caller[c].id] # "none") ~> (~At(c, "waiting") \/ unanswered)

\* No call waits for ever: the time-out of each sees to that.
CallsEnd == \A c \in Callers : []<>~At(c, "waiting")

\* close returns: once told to stop the receiving thread ends, wherever it was
\* waiting, unless it had not begun and forgets it.
CloseReturns == CallsEnd => (stopHandlingThread ~> (receiver = "ended" \/ ~stopHandlingThread))

\* close closes the connection, whenever it is called.
CloseCloses == CallsEnd => (stopHandlingThread ~> receiver = "ended")
=============================================================================
