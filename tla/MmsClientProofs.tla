-------------------------- MODULE MmsClientProofs --------------------------
(***************************************************************************)
(* For any number of threads, calls and reports: as long as every call     *)
(* gets its answer, each gets its own.                                     *)
(*                                                                         *)
(* The receive buffer is handed from the receiver to one caller and back.  *)
(* What makes that an invariant is that a post of receiveBufferMutex is    *)
(* never left over: then the receiver, once it has stored an answer, can   *)
(* not go on before the caller it is for has posted.                       *)
(***************************************************************************)
EXTENDS MmsClient, TLAPS

Places == {"idle", "sending", "waiting", "remove", "look", "parse", "release", "post", "return"}

CallerRecord ==
  [at : Places, id : 0 .. MaxCalls, got : BOOLEAN,
   error : {"none", "service", "timeout", "lost"}, value : Message]

\* What the server sends.
Sent == (Message \ {Nothing}) \cup {Closed}

Types ==
  /\ lastInvokeId \in 0 .. MaxCalls
  /\ lastResponseError \in {"none", "service", "timeout"}
  /\ caller \in [Callers -> CallerRecord]
  /\ buffer \in Message
  /\ permits \in Nat
  /\ asked \in SUBSET Ids
  /\ answers \in [Ids -> {"none", "data", "error"}]
  /\ wire \in Seq(Sent)
  /\ unanswered \in BOOLEAN

\* Ids are drawn in order, one for each call.
Numbered ==
  /\ \A c \in Callers : caller[c].id \in 0 .. lastInvokeId
  /\ \A c \in Callers : ~At(c, "idle") => caller[c].id \in 1 .. lastInvokeId
  /\ \A c, d \in Callers : c # d /\ ~At(c, "idle") /\ ~At(d, "idle") => caller[c].id # caller[d].id

\* The server answers what it was asked, and once.
AnsweredOnce ==
  /\ \A id \in asked : id <= lastInvokeId /\ answers[id] = "none"
  /\ \A id \in Ids : id > lastInvokeId => answers[id] = "none"
  /\ \A c \in Callers : At(c, "sending") => caller[c].id \notin asked /\ answers[caller[c].id] = "none"

IsAnswer(m) == m.kind \in {"data", "error"}

\* A message says what the server answered.
Truthful(m) == IsAnswer(m) => m.id \in Ids /\ answers[m.id] = m.kind

MessagesTrue == Truthful(buffer) /\ \A i \in DOMAIN wire : Truthful(wire[i])

\* The receiver waits for a post that nobody has made yet.
Unreleased == receiver = "acquire" /\ permits = 0

Guarded ==
  /\ receiver = "starting" => permits = 1
  /\ receiver \in {"reading", "callback", "store"} => permits = 0
  /\ receiver = "acquire" => permits \in {0, 1}
  /\ receiver = "callback" => buffer # Nothing
  /\ receiver = "store" => IsAnswer(buffer)

HandedOver ==
  /\ responseInvokeId = 0 => lastResponseError = "none"
  /\ responseInvokeId # 0 =>
       /\ Unreleased
       /\ IsAnswer(buffer) /\ responseInvokeId = buffer.id
       /\ lastResponseError = IF buffer.kind = "error" THEN "service" ELSE "none"

HasAnswer(c) == caller[c].at \in {"remove", "look", "parse", "release"}

Own(c) ==
  \/ /\ answers[caller[c].id] = "data" /\ caller[c].error \in {"none", "lost"}
     /\ caller[c].value = Data(caller[c].id)
  \/ answers[caller[c].id] = "error" /\ caller[c].error \in {"service", "lost"}

\* It has taken what it returns.
Done(c) == caller[c].at \in {"release", "post", "return", "idle"} /\ caller[c].id # 0

Taken(c) ==
  /\ HasAnswer(c) => caller[c].got /\ caller[c].id = responseInvokeId
  /\ At(c, "post") => Unreleased /\ responseInvokeId = 0
  /\ At(c, "parse") => lastResponseError = "none" /\ caller[c].error = "none"
  /\ Done(c) => Own(c)

OnePost == \A c, d \in Callers : At(c, "post") /\ At(d, "post") => c = d

HandOver == Guarded /\ HandedOver /\ (\A c \in Callers : Taken(c)) /\ OnePost

Facts == Types /\ Numbered /\ AnsweredOnce /\ MessagesTrue

Inv == Facts /\ (unanswered \/ HandOver)

-----------------------------------------------------------------------------
LEMMA MessageForm ==
  ASSUME NEW m \in Message \cup {Closed}
  PROVE  /\ m.kind \in {"nothing", "report", "closed", "data", "error"}
         /\ IsAnswer(m) => m.id \in Ids
         /\ m.kind = "data" => m = Data(m.id)
         /\ m.kind = "nothing" <=> m = Nothing
         /\ m.kind = "report" <=> m = Report
         /\ m.kind = "closed" <=> m = Closed
BY DEF Message, Data, Error, Nothing, Report, Closed, IsAnswer

LEMMA AnswerForm ==
  ASSUME NEW id \in Ids
  PROVE  /\ Data(id) \in Sent /\ Data(id).kind = "data" /\ Data(id).id = id
         /\ Error(id) \in Sent /\ Error(id).kind = "error" /\ Error(id).id = id
BY DEF Sent, Message, Data, Error, Nothing

LEMMA IdleRecord == Nothing \in Message /\ Nothing.kind = "nothing" /\ Idle \in CallerRecord
<1>1. Nothing \in Message /\ Nothing.kind = "nothing"
  BY DEF Message, Nothing
<1> QED  BY <1>1, ClientAssumption DEF Idle, Calling, CallerRecord, Places

LEMMA InitInv == Init => Inv
<1> SUFFICES ASSUME Init PROVE Inv
  OBVIOUS
<1>1. unanswered \in BOOLEAN
  BY DEF Init
<1>2. Types
  BY <1>1, IdleRecord, ClientAssumption DEF Init, Types
<1>3. Numbered /\ AnsweredOnce
  BY DEF Init, Idle, Calling, At, Numbered, AnsweredOnce
<1>4. MessagesTrue
  BY IdleRecord DEF Init, MessagesTrue, Truthful, IsAnswer
<1>5. HandOver
  BY DEF Init, Idle, Calling, At, HandOver, Guarded, HandedOver, Taken, Done, HasAnswer, OnePost
<1> QED  BY <1>2, <1>3, <1>4, <1>5 DEF Inv, Facts

-----------------------------------------------------------------------------
(* What is true whether or not calls are answered. *)

LEMMA CallFacts ==
  ASSUME Facts, NEW c \in Callers, BeginCall(c) \/ CallStep(c) \/ TimesOut(c)
  PROVE  Facts'
<1> USE DEF Facts
<1>1. ASSUME BeginCall(c) PROVE Facts'
  <2>1. lastInvokeId' = lastInvokeId + 1 /\ lastInvokeId' \in Ids
    BY <1>1, ClientAssumption DEF BeginCall, Types, Ids
  <2>2. caller' \in [Callers -> CallerRecord]
    <3>1. Calling("sending", lastInvokeId') \in CallerRecord
      <4>1. lastInvokeId' \in 0 .. MaxCalls
        BY <2>1, ClientAssumption DEF Ids
      <4> QED  BY <4>1, IdleRecord DEF Calling, CallerRecord, Places
    <3> QED  BY <1>1, <3>1 DEF BeginCall, Types
  <2>3. Types'
    BY <1>1, <2>1, <2>2 DEF BeginCall, Types, Ids, answer, receive, server
  <2>4. Numbered'
    BY <1>1, <2>1 DEF BeginCall, Calling, Numbered, At, Types
  <2>5. AnsweredOnce'
    BY <1>1, <2>1 DEF BeginCall, Calling, AnsweredOnce, At, Types, server, Ids
  <2>6. MessagesTrue'
    BY <1>1 DEF BeginCall, MessagesTrue, Truthful, receive, server
  <2> QED  BY <2>3, <2>4, <2>5, <2>6
<1>2. ASSUME Send(c) PROVE Facts'
  <2>1. caller[c].id \in Ids /\ caller[c].id <= lastInvokeId
    BY <1>2, ClientAssumption DEF Send, Numbered, Types, At, Ids
  <2>2. Types'
    BY <1>2, <2>1 DEF Send, Goto, Types, CallerRecord, Places, answer, receive
  <2>3. Numbered'
    BY <1>2 DEF Send, Goto, Numbered, At, Types
  <2>4. AnsweredOnce'
    BY <1>2, <2>1 DEF Send, Goto, AnsweredOnce, Numbered, At, Types
  <2>5. MessagesTrue'
    BY <1>2 DEF Send, MessagesTrue, Truthful, receive
  <2> QED  BY <2>2, <2>3, <2>4, <2>5
<1>3. ASSUME Found(c) \/ Lost(c) \/ TimesOut(c) \/ Remove(c) \/ Look(c) \/ Parse(c) \/ Release(c)
              \/ Post(c) \/ Return(c)
      PROVE  Facts'
  <2> DEFINE Quiet(d) == /\ ~At(d, "idle") /\ ~At(d, "sending") /\ ~At(d, "sending")'
                         /\ \/ caller'[d].id = caller[d].id
                            \/ caller'[d].id = 0 /\ At(d, "idle")'
  <2>1. UNCHANGED <<lastInvokeId, buffer, asked, answers, wire>>
    BY <1>3 DEF Found, Lost, TimesOut, Remove, Look, Parse, Release, Post, Return, calls, receive,
       server
  <2>2. Quiet(c) /\ \A d \in Callers \ {c} : caller'[d] = caller[d]
    <3> USE DEF Types, At
    <3>1. CASE Found(c)
      BY <3>1 DEF Found
    <3>2. CASE Lost(c)
      BY <3>2 DEF Lost, Goto
    <3>6. CASE TimesOut(c)
      BY <3>6 DEF TimesOut, Goto
    <3>7. CASE Remove(c)
      BY <3>7 DEF Remove, Goto
    <3>8. CASE Release(c)
      BY <3>8 DEF Release, Goto
    <3>3. CASE Look(c)
      BY <3>3 DEF Look
    <3>4. CASE Parse(c)
      BY <3>4 DEF Parse
    <3>5. CASE Post(c)
      BY <3>5 DEF Post, Goto
    <3>9. CASE Return(c)
      BY <3>9 DEF Return, Idle, Calling
    <3> QED  BY <1>3, <3>1, <3>2, <3>3, <3>4, <3>5, <3>6, <3>7, <3>8, <3>9
  <2>3. Types'
    <3>1. permits' \in Nat
      BY <1>3 DEF Found, Lost, TimesOut, Remove, Look, Parse, Release, Post, Return, Types, receive
    <3>2. unanswered' \in BOOLEAN
      BY <1>3 DEF Found, Lost, TimesOut, Remove, Look, Parse, Release, Post, Return, Types
    <3>3. caller' \in [Callers -> CallerRecord]
      <4> DEFINE Moved(p) == [caller EXCEPT ![c].at = p]
      <4>0. \A p \in Places : Moved(p) \in [Callers -> CallerRecord]
        BY DEF Types, CallerRecord
      <4>1. CASE Lost(c) \/ TimesOut(c) \/ Remove(c) \/ Release(c) \/ Post(c)
        <5>1. \E p \in Places : caller' = Moved(p)
          BY <4>1 DEF Lost, TimesOut, Remove, Release, Post, Goto, Places
        <5> QED  BY <4>0, <5>1
      <4>5. CASE Found(c)
        <5>1. caller' = [caller EXCEPT ![c].at = "remove", ![c].got = TRUE]
          BY <4>5 DEF Found
        <5>2. caller[c] \in CallerRecord
          BY DEF Types
        <5>3. PICK r : r = [caller[c] EXCEPT !.at = "remove", !.got = TRUE]
          OBVIOUS
        <5>4. r \in CallerRecord
          BY <5>2, <5>3 DEF CallerRecord, Places
        <5>5. caller' = [caller EXCEPT ![c] = r]
          BY <5>1, <5>3
        <5> QED  BY <5>4, <5>5 DEF Types
      <4>2. CASE Look(c)
        <5> DEFINE place == IF lastResponseError = "none" /\ caller[c].got THEN "parse" ELSE "release"
        <5>1. place \in Places
          BY DEF Places
        <5>2. caller' = [caller EXCEPT ![c].error = lastResponseError, ![c].at = place]
          BY <4>2 DEF Look
        <5> HIDE DEF place
        <5>3. caller[c] \in CallerRecord /\ lastResponseError \in {"none", "service", "timeout"}
          BY DEF Types
        <5>4. PICK r : r = [caller[c] EXCEPT !.error = lastResponseError, !.at = place]
          OBVIOUS
        <5>5. r \in CallerRecord
          BY <5>1, <5>3, <5>4 DEF CallerRecord
        <5>6. caller' = [caller EXCEPT ![c] = r]
          BY <5>2, <5>4
        <5> QED  BY <5>5, <5>6 DEF Types
      <4>3. CASE Parse(c)
        <5>1. caller' = [caller EXCEPT ![c].value = buffer, ![c].at = "release"]
          BY <4>3 DEF Parse
        <5>2. caller[c] \in CallerRecord /\ buffer \in Message
          BY DEF Types
        <5>3. PICK r : r = [caller[c] EXCEPT !.value = buffer, !.at = "release"]
          OBVIOUS
        <5>4. r \in CallerRecord
          BY <5>2, <5>3 DEF CallerRecord, Places
        <5>5. caller' = [caller EXCEPT ![c] = r]
          BY <5>1, <5>3
        <5> QED  BY <5>4, <5>5 DEF Types
      <4>4. CASE Return(c)
        <5>1. caller[c] \in CallerRecord
          BY DEF Types
        <5>2. PICK r : r = [caller[c] EXCEPT !.at = "idle", !.error = "lost"]
          OBVIOUS
        <5>3. r \in CallerRecord
          BY <5>1, <5>2 DEF CallerRecord, Places
        <5>4. caller' = [caller EXCEPT ![c] = IF association = "closed" THEN r ELSE Idle]
          BY <4>4, <5>2 DEF Return
        <5> QED  BY <5>3, <5>4, IdleRecord DEF Types
      <4> QED  BY <1>3, <4>1, <4>2, <4>3, <4>4, <4>5
    <3>4. lastResponseError' \in {"none", "service", "timeout"}
      BY <1>3 DEF Found, Lost, TimesOut, Remove, Look, Parse, Release, Post, Return, Types, answer
    <3> QED  BY <2>1, <3>1, <3>2, <3>3, <3>4 DEF Types
  <2>4. Numbered'
    BY <2>1, <2>2 DEF Numbered, At, Types
  <2>5. AnsweredOnce'
    BY <2>1, <2>2 DEF AnsweredOnce, At
  <2>6. MessagesTrue'
    BY <2>1 DEF MessagesTrue, Truthful
  <2> QED  BY <2>3, <2>4, <2>5, <2>6
<1> QED  BY <1>1, <1>2, <1>3 DEF CallStep

LEMMA ReceiveFacts ==
  ASSUME Facts, ReceiveStep \/ Close
  PROVE  Facts'
<1> USE DEF Facts
<1>1. UNCHANGED <<lastInvokeId, caller, asked, answers>>
  BY DEF ReceiveStep, StartHandling, ReadMessage, ForNobody, ForACaller, Store, Acquire, EndReading,
     End, Close,
         calls, server
<1>2. Numbered' /\ AnsweredOnce'
  BY <1>1 DEF Numbered, AnsweredOnce, At
<1>3. permits' \in Nat
  BY DEF ReceiveStep, StartHandling, ReadMessage, ForNobody, ForACaller, Store, Acquire, EndReading,
     End, Close,
         receive, Types
<1>4. unanswered' = unanswered
  BY DEF ReceiveStep, StartHandling, ReadMessage, ForNobody, ForACaller, Store, Acquire, EndReading,
     End, Close
<1>5. lastResponseError' \in {"none", "service", "timeout"}
  BY DEF ReceiveStep, StartHandling, ReadMessage, ForNobody, ForACaller, Store, Acquire, EndReading,
     End, Close,
         answer, Types
<1>6. CASE ReadMessage
  <2>1. wire \in Seq(Sent) /\ wire # <<>> /\ Head(wire) # Closed /\ wire' = Tail(wire) /\ buffer' = Head(wire)
    BY <1>6 DEF ReadMessage, Types
  <2>2. wire' \in Seq(Sent) /\ Head(wire) \in Sent /\ Head(wire) = wire[1] /\ 1 \in DOMAIN wire
    BY <2>1
  <2>3. \A i \in DOMAIN wire' : i + 1 \in DOMAIN wire /\ wire'[i] = wire[i + 1]
    BY <2>1
  <2>4. buffer' \in Message
    BY <2>1, <2>2 DEF Sent
  <2>5. Types'
    BY <1>1, <1>3, <1>4, <1>5, <2>2, <2>4 DEF Types
  <2>6. MessagesTrue'
    BY <1>1, <2>1, <2>2, <2>3 DEF MessagesTrue, Truthful
  <2> QED  BY <1>2, <2>5, <2>6
<1>7. CASE ~ReadMessage
  <2>1. UNCHANGED <<buffer, wire>>
    BY <1>7 DEF ReceiveStep, StartHandling, ForNobody, ForACaller, Store, Acquire, EndReading, End,
       Close, receive
  <2>2. Types'
    BY <1>1, <1>3, <1>4, <1>5, <2>1 DEF Types
  <2>3. MessagesTrue'
    BY <1>1, <2>1 DEF MessagesTrue, Truthful
  <2> QED  BY <1>2, <2>2, <2>3
<1> QED  BY <1>6, <1>7

LEMMA ServerFacts ==
  ASSUME Facts, (\E id \in Ids : Answer(id)) \/ SendReport \/ PeerCloses
  PROVE  Facts'
<1> USE DEF Facts
<1>1. UNCHANGED <<lastInvokeId, lastResponseError, caller, buffer, permits, unanswered>>
  BY DEF Answer, SendReport, PeerCloses, calls, answer, receive
<1>2. Numbered'
  BY <1>1 DEF Numbered, At
<1>3. ASSUME NEW m \in Sent, wire' = Append(wire, m),
             \A e \in Message \cup {Closed} : Truthful(e) => Truthful(e)', Truthful(m)'
      PROVE  MessagesTrue' /\ wire' \in Seq(Sent)
  <2>1. wire \in Seq(Sent) /\ buffer \in Message
    BY DEF Types
  <2>2. wire' \in Seq(Sent) /\ DOMAIN wire' = DOMAIN wire \cup {Len(wire) + 1}
    BY <1>3, <2>1
  <2>3. \A i \in DOMAIN wire : wire'[i] = wire[i] /\ wire[i] \in Sent
    BY <1>3, <2>1
  <2>4. wire'[Len(wire) + 1] = m
    BY <1>3, <2>1
  <2>5. \A i \in DOMAIN wire : Truthful(wire[i])'
    BY <1>3, <2>3 DEF MessagesTrue, Sent, Truthful
  <2>6. Truthful(buffer)'
    BY <1>1, <1>3, <2>1 DEF MessagesTrue, Truthful
  <2> QED  BY <1>3, <2>2, <2>4, <2>5, <2>6 DEF MessagesTrue, Truthful
<1>4. ASSUME NEW id \in Ids, Answer(id) PROVE Facts'
  <2>1. PICK m \in {Data(id), Error(id)} :
             wire' = Append(wire, m) /\ answers' = [answers EXCEPT ![id] = m.kind]
    BY <1>4 DEF Answer
  <2>2. m \in Sent /\ m.kind \in {"data", "error"} /\ m.id = id
    BY <2>1, AnswerForm
  <2>3. id \in asked /\ asked' = asked \ {id} /\ answers[id] = "none"
    BY <1>4 DEF Answer, AnsweredOnce
  <2>4. \A e \in Message \cup {Closed} : Truthful(e) => Truthful(e)'
    BY <2>1, <2>3 DEF Truthful, IsAnswer, Types
  <2>5. Truthful(m)'
    BY <2>1, <2>2 DEF Truthful, IsAnswer, Types
  <2>6. MessagesTrue' /\ wire' \in Seq(Sent)
    BY <1>3, <2>1, <2>2, <2>4, <2>5
  <2>7. Types'
    BY <1>1, <2>1, <2>2, <2>3, <2>6 DEF Types
  <2>8. AnsweredOnce'
    <3>1. \A i \in Ids : answers'[i] = IF i = id THEN m.kind ELSE answers[i]
      BY <2>1 DEF Types
    <3>2. \A i \in asked' : i # id /\ i <= lastInvokeId /\ answers'[i] = "none"
      BY <2>3, <3>1 DEF AnsweredOnce, Types
    <3>3. \A i \in Ids : i > lastInvokeId => answers'[i] = "none"
      <4>1. id <= lastInvokeId /\ id \in Nat /\ lastInvokeId \in Nat
        BY <2>3 DEF AnsweredOnce, Types, Ids
      <4> QED  BY <3>1, <4>1 DEF AnsweredOnce, Ids
    <3>4. \A c \in Callers : At(c, "sending") =>
             caller[c].id \notin asked' /\ answers'[caller[c].id] = "none"
      BY <2>1, <2>3 DEF AnsweredOnce, Types
    <3> QED  BY <1>1, <3>2, <3>3, <3>4 DEF AnsweredOnce, At
  <2> QED  BY <1>2, <2>6, <2>7, <2>8
<1>5. CASE SendReport \/ PeerCloses
  <2>1. PICK m \in {Report, Closed} : wire' = Append(wire, m)
    BY <1>5 DEF SendReport, PeerCloses
  <2>2. m \in Sent /\ ~IsAnswer(m)
    BY DEF Sent, Message, Report, Nothing, Closed, IsAnswer
  <2>3. UNCHANGED <<asked, answers>>
    BY <1>5 DEF SendReport, PeerCloses, server
  <2>4. MessagesTrue' /\ wire' \in Seq(Sent)
    BY <1>3, <2>1, <2>2, <2>3 DEF Truthful
  <2> QED  BY <1>1, <1>2, <2>3, <2>4 DEF Types, AnsweredOnce, At
<1> QED  BY <1>4, <1>5

LEMMA FactsNext == Facts /\ [Next]_vars => Facts'
<1> SUFFICES ASSUME Facts, [Next]_vars PROVE Facts'
  OBVIOUS
<1>1. CASE UNCHANGED vars
  BY <1>1 DEF Facts, Types, Numbered, AnsweredOnce, MessagesTrue, Truthful, At,
              vars, calls, answer, receive, server
<1> QED  BY <1>1, CallFacts, ReceiveFacts, ServerFacts DEF Next

-----------------------------------------------------------------------------
(* The buffer is handed over and back. *)

\* Whoever holds an answer, the receiver waits.
LEMMA HolderWaits ==
  ASSUME Facts, HandOver, NEW c \in Callers
  PROVE  /\ HasAnswer(c) => /\ caller[c].id \in Ids /\ caller[c].id # 0
                            /\ responseInvokeId # 0 /\ Unreleased
                            /\ \A d \in Callers \ {c} : ~HasAnswer(d) /\ ~At(d, "post")
         /\ At(c, "post") => Unreleased /\ \A d \in Callers \ {c} : ~HasAnswer(d) /\ ~At(d, "post")
         /\ ~Unreleased => /\ responseInvokeId = 0 /\ lastResponseError = "none"
                           /\ ~HasAnswer(c) /\ ~At(c, "post")
<1>1. \A d \in Callers : HasAnswer(d) => caller[d].id \in Ids /\ caller[d].id # 0 /\ ~At(d, "idle")
  BY ClientAssumption DEF HasAnswer, At, Facts, Numbered, Types, Ids
<1>2. \A d \in Callers : HasAnswer(d) => caller[d].id = responseInvokeId
  BY DEF HandOver, Taken
<1>3. \A d \in Callers : At(d, "post") => responseInvokeId = 0 /\ Unreleased
  BY DEF HandOver, Taken
<1>4. responseInvokeId # 0 => Unreleased
  BY DEF HandOver, HandedOver
<1>5. responseInvokeId = 0 => lastResponseError = "none"
  BY DEF HandOver, HandedOver
<1>6. \A d \in Callers \ {c} : HasAnswer(c) => ~HasAnswer(d)
  BY <1>1, <1>2 DEF Facts, Numbered
<1>7. \A d \in Callers \ {c} : At(c, "post") => ~At(d, "post")
  BY DEF HandOver, OnePost
<1> QED  BY <1>1, <1>2, <1>3, <1>4, <1>5, <1>6, <1>7

\* The answer that is handed over is the one the server gave.
LEMMA AnswerHandedOver ==
  ASSUME Facts, HandOver, responseInvokeId # 0
  PROVE  /\ responseInvokeId \in Ids
         /\ \/ /\ answers[responseInvokeId] = "data" /\ lastResponseError = "none"
               /\ buffer = Data(responseInvokeId)
            \/ answers[responseInvokeId] = "error" /\ lastResponseError = "service"
<1>1. IsAnswer(buffer) /\ responseInvokeId = buffer.id
      /\ lastResponseError = IF buffer.kind = "error" THEN "service" ELSE "none"
  BY DEF HandOver, HandedOver
<1>2. buffer.id \in Ids /\ answers[buffer.id] = buffer.kind
  BY <1>1 DEF Facts, MessagesTrue, Truthful
<1>3. buffer.kind = "data" => buffer = Data(buffer.id)
  BY MessageForm DEF Facts, Types
<1> QED  BY <1>1, <1>2, <1>3 DEF IsAnswer

\* A step of one caller that leaves the others, the receiver and the server alone.
LEMMA OthersTaken ==
  ASSUME HandOver, NEW c \in Callers, \A d \in Callers \ {c} : caller'[d] = caller[d],
         UNCHANGED <<answers, responseInvokeId, lastResponseError, receiver, permits>>,
         At(c, "post")' => \A d \in Callers \ {c} : ~At(d, "post"),
         Taken(c)'
  PROVE  (\A d \in Callers : Taken(d)') /\ OnePost'
BY DEF HandOver, Taken, Done, HasAnswer, At, Own, Unreleased, OnePost

LEMMA CallHandOver ==
  ASSUME Facts, HandOver, NEW c \in Callers, BeginCall(c) \/ CallStep(c) \/ TimesOut(c),
         ~unanswered, ~unanswered'
  PROVE  HandOver'
<1>1. caller \in [Callers -> CallerRecord]
  BY DEF Facts, Types
<1>2. ASSUME BeginCall(c) \/ Send(c) \/ Found(c) \/ Remove(c) \/ Look(c) \/ Parse(c)
      PROVE  HandOver'
  <2>1. UNCHANGED <<answers, responseInvokeId, lastResponseError, receiver, buffer, permits>>
    BY <1>2 DEF BeginCall, Send, Found, Remove, Look, Parse, calls, answer, receive, server
  <2>2. (\A d \in Callers \ {c} : caller'[d] = caller[d]) /\ ~At(c, "post")'
    <3> USE <1>1 DEF At
    <3>1. CASE BeginCall(c)
      BY <3>1 DEF BeginCall, Calling
    <3>2. CASE Send(c)
      BY <3>2 DEF Send, Goto, CallerRecord
    <3>3. CASE Found(c)
      BY <3>3 DEF Found, CallerRecord
    <3>4. CASE Remove(c)
      BY <3>4 DEF Remove, Goto, CallerRecord
    <3>5. CASE Look(c)
      BY <3>5 DEF Look, CallerRecord
    <3>6. CASE Parse(c)
      BY <3>6 DEF Parse, CallerRecord
    <3> QED  BY <1>2, <3>1, <3>2, <3>3, <3>4, <3>5, <3>6
  <2>3. Taken(c)'
    <3>1. CASE BeginCall(c)
      BY <1>1, <3>1 DEF BeginCall, Calling, Taken, Done, HasAnswer, At
    <3>6. CASE Send(c)
      BY <1>1, <3>6 DEF Send, Goto, Taken, Done, HasAnswer, At
    <3>2. CASE Found(c)
      BY <1>1, <3>2 DEF Found, answer, Taken, Done, HasAnswer, At
    <3>3. CASE Remove(c)
      BY <1>1, <3>3, <2>1 DEF Remove, Goto, HandOver, Taken, Done, HasAnswer, At
    <3>4. CASE Look(c)
      <4>1. HasAnswer(c) /\ caller[c].got /\ caller[c].id = responseInvokeId
        BY <3>4 DEF Look, At, HasAnswer, HandOver, Taken
      <4>2. responseInvokeId # 0
        BY <4>1, HolderWaits
      <4>3. \/ answers[caller[c].id] = "data" /\ lastResponseError = "none"
            \/ answers[caller[c].id] = "error" /\ lastResponseError = "service"
        BY <4>1, <4>2, AnswerHandedOver
      <4>4. /\ caller'[c].got = caller[c].got /\ caller'[c].id = caller[c].id
            /\ caller'[c].error = lastResponseError
            /\ caller'[c].at = IF lastResponseError = "none" THEN "parse" ELSE "release"
        BY <1>1, <3>4, <4>1 DEF Look, CallerRecord
      <4> QED  BY <2>1, <4>1, <4>3, <4>4 DEF Taken, Done, HasAnswer, At, Own
    <3>5. CASE Parse(c)
      <4>1. HasAnswer(c) /\ caller[c].got /\ caller[c].id = responseInvokeId
            /\ lastResponseError = "none" /\ caller[c].error = "none"
        BY <3>5 DEF Parse, At, HasAnswer, HandOver, Taken
      <4>2. responseInvokeId # 0
        BY <4>1, HolderWaits
      <4>3. answers[caller[c].id] = "data" /\ buffer = Data(caller[c].id)
        BY <4>1, <4>2, AnswerHandedOver
      <4>4. /\ caller'[c].got = caller[c].got /\ caller'[c].id = caller[c].id
            /\ caller'[c].error = "none" /\ caller'[c].value = buffer /\ caller'[c].at = "release"
        BY <1>1, <3>5, <4>1 DEF Parse, CallerRecord
      <4> QED  BY <2>1, <4>1, <4>3, <4>4 DEF Taken, Done, HasAnswer, At, Own
    <3> QED  BY <1>2, <3>1, <3>2, <3>3, <3>4, <3>5, <3>6
  <2>4. (\A d \in Callers : Taken(d)') /\ OnePost'
    BY <2>1, <2>2, <2>3, OthersTaken
  <2>5. Guarded' /\ HandedOver'
    BY <2>1 DEF HandOver, Guarded, HandedOver, Unreleased
  <2> QED  BY <2>4, <2>5 DEF HandOver
<1>3. ASSUME Release(c) PROVE HandOver'
  <2>1. HasAnswer(c) /\ Own(c) /\ Unreleased /\ \A d \in Callers \ {c} : ~HasAnswer(d) /\ ~At(d, "post")
    <3>1. HasAnswer(c) /\ Done(c)
      BY <1>3, HolderWaits DEF Release, At, HasAnswer, Done
    <3> QED  BY <3>1, HolderWaits DEF HandOver, Taken
  <2>2. responseInvokeId' = 0 /\ lastResponseError' = "none" /\ UNCHANGED <<receiver, buffer, permits, answers>>
    BY <1>3 DEF Release, receive, server
  <2>3. caller'[c] = [caller[c] EXCEPT !.at = "post"] /\ \A d \in Callers \ {c} : caller'[d] = caller[d]
    BY <1>1, <1>3 DEF Release, Goto
  <2>4. Taken(c)'
    BY <1>1, <2>1, <2>2, <2>3 DEF Taken, Done, HasAnswer, At, Own, Unreleased, CallerRecord
  <2>5. \A d \in Callers \ {c} : Taken(d)' /\ ~At(d, "post")'
    BY <2>1, <2>2, <2>3 DEF HandOver, Taken, Done, HasAnswer, At, Own
  <2>6. Guarded' /\ HandedOver'
    BY <2>2 DEF HandOver, Guarded, HandedOver
  <2> QED  BY <2>4, <2>5, <2>6 DEF HandOver, OnePost
<1>4. ASSUME Post(c) PROVE HandOver'
  <2>1. Unreleased /\ responseInvokeId = 0 /\ \A d \in Callers \ {c} : ~HasAnswer(d) /\ ~At(d, "post")
    BY <1>4, HolderWaits DEF Post, HandOver, Taken
  <2>2. permits' = 1 /\ UNCHANGED <<receiver, buffer, responseInvokeId, lastResponseError, answers>>
    BY <1>4, <2>1 DEF Post, answer, server, Unreleased
  <2>3. caller'[c] = [caller[c] EXCEPT !.at = "return"] /\ \A d \in Callers \ {c} : caller'[d] = caller[d]
    BY <1>1, <1>4 DEF Post, Goto
  <2>8. caller[c].id # 0 /\ Own(c)
    BY <1>4 DEF Post, Facts, Numbered, Types, At, HandOver, Taken, Done
  <2>4. Taken(c)'
    BY <1>1, <2>2, <2>3, <2>8 DEF Taken, Done, HasAnswer, At, Own, CallerRecord
  <2>5. \A d \in Callers \ {c} : Taken(d)' /\ ~At(d, "post")'
    BY <2>1, <2>2, <2>3 DEF HandOver, Taken, Done, HasAnswer, At, Own
  <2>6. Guarded' /\ HandedOver'
    BY <2>1, <2>2 DEF HandOver, Guarded, HandedOver, Unreleased
  <2>7. ~At(c, "post")'
    BY <1>1, <2>3 DEF At, CallerRecord
  <2> QED  BY <2>4, <2>5, <2>6, <2>7 DEF HandOver, OnePost
<1>5. ~Lost(c) /\ ~TimesOut(c)
  BY DEF Lost, TimesOut
<1>6. ASSUME Return(c) PROVE HandOver'
  <2>1. UNCHANGED <<answers, responseInvokeId, lastResponseError, receiver, buffer, permits>>
    BY <1>6 DEF Return, answer, receive, server
  <2>2. /\ caller'[c].at = "idle"
        /\ \/ caller'[c].id = 0
           \/ /\ caller'[c].id = caller[c].id /\ caller'[c].value = caller[c].value
              /\ caller'[c].error = "lost"
    BY <1>1, <1>6 DEF Return, Idle, Calling, CallerRecord
  <2>3. \A d \in Callers \ {c} : caller'[d] = caller[d]
    BY <1>1, <1>6 DEF Return
  <2>4. Own(c)
    BY <1>6 DEF Return, Facts, Numbered, Types, At, HandOver, Taken, Done
  <2>5. Taken(c)'
    BY <2>1, <2>2, <2>4 DEF Taken, Done, HasAnswer, At, Own
  <2>6. (\A d \in Callers : Taken(d)') /\ OnePost'
    BY <2>1, <2>2, <2>3, <2>5, OthersTaken DEF At
  <2>7. Guarded' /\ HandedOver'
    BY <2>1 DEF HandOver, Guarded, HandedOver, Unreleased
  <2> QED  BY <2>6, <2>7 DEF HandOver
<1> QED  BY <1>2, <1>3, <1>4, <1>5, <1>6 DEF CallStep

LEMMA ReceiveHandOver ==
  ASSUME Facts, HandOver, ReceiveStep \/ Close
  PROVE  HandOver'
<1>1. UNCHANGED <<caller, answers>>
  BY DEF ReceiveStep, StartHandling, ReadMessage, ForNobody, ForACaller, Store, Acquire, EndReading,
     End, Close, server
<1>2. CASE ~Unreleased
  <2>1. responseInvokeId = 0 /\ lastResponseError = "none" /\ \A c \in Callers : ~HasAnswer(c) /\ ~At(c, "post")
    BY <1>2, HolderWaits, Callers = {} \/ \E c \in Callers : TRUE DEF HandOver, HandedOver
  <2>2. (\A c \in Callers : Taken(c)') /\ OnePost'
    BY <1>1, <2>1 DEF HandOver, Taken, Done, HasAnswer, At, Own, OnePost
  <2>3. Guarded'
    <3>1. CASE ReadMessage
      <4>1. Head(wire) \in Sent
        BY <3>1 DEF ReadMessage, Facts, Types
      <4>2. buffer' # Nothing
        BY <3>1, <4>1 DEF ReadMessage, Sent
      <4> QED  BY <3>1, <4>2 DEF ReadMessage, HandOver, Guarded
    <3>2. CASE ForNobody
      BY <3>2 DEF ForNobody, HandOver, Guarded
    <3>3. CASE ForACaller
      <4>1. IsAnswer(buffer)
        <5>1. buffer \in Message /\ buffer # Nothing /\ buffer # Report
          BY <3>3 DEF ForACaller, IsOutstanding, HandOver, Guarded, Facts, Types
        <5>2. buffer # Closed
          BY <5>1 DEF Message, Closed, Nothing, Report, Data, Error
        <5> QED  BY <5>1, <5>2, MessageForm DEF IsAnswer
      <4> QED  BY <3>3, <4>1 DEF ForACaller, HandOver, Guarded
    <3>4. CASE Store
      BY <3>4 DEF Store, HandOver, Guarded
    <3>5. CASE Acquire
      BY <3>5 DEF Acquire, HandOver, Guarded
    <3>6. CASE EndReading \/ End
      BY <3>6 DEF EndReading, End, Guarded
    <3>8. CASE StartHandling
      BY <3>8 DEF StartHandling, HandOver, Guarded
    <3>7. CASE Close
      BY <3>7 DEF Close, receive, HandOver, Guarded
    <3> QED  BY <3>1, <3>2, <3>3, <3>4, <3>5, <3>6, <3>7, <3>8 DEF ReceiveStep
  <2>4. HandedOver'
    <3>1. CASE Store
      <4>1. IsAnswer(buffer) /\ permits = 0
        BY <3>1 DEF Store, HandOver, Guarded
      <4>2. buffer.id \in Ids /\ buffer.id # 0
        BY <4>1, MessageForm DEF Facts, Types, Ids
      <4> QED  BY <2>1, <3>1, <4>1, <4>2 DEF Store, HandedOver, Unreleased
    <3>2. CASE ~Store
      <4>1. UNCHANGED <<responseInvokeId, lastResponseError>>
        BY <3>2 DEF ReceiveStep, StartHandling, ReadMessage, ForNobody, ForACaller, Acquire,
           EndReading, End, Close, answer
      <4> QED  BY <2>1, <4>1 DEF HandedOver
    <3> QED  BY <3>1, <3>2
  <2> QED  BY <2>2, <2>3, <2>4 DEF HandOver
<1>3. CASE Unreleased
  <2>1. Close
    BY <1>3 DEF Unreleased, ReceiveStep, StartHandling, ReadMessage, ForNobody, ForACaller, Store,
       Acquire, EndReading, End
  <2> QED
    BY <1>1, <2>1 DEF Close, answer, receive, HandOver, Guarded, HandedOver, Taken, Done, HasAnswer,
       At, Own,
                      Unreleased, OnePost
<1> QED  BY <1>2, <1>3

LEMMA ServerHandOver ==
  ASSUME Facts, HandOver, (\E id \in Ids : Answer(id)) \/ SendReport \/ PeerCloses
  PROVE  HandOver'
<1>1. UNCHANGED <<caller, responseInvokeId, lastResponseError, receiver, buffer, permits>>
  BY DEF Answer, SendReport, PeerCloses, answer, receive
<1>2. \A id \in Ids : answers[id] # "none" => answers'[id] = answers[id]
  <2>1. ASSUME NEW i \in Ids, Answer(i), NEW id \in Ids, answers[id] # "none"
        PROVE  answers'[id] = answers[id]
    BY <2>1 DEF Answer, Facts, AnsweredOnce, Types
  <2>2. CASE SendReport \/ PeerCloses
    BY <2>2 DEF SendReport, PeerCloses, server
  <2> QED  BY <2>1, <2>2
<1>3. \A c \in Callers : Own(c) /\ Done(c) => Own(c)'
  <2> TAKE c \in Callers
  <2>1. Done(c) => caller[c].id \in Ids
    BY ClientAssumption DEF Facts, Numbered, Done, Types, Ids
  <2> QED  BY <1>1, <1>2, <2>1 DEF Own
<1>4. \A c \in Callers : Taken(c)'
  BY <1>1, <1>3 DEF HandOver, Taken, Done, HasAnswer, At, Unreleased
<1> QED  BY <1>1, <1>4 DEF HandOver, Guarded, HandedOver, Unreleased, OnePost, At

LEMMA NextInv == Inv /\ [Next]_vars => Inv'
<1> SUFFICES ASSUME Inv, [Next]_vars PROVE Inv'
  OBVIOUS
<1>1. Facts'
  BY FactsNext DEF Inv
<1>2. unanswered \in BOOLEAN /\ unanswered' \in BOOLEAN
  BY <1>1 DEF Inv, Facts, Types
<1>3. unanswered => unanswered'
  BY DEF Next, CallStep, BeginCall, Send, Found, Lost, TimesOut, Remove, Look, Parse, Release, Post,
     Return,
         ReceiveStep, StartHandling, ReadMessage, ForNobody, ForACaller, Store, Acquire, EndReading, End, Close,
         Answer, SendReport, PeerCloses, vars
<1>4. ASSUME ~unanswered' PROVE HandOver'
  <2>1. HandOver /\ Facts /\ ~unanswered
    BY <1>3, <1>4 DEF Inv
  <2>2. CASE UNCHANGED vars
    BY <2>1, <2>2 DEF HandOver, Guarded, HandedOver, Taken, Done, HasAnswer, At, Own, Unreleased,
       OnePost,
                      vars, calls, answer, receive, server
  <2> QED  BY <1>4, <2>1, <2>2, CallHandOver, ReceiveHandOver, ServerHandOver DEF Next
<1> QED  BY <1>1, <1>2, <1>4 DEF Inv

-----------------------------------------------------------------------------
(* What callers get. *)

\* As long as no call has ended without its answer, each call returns the data
\* or the error the server sent for it, for any number of threads, any number
\* of places for outstanding calls, and any number of reports.
THEOREM CallsGetTheirOwnAnswer == Spec => []OwnAnswer
<1>1. Inv => OwnAnswer
  BY DEF Inv, HandOver, Taken, Done, Own, OwnAnswer
<1> QED  BY <1>1, InitInv, NextInv, PTL DEF Spec
=============================================================================
