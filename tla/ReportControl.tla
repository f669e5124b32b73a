---------------------------- MODULE ReportControl ----------------------------
(***************************************************************************)
(* A buffered report control block (reporting.c): the application thread   *)
(* reports changed values, the event worker thread turns them into reports *)
(* in the buffer and transmits them, and every client connection has a     *)
(* thread of its own that writes the attributes of the block.  All of them *)
(* take createNotificationsMutex, except the one that cleans up after a    *)
(* closed connection.                                                      *)
(*                                                                         *)
(* Time enters by the deadlines that pass: due is "reportTime is reached", *)
(* intgDue is "nextIntgReportTime is reached".  Both are compared with one *)
(* time that is taken before the lock, so they change while it is free.    *)
(* TrgOps has the general interrogation and the integrity period set,      *)
(* IntgPd is not zero, OptFlds contains bufOvfl, the data set is one of    *)
(* the model (not created by a client).                                    *)
(***************************************************************************)
EXTENDS ReportBuffer

CONSTANTS
  Clients,          \* connections
  Nobody,           \* no connection (NULL)
  Members,          \* entries of the data set
  ValueSize,        \* ValueSize[i] units for the value of member i
  HeaderSize,       \* units of an entry without values
  MaxReports,       \* bound: reports made in a behaviour
  MaxGI             \* bound: general interrogations in a behaviour

ASSUME ReportAssumption ==
  /\ Nobody \notin Clients
  /\ Members \cap {"free", "worker", "assertion", "null connection"} = {}
  /\ IsFiniteSet(Members)
  /\ ValueSize \in [Members -> Nat]
  /\ {HeaderSize, MaxReports} \subseteq Nat \ {0}
  /\ MaxGI \in Nat

VARIABLES
  buf,              \* reportBuffer
  lastEntryId,
  enabled, owner,   \* RptEna, clientConnection
  isBuffering, isResync,
  pend,             \* members with an inclusion flag
  triggered, gi,
  due, intgDue,     \* deadlines that have passed
  holder,           \* of the mutex: "free", "worker", the member that the application updates,
                    \* or what ended the server: "assertion", "null connection"
  sending,          \* the holder has found the block enabled and is about to transmit
  closing,          \* connections whose clean-up is between its two writes
  interrogated      \* general interrogations so far

vars == <<buf, lastEntryId, enabled, owner, isBuffering, isResync, pend, triggered, gi,
          due, intgDue, holder, sending, closing, interrogated>>

client  == <<enabled, owner, isBuffering, isResync, closing, interrogated>>
trigger == <<pend, triggered, gi, due, intgDue>>

Running == holder \notin {"assertion", "null connection"}

Sum(S) == LET s[T \in SUBSET S] == IF T = {} THEN 0
                                   ELSE LET i == CHOOSE i \in T : TRUE IN ValueSize[i] + s[T \ {i}]
          IN  s[S]

EntrySize(members) == HeaderSize + Sum(members)

(* Reports still to come from what is triggered already; the bound. *)
Room ==
  LET One(b) == IF b THEN 1 ELSE 0
  IN  lastEntryId + One(triggered) + One(gi) + One(intgDue) < MaxReports

Init ==
  /\ buf = NewBuffer
  /\ lastEntryId = 0
  /\ enabled = FALSE /\ owner = Nobody
  /\ isBuffering = TRUE /\ isResync = FALSE
  /\ pend = {} /\ triggered = FALSE /\ gi = FALSE
  /\ due = FALSE /\ intgDue = TRUE
  /\ holder = "free" /\ sending = FALSE
  /\ closing = {}
  /\ interrogated = 0

-----------------------------------------------------------------------------
(* Making reports, with the lock held: first the pending changes, then the *)
(* general interrogation, then the integrity report.                       *)

\* A variant that does not clear the inclusion flags.
EnqueueKeepingFlags(kind, members) ==
  LET size == EntrySize(members)
  IN  /\ buf' = Store(buf, Entry(lastEntryId + 1, size, kind, members))
      /\ lastEntryId' = lastEntryId + 1
      /\ UNCHANGED <<pend, holder>>

EnqueueReport(kind, members) ==
  LET id   == lastEntryId + 1
      base == IF kind = "gi" THEN RemoveGI(buf) ELSE buf
      size == EntrySize(members)
  IN  IF size > Block THEN UNCHANGED <<buf, lastEntryId, pend, holder>>
      ELSE IF StoreAborts(base)
      THEN holder' = "assertion" /\ UNCHANGED <<buf, lastEntryId, pend>>
      ELSE /\ buf' = Store(base, Entry(id, size, kind, members))
           /\ lastEntryId' = id
           /\ pend' = {}
           /\ UNCHANGED holder

Processing == holder \in {"worker"} \cup Members /\ ~sending

\* A variant in which the buffer time alone makes no report.
EventPendingUntimed == triggered /\ (gi \/ intgDue)

EventPending == triggered /\ (gi \/ intgDue \/ due)

ReportEvent ==
  /\ Processing /\ EventPending
  /\ EnqueueReport("event", pend)
  /\ triggered' = FALSE
  /\ UNCHANGED <<client, gi, due, intgDue, sending>>

ReportGI ==
  /\ Processing /\ ~EventPending /\ gi
  /\ EnqueueReport("gi", Members)
  /\ gi' = FALSE
  /\ triggered' = FALSE
  /\ UNCHANGED <<client, due, intgDue, sending>>

ReportIntegrity ==
  /\ Processing /\ ~EventPending /\ ~gi /\ intgDue
  /\ EnqueueReport("integrity", Members)
  /\ intgDue' = FALSE
  /\ triggered' = FALSE
  /\ UNCHANGED <<client, gi, due, sending>>

\* A variant that forgets the other flags.
SetOnlyFlag(i) ==
  /\ pend' = {i}
  /\ due' = (due /\ triggered)
  /\ triggered' = TRUE

(* ReportControl_valueUpdated after the pending report, if any, is out. *)
SetFlag(i) ==
  /\ pend' = pend \cup {i}
  /\ due' = (due /\ triggered)
  /\ triggered' = TRUE

Unlock ==
  /\ holder' = "free"
  /\ sending' = FALSE
  /\ IF holder \in Members THEN SetFlag(holder) ELSE UNCHANGED <<pend, due, triggered>>

AllReported == Processing /\ ~EventPending /\ ~gi /\ ~intgDue

\* A variant that waits with the newest report.
ToSendButOne == enabled /\ buf.next \notin {NULL, buf.last}

ToSend == enabled /\ buf.next # NULL

(* processEventsForReport ends with sendNextReportEntry for an enabled block. *)
CheckEnabled ==
  /\ AllReported /\ ToSend
  /\ sending' = TRUE
  /\ UNCHANGED <<buf, lastEntryId, client, trigger, holder>>

NothingToSend ==
  /\ AllReported /\ ~ToSend
  /\ Unlock
  /\ UNCHANGED <<buf, lastEntryId, client, gi, intgDue>>

SendNextReportEntry ==
  /\ sending /\ Running
  /\ IF owner = Nobody
     THEN holder' = "null connection" /\ UNCHANGED <<buf, pend, due, triggered, sending>>
     ELSE buf' = Transmitted(buf, TRUE) /\ Unlock
  /\ UNCHANGED <<lastEntryId, client, gi, intgDue>>

-----------------------------------------------------------------------------
(* The worker, the application and the clock. *)

ProcessReportEvents ==
  /\ holder = "free" /\ (enabled \/ isBuffering)
  /\ holder' = "worker"
  /\ UNCHANGED <<buf, lastEntryId, client, trigger, sending>>

(* A member whose flag is set already is reported first, without delay. *)
ValueUpdated(i) ==
  /\ holder = "free" /\ Room
  /\ IF i \in pend /\ (enabled \/ isBuffering)
     THEN /\ holder' = i
          /\ due' = TRUE
          /\ UNCHANGED <<pend, triggered>>
     ELSE SetFlag(i) /\ UNCHANGED holder
  /\ UNCHANGED <<buf, lastEntryId, client, gi, intgDue, sending>>

BufferTimeElapses ==
  /\ holder = "free" /\ triggered /\ ~due
  /\ due' = TRUE
  /\ UNCHANGED <<buf, lastEntryId, client, pend, triggered, gi, intgDue, holder, sending>>

IntegrityPeriodElapses ==
  /\ holder = "free" /\ ~intgDue /\ Room
  /\ intgDue' = TRUE
  /\ UNCHANGED <<buf, lastEntryId, client, pend, triggered, gi, due, holder, sending>>

-----------------------------------------------------------------------------
(* Writes of a client (Reporting_RCBWriteAccessHandler), the ones that are *)
(* not refused, and the EntryID that is refused for being unknown.         *)

\* A variant of the access handler that does not wait for the mutex.
WritesUnlocked(c) == Running /\ c \notin closing

Writes(c) == holder = "free" /\ c \notin closing

(* The data set is looked up again, with fresh flags; without a resync the *)
(* transmission starts over.                                               *)
Enable(c) ==
  /\ Writes(c) /\ ~enabled /\ isBuffering
  /\ enabled' = TRUE
  /\ owner' = c
  /\ pend' = {}
  /\ gi' = FALSE
  /\ buf' = IF isResync THEN buf ELSE Rewind(buf)
  /\ isResync' = FALSE
  /\ UNCHANGED <<lastEntryId, isBuffering, triggered, due, intgDue, holder, sending,
                 closing, interrogated>>

Disable(c) ==
  /\ Writes(c) /\ enabled /\ owner = c
  /\ enabled' = FALSE
  /\ owner' = Nobody
  /\ isResync' = FALSE
  /\ buf' = [buf EXCEPT !.overflow = TRUE]
  /\ UNCHANGED <<lastEntryId, isBuffering, trigger, holder, sending, closing, interrogated>>

Interrogate(c) ==
  /\ Writes(c) /\ enabled /\ owner = c
  /\ Room /\ interrogated < MaxGI /\ ~gi
  /\ gi' = TRUE
  /\ interrogated' = interrogated + 1
  /\ UNCHANGED <<buf, lastEntryId, enabled, owner, isBuffering, isResync, closing,
                 pend, triggered, due, intgDue, holder, sending>>

(* PurgeBuf, and a changed TrgOps, BufTm or RptID. *)
WritePurging(c) ==
  /\ Writes(c) /\ ~enabled
  /\ buf' = Purge(buf)
  /\ UNCHANGED <<lastEntryId, client, trigger, holder, sending>>

WriteIntgPd(c) ==
  /\ Writes(c) /\ ~enabled /\ ~intgDue /\ Room
  /\ buf' = Purge(buf)
  /\ intgDue' = TRUE
  /\ UNCHANGED <<lastEntryId, client, pend, triggered, gi, due, holder, sending>>

(* DatSet: no data set at all, which ends the buffering, or one again. *)
WriteNoDatSet(c) ==
  /\ Writes(c) /\ ~enabled /\ isBuffering
  /\ isBuffering' = FALSE
  /\ buf' = Purge(buf)
  /\ UNCHANGED <<lastEntryId, enabled, owner, isResync, closing, interrogated, trigger,
                 holder, sending>>

WriteDatSet(c) ==
  /\ Writes(c) /\ ~enabled /\ ~isBuffering
  /\ isBuffering' = TRUE
  /\ buf' = Purge(buf)
  /\ pend' = {}
  /\ UNCHANGED <<lastEntryId, enabled, owner, isResync, closing, interrogated,
                 triggered, gi, due, intgDue, holder, sending>>

WriteEntryID(c, id) ==
  /\ Writes(c) /\ ~enabled
  /\ IF id = 0 THEN buf' = Rewind(buf) /\ isResync' = FALSE
     ELSE IF Holding(buf, id) = {}
     THEN buf' = [buf EXCEPT !.overflow = TRUE] /\ UNCHANGED isResync
     ELSE buf' = ResumeAfter(buf, id) /\ isResync' = TRUE
  /\ UNCHANGED <<lastEntryId, enabled, owner, isBuffering, closing, interrogated, trigger,
                 holder, sending>>

-----------------------------------------------------------------------------
(* Reporting_deactivateReportsForConnection takes no lock. *)

CloseDisables(c) ==
  /\ Running /\ owner = c /\ c \notin closing
  /\ enabled' = FALSE
  /\ closing' = closing \cup {c}
  /\ UNCHANGED <<buf, lastEntryId, owner, isBuffering, isResync, interrogated, trigger,
                 holder, sending>>

CloseReleases(c) ==
  /\ Running /\ c \in closing
  /\ owner' = Nobody
  /\ closing' = closing \ {c}
  /\ UNCHANGED <<buf, lastEntryId, enabled, isBuffering, isResync, interrogated, trigger,
                 holder, sending>>

-----------------------------------------------------------------------------
Working == ReportEvent \/ ReportGI \/ ReportIntegrity \/ CheckEnabled \/ NothingToSend
             \/ SendNextReportEntry

Next ==
  \/ Working
  \/ ProcessReportEvents
  \/ BufferTimeElapses
  \/ IntegrityPeriodElapses
  \/ \E i \in Members : ValueUpdated(i)
  \/ \E c \in Clients :
       \/ Enable(c) \/ Disable(c) \/ Interrogate(c)
       \/ WritePurging(c) \/ WriteIntgPd(c) \/ WriteNoDatSet(c) \/ WriteDatSet(c)
       \/ \E id \in 0..MaxReports : WriteEntryID(c, id)
       \/ CloseDisables(c) \/ CloseReleases(c)

Spec == Init /\ [][Next]_vars

(* Whoever holds the mutex goes on until it is free again (the same as     *)
(* WF_vars(Working): a holder can always go on, and after five steps it is *)
(* done); the worker comes round again and again and is not kept from the  *)
(* mutex for ever; time passes.                                            *)
Fairness ==
  /\ []<>(holder = "free" \/ ~Running)
  /\ SF_vars(ProcessReportEvents)
  /\ SF_vars(BufferTimeElapses)

FairSpec == Spec /\ Fairness

-----------------------------------------------------------------------------
(* The links of the buffer lead from the oldest to the newest report, past *)
(* as many entries as are counted, and to the next one to transmit.        *)
BufferLinked == WellLinked(buf)

(* However entries wrap around, they lie inside the block and apart. *)
BufferApart == EntriesApart(buf)

(* The assertions of enqueueReport hold. *)
AssertionsHold == holder # "assertion"

(* A flagged change always has a report on its way (triggered). *)
FlagsTriggered == (Running /\ pend # {}) => triggered

(* A change that is flagged no more is in the newest report, unless a      *)
(* client has loaded the data set anew.                                    *)
ChangesKept ==
  [][\A i \in pend \ pend' :
       \/ lastEntryId' > lastEntryId /\ i \in buf'.mem[buf'.last].members
       \/ \E c \in Clients : Enable(c) \/ WriteDatSet(c)]_vars

(* Between the look at enabled and the transmission nobody else becomes    *)
(* the owner: no client receives the reports meant for another one.        *)
SentToEnabler == [][sending /\ sending' /\ owner' # owner => owner' = Nobody]_vars

(* The block does what the queue of reports promises. *)
Queue == INSTANCE ReportQueue WITH
           queue <- Ids(buf), unsent <- Unsent(buf),
           overflow <- buf.overflow, lastId <- lastEntryId
ImplementsQueue == Queue!Spec

IsUnsent(id) == buf.next # NULL /\ id \in buf.mem[buf.next].id .. lastEntryId

(* A stored report is transmitted to the client that has the block         *)
(* enabled, unless it is given up or the block is disabled.                *)
ReportsSent ==
  \A id \in 1..MaxReports : (enabled /\ IsUnsent(id)) ~> (~enabled \/ ~IsUnsent(id) \/ ~Running)

(* A change of a value is reported while the block buffers. *)
ChangesReported ==
  pend # {} ~> (pend = {} \/ ~isBuffering \/ ~Running)
=============================================================================
