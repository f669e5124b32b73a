------------------------- MODULE ReportControlProofs -------------------------
(***************************************************************************)
(* Theorems about ReportControl, for any number of clients and members and *)
(* any size of the buffer: the decision to transmit is protected, a change *)
(* that is flagged has a report on its way, and it gets into that report;  *)
(* the entries of the buffer lie apart and its count is never below what   *)
(* is linked; its links, pointers and count agree, the assertions hold and *)
(* the buffer implements the queue of reports, as long as no interrogation *)
(* replaces an earlier one.                                                *)
(***************************************************************************)
EXTENDS ReportControl, FiniteSetTheorems, WellFoundedInduction, TLAPS

(* Whoever is about to transmit holds the mutex. *)
Held == sending => holder # "free"

Flags ==
  /\ pend \subseteq Members
  /\ lastEntryId \in Nat
  /\ triggered \in BOOLEAN /\ sending \in BOOLEAN

Inv == Held /\ Flags

LEMMA HoldersApart ==
  ASSUME NEW h \in {"worker"} \cup Members
  PROVE  h \notin {"free", "assertion", "null connection"}
  BY ReportAssumption

(* The steps of whoever has the mutex, as far as flags and mutex go: a     *)
(* report is made, or is not for want of space or by an assertion.         *)
LEMMA Enqueued ==
  ASSUME NEW kind, NEW members, EnqueueReport(kind, members)
  PROVE  \/ /\ UNCHANGED <<buf, lastEntryId, pend, holder>>
            /\ EntrySize(members) > Block
         \/ UNCHANGED <<buf, lastEntryId, pend>> /\ holder' = "assertion"
         \/ /\ pend' = {} /\ holder' = holder /\ lastEntryId' = lastEntryId + 1
            /\ \E base : buf' = Store(base, Entry(lastEntryId + 1, EntrySize(members),
                                                  kind, members))
<1>1. CASE EntrySize(members) > Block
  BY <1>1 DEF EnqueueReport
<1>2. CASE ~(EntrySize(members) > Block)
  <2> DEFINE base == IF kind = "gi" THEN RemoveGI(buf) ELSE buf
  <2>1. CASE StoreAborts(base)
    BY <1>2, <2>1 DEF EnqueueReport
  <2>2. CASE ~StoreAborts(base)
    BY <1>2, <2>2 DEF EnqueueReport
  <2> QED  BY <2>1, <2>2
<1> QED  BY <1>1, <1>2

LEMMA InitInv ==
  ASSUME Init
  PROVE  Inv
<1>1. sending = FALSE /\ holder = "free" /\ triggered = FALSE /\ pend = {} /\ lastEntryId = 0
  BY DEF Init
<1>2. Held
  BY <1>1 DEF Held
<1>3. Flags
  BY <1>1 DEF Flags
<1> QED  BY <1>2, <1>3 DEF Inv

(* What the steps that make no report do to flags and mutex. *)
LEMMA Unlocked ==
  ASSUME Unlock, Flags
  PROVE  /\ holder' = "free" /\ sending' = FALSE
         /\ pend \subseteq pend' /\ pend' \subseteq Members
         /\ triggered' \in BOOLEAN
         /\ pend' # pend => triggered' = TRUE
         /\ triggered => triggered'
<1>1. CASE holder \in Members
  BY <1>1 DEF Unlock, SetFlag, Flags
<1>2. CASE holder \notin Members
  BY <1>2 DEF Unlock, Flags
<1> QED  BY <1>1, <1>2

(* The kinds of steps that the proofs tell apart. *)
MakesReport ==
  /\ Processing
  /\ triggered' = FALSE /\ sending' = sending /\ owner' = owner
  /\ \/ EnqueueReport("event", pend)
     \/ ReportGI /\ EnqueueReport("gi", Members)
     \/ EnqueueReport("integrity", Members)

LoadsDataSet ==
  /\ holder = "free"
  /\ \E c \in Clients : Enable(c) \/ WriteDatSet(c)
  /\ pend' = {} /\ triggered' = triggered
  /\ UNCHANGED <<lastEntryId, holder, sending>>

SetsFlag ==
  /\ holder = "free"
  /\ \E i \in Members : pend' = pend \cup {i}
  /\ triggered' = TRUE
  /\ UNCHANGED <<lastEntryId, holder, sending, owner>>

KeepsFlags ==
  /\ UNCHANGED <<lastEntryId, pend, triggered>>
  /\ owner' = owner \/ owner' = Nobody
  /\ \/ UNCHANGED <<holder, sending>>
     \/ holder = "free" /\ holder' \in {"worker"} \cup Members /\ sending' = sending
     \/ Processing /\ holder' = holder /\ sending' = TRUE
     \/ sending /\ holder' = "null connection" /\ sending' = sending

Unlocks == Unlock /\ lastEntryId' = lastEntryId /\ owner' = owner
             /\ holder \notin {"assertion", "null connection"}

LEMMA StepKinds ==
  ASSUME [Next]_vars
  PROVE  MakesReport \/ LoadsDataSet \/ SetsFlag \/ KeepsFlags \/ Unlocks
<1>1. CASE ReportEvent \/ ReportGI \/ ReportIntegrity
  BY <1>1 DEF ReportEvent, ReportGI, ReportIntegrity, MakesReport, client
<1>2. CASE CheckEnabled
  BY <1>2 DEF CheckEnabled, AllReported, KeepsFlags, client, trigger
<1>3. CASE NothingToSend
  <2>1. holder \in {"worker"} \cup Members
    BY <1>3 DEF NothingToSend, AllReported, Processing
  <2> QED  BY <1>3, <2>1, HoldersApart DEF NothingToSend, Unlocks, client
<1>4. CASE SendNextReportEntry
  BY <1>4 DEF SendNextReportEntry, KeepsFlags, Unlocks, Running, client
<1>5. CASE ProcessReportEvents \/ BufferTimeElapses \/ IntegrityPeriodElapses
  BY <1>5 DEF ProcessReportEvents, BufferTimeElapses, IntegrityPeriodElapses, KeepsFlags,
              client, trigger
<1>6. ASSUME NEW i \in Members, ValueUpdated(i)
      PROVE  KeepsFlags \/ SetsFlag
  BY <1>6 DEF ValueUpdated, SetFlag, KeepsFlags, SetsFlag, client
<1>7. ASSUME NEW c \in Clients, Enable(c) \/ WriteDatSet(c)
      PROVE  LoadsDataSet
  <2>1. \E d \in Clients : Enable(d) \/ WriteDatSet(d)
    BY <1>7
  <2> QED  BY <1>7, <2>1 DEF Enable, WriteDatSet, Writes, LoadsDataSet
<1>8. ASSUME NEW c \in Clients, Disable(c) \/ Interrogate(c) \/ WritePurging(c) \/ WriteIntgPd(c)
                                  \/ WriteNoDatSet(c) \/ CloseDisables(c) \/ CloseReleases(c)
      PROVE  KeepsFlags
  BY <1>8 DEF Disable, Interrogate, WritePurging, WriteIntgPd, WriteNoDatSet, CloseDisables,
              CloseReleases, KeepsFlags, client, trigger
<1>9. ASSUME NEW c \in Clients, NEW id \in 0..MaxReports, WriteEntryID(c, id)
      PROVE  KeepsFlags
  BY <1>9 DEF WriteEntryID, KeepsFlags, trigger
<1>10. CASE UNCHANGED vars
  BY <1>10 DEF vars, KeepsFlags
<1> QED  BY <1>1, <1>2, <1>3, <1>4, <1>5, <1>6, <1>7, <1>8, <1>9, <1>10 DEF Next, Working

LEMMA NextInv ==
  ASSUME Inv, [Next]_vars
  PROVE  Inv'
<1>1. CASE MakesReport
  <2>1. ASSUME NEW kind, NEW members, EnqueueReport(kind, members)
        PROVE  /\ holder' = holder \/ holder' = "assertion"
               /\ pend' \subseteq Members /\ lastEntryId' \in Nat
    BY <2>1, Enqueued DEF Inv, Flags
  <2>2. /\ holder' = holder \/ holder' = "assertion"
        /\ pend' \subseteq Members /\ lastEntryId' \in Nat
    BY <1>1, <2>1 DEF MakesReport
  <2> QED  BY <1>1, <2>2 DEF MakesReport, Inv, Held, Flags
<1>2. CASE LoadsDataSet
  BY <1>2 DEF LoadsDataSet, Inv, Held, Flags
<1>3. CASE SetsFlag
  BY <1>3 DEF SetsFlag, Inv, Held, Flags
<1>4. CASE KeepsFlags
  <2>1. CASE UNCHANGED <<holder, sending>>
    BY <1>4, <2>1 DEF KeepsFlags, Inv, Held, Flags
  <2>2. CASE holder = "free" /\ holder' \in {"worker"} \cup Members /\ sending' = sending
    BY <1>4, <2>2, HoldersApart DEF KeepsFlags, Inv, Held, Flags
  <2>3. CASE Processing /\ holder' = holder /\ sending' = TRUE
    BY <1>4, <2>3, HoldersApart DEF KeepsFlags, Processing, Inv, Held, Flags
  <2>4. CASE sending /\ holder' = "null connection" /\ sending' = sending
    BY <1>4, <2>4 DEF KeepsFlags, Inv, Held, Flags
  <2> QED  BY <1>4, <2>1, <2>2, <2>3, <2>4 DEF KeepsFlags
<1>5. CASE Unlocks
  BY <1>5, Unlocked DEF Unlocks, Inv, Held, Flags
<1> QED  BY <1>1, <1>2, <1>3, <1>4, <1>5, StepKinds

-----------------------------------------------------------------------------
(* Between the look at RptEna and the transmission the owner of the block  *)
(* is replaced by nobody: Reporting_RCBWriteAccessHandler waits for the    *)
(* mutex that sendNextReportEntry is called with.  (The clean-up after a   *)
(* closed connection does not wait, and leaves no owner at all.)           *)
THEOREM SentToWhoEnabled == Spec => SentToEnabler
<1>1. ASSUME Inv, [Next]_vars
      PROVE  [sending /\ sending' /\ owner' # owner => owner' = Nobody]_vars
  <2>1. CASE MakesReport
    BY <2>1 DEF MakesReport
  <2>2. CASE LoadsDataSet
    BY <1>1, <2>2 DEF LoadsDataSet, Inv, Held
  <2>3. CASE SetsFlag
    BY <2>3 DEF SetsFlag
  <2>4. CASE KeepsFlags
    BY <2>4 DEF KeepsFlags
  <2>5. CASE Unlocks
    BY <2>5 DEF Unlocks
  <2> QED  BY <1>1, <2>1, <2>2, <2>3, <2>4, <2>5, StepKinds
<1> QED  BY <1>1, InitInv, NextInv, PTL DEF Spec, SentToEnabler

-----------------------------------------------------------------------------
LEMMA NextTriggered ==
  ASSUME \A S \in SUBSET Members : EntrySize(S) \in 1..Block,
         Inv, FlagsTriggered, [Next]_vars
  PROVE  FlagsTriggered'
<1>1. CASE MakesReport
  <2>1. ASSUME NEW kind, NEW S \in SUBSET Members, EnqueueReport(kind, S)
        PROVE  pend' = {} \/ holder' = "assertion"
    <3>1. EntrySize(S) \in 1..Block
      BY <2>1
    <3>2. ~(EntrySize(S) > Block)
      BY <3>1, BlockAssumption
    <3> QED  BY <2>1, <3>2, Enqueued
  <2>2. pend \in SUBSET Members /\ Members \in SUBSET Members
    BY DEF Inv, Flags
  <2>3. pend' = {} \/ holder' = "assertion"
    BY <1>1, <2>1, <2>2 DEF MakesReport
  <2> QED  BY <2>3 DEF FlagsTriggered, Running
<1>2. CASE LoadsDataSet
  BY <1>2 DEF LoadsDataSet, FlagsTriggered
<1>3. CASE SetsFlag
  BY <1>3 DEF SetsFlag, FlagsTriggered
<1>4. CASE KeepsFlags
  BY <1>4, HoldersApart DEF KeepsFlags, FlagsTriggered, Running, Processing
<1>5. CASE Unlocks
  <2>1. /\ pend' # pend => triggered' = TRUE
        /\ triggered => triggered'
    BY <1>5, Unlocked DEF Unlocks, Inv
  <2> QED  BY <1>5, <2>1 DEF Unlocks, FlagsTriggered, Running
<1> QED  BY <1>1, <1>2, <1>3, <1>4, <1>5, StepKinds

(* If every report fits into the buffer, a change that is flagged always   *)
(* has a report on its way (triggered), whatever is reported, enabled or   *)
(* written in between.  A report that does not fit is not made, and        *)
(* nothing is triggered any more though the flags stay (enqueueReport).    *)
THEOREM FlaggedIsTriggered ==
  ASSUME \A S \in SUBSET Members : EntrySize(S) \in 1..Block
  PROVE  Spec => []FlagsTriggered
<1>1. Init => FlagsTriggered
  BY DEF Init, FlagsTriggered
<1>2. Inv /\ FlagsTriggered /\ [Next]_vars => FlagsTriggered'
  BY NextTriggered
<1> QED  BY <1>1, <1>2, InitInv, NextInv, PTL DEF Spec

-----------------------------------------------------------------------------
(* What is stored is the last entry, and intact. *)
LEMMA StoredLast ==
  ASSUME NEW b, NEW entry
  PROVE  Store(b, entry).mem[Store(b, entry).last] = entry
<1> DEFINE pos  == Position(b, entry.len)
           room == MakeRoom(b, entry.len)
           new  == [mem      |-> Written(Link(b.mem, b.last, pos), pos, entry),
                    oldest   |-> IF room.oldest = NULL THEN pos ELSE room.oldest,
                    last     |-> pos,
                    next     |-> IF b.last = NULL \/ room.next = NULL THEN pos ELSE room.next,
                    count    |-> room.count + 1,
                    overflow |-> room.overflow]
<1>1. Store(b, entry) = WithoutGarbage(new)
  BY DEF Store
<1>2. pos \in DOMAIN new.mem /\ new.mem[pos] = entry
  BY DEF Written
<1>3. new.last = pos
  OBVIOUS
<1>4. new = [mem |-> new.mem, oldest |-> new.oldest, last |-> new.last, next |-> new.next,
             count |-> new.count, overflow |-> new.overflow]
  OBVIOUS
<1> HIDE DEF new, pos
<1>5. WithoutGarbage(new).last = pos
  BY <1>3, <1>4 DEF WithoutGarbage
<1>6. WithoutGarbage(new).mem =
        [p \in Used(new) \cap DOMAIN new.mem |-> new.mem[p]]
  BY <1>4 DEF WithoutGarbage
<1>7. pos \in Used(new)
  BY <1>3 DEF Used
<1> QED  BY <1>1, <1>2, <1>3, <1>5, <1>6, <1>7

(* A change whose flag is cleared is in the newest report, unless a client *)
(* has loaded the data set anew (updateReportDataset makes new flags).     *)
THEOREM FlaggedIsReported == Spec => ChangesKept
<1>1. ASSUME Inv, [Next]_vars
      PROVE  [\A i \in pend \ pend' :
                \/ lastEntryId' > lastEntryId /\ i \in buf'.mem[buf'.last].members
                \/ \E c \in Clients : Enable(c) \/ WriteDatSet(c)]_vars
  <2> SUFFICES ASSUME NEW i \in pend, i \notin pend'
               PROVE  \/ lastEntryId' > lastEntryId /\ i \in buf'.mem[buf'.last].members
                      \/ \E c \in Clients : Enable(c) \/ WriteDatSet(c)
    OBVIOUS
  <2>1. CASE MakesReport
    <3>1. ASSUME NEW kind, NEW members, EnqueueReport(kind, members), i \in members
          PROVE  lastEntryId' > lastEntryId /\ i \in buf'.mem[buf'.last].members
      <4>1. /\ lastEntryId' = lastEntryId + 1
            /\ \E base : buf' = Store(base, Entry(lastEntryId + 1, EntrySize(members),
                                                  kind, members))
        BY <3>1, Enqueued
      <4>2. PICK base : buf' = Store(base, Entry(lastEntryId + 1, EntrySize(members),
                                                 kind, members))
        BY <4>1
      <4>3. buf'.mem[buf'.last] = Entry(lastEntryId + 1, EntrySize(members), kind, members)
        BY <4>2, StoredLast
      <4>4. i \in buf'.mem[buf'.last].members
        BY <3>1, <4>3 DEF Entry
      <4>5. lastEntryId' > lastEntryId
        BY <1>1, <4>1 DEF Inv, Flags
      <4> QED  BY <4>4, <4>5
    <3>2. i \in Members
      BY <1>1 DEF Inv, Flags
    <3> QED  BY <2>1, <3>1, <3>2 DEF MakesReport
  <2>2. CASE LoadsDataSet
    BY <2>2 DEF LoadsDataSet
  <2>3. CASE SetsFlag
    BY <2>3 DEF SetsFlag
  <2>4. CASE KeepsFlags
    BY <2>4 DEF KeepsFlags
  <2>5. CASE Unlocks
    BY <1>1, <2>5, Unlocked DEF Unlocks, Inv
  <2> QED  BY <1>1, <2>1, <2>2, <2>3, <2>4, <2>5, StepKinds
<1> QED  BY <1>1, InitInv, NextInv, PTL DEF Spec, ChangesKept

-----------------------------------------------------------------------------
(* The links of the buffer: the walk from the oldest entry on, by          *)
(* induction over the natural numbers, which the library's fact that < is  *)
(* well-founded gives.                                                     *)

\* A set of natural numbers that is not empty has a least element.
LEMMA LeastElement ==
  ASSUME NEW T, T \subseteq Nat, T # {}
  PROVE  Least(T) \in T /\ \A m \in T : Least(T) <= m
<1>1. PICK n \in T : \A m \in T : ~(<<m, n>> \in OpToRel(<, Nat))
  BY WFMin, NatLessThanWellFounded
<1>2. \A i, j \in Nat : <<i, j>> \in OpToRel(<, Nat) <=> i < j
  BY DEF OpToRel
<1>3. ASSUME NEW m \in T PROVE n <= m
  <2>1. m \in Nat /\ n \in Nat
    OBVIOUS
  <2>2. ~(m < n)
    BY <1>1, <1>2, <2>1
  <2> QED  BY <2>1, <2>2
<1> QED  BY <1>3 DEF Least

\* Induction over the natural numbers, for a set given by its elements.
LEMMA Induction ==
  ASSUME NEW S, 0 \in S, \A n \in Nat : n \in S => n + 1 \in S
  PROVE  Nat \subseteq S
<1> DEFINE T == Nat \ S
           n == Least(T)
<1> SUFFICES ASSUME T # {}
             PROVE  FALSE
  OBVIOUS
<1>1. n \in T /\ \A m \in T : n <= m
  BY LeastElement
<1> HIDE DEF n
<1>2. n # 0 /\ n \in Nat
  BY <1>1
<1>3. n - 1 \in Nat /\ n - 1 \notin T /\ (n - 1) + 1 = n
  BY <1>1, <1>2
<1> QED  BY <1>1, <1>2, <1>3

(* The entries c[0] .. c[n-1] are linked in this order. *)
Links(b, c, n) ==
  /\ NULL \notin DOMAIN b.mem
  /\ b.oldest = IF n = 0 THEN NULL ELSE c[0]
  /\ \A k \in 0..(n-1) : /\ c[k] \in DOMAIN b.mem
                         /\ b.mem[c[k]].next = IF k = n - 1 THEN NULL ELSE c[k+1]

(* The walk of ReportBuffer is that list, and then NULL.                   *)
LEMMA WalkIs ==
  ASSUME NEW b, NEW c, NEW n \in Nat, Links(b, c, n)
  PROVE  \A k \in 0..Block : Walk(b)[k] = IF k < n THEN c[k] ELSE NULL
<1> DEFINE Step(w) == [k \in 0..Block |-> IF k = 0 THEN b.oldest ELSE NextOf(b, w[k-1])]
           f == [k \in 0..Block |-> IF k < n THEN c[k] ELSE NULL]
           w == Walk(b)
<1>0. Block \in Nat
  BY BlockAssumption
<1>1. ASSUME NEW k \in 0..Block
      PROVE  f[k] = IF k = 0 THEN b.oldest ELSE NextOf(b, f[k-1])
  <2>1. CASE k = 0
    BY <1>0, <2>1 DEF Links
  <2>2. CASE k # 0 /\ k < n
    <3>1. k - 1 \in 0..(n-1) /\ k - 1 # n - 1 /\ (k - 1) + 1 = k
      BY <1>0, <2>2
    <3>2. c[k-1] \in DOMAIN b.mem /\ b.mem[c[k-1]].next = c[k]
      BY <3>1 DEF Links
    <3>3. f[k-1] = c[k-1] /\ f[k] = c[k]
      BY <1>0, <2>2
    <3> QED  BY <2>2, <3>2, <3>3 DEF NextOf
  <2>3. CASE k # 0 /\ k = n
    <3>1. n - 1 \in 0..(n-1)
      BY <2>3
    <3>2. c[n-1] \in DOMAIN b.mem /\ b.mem[c[n-1]].next = NULL
      BY <3>1 DEF Links
    <3>3. f[k-1] = c[n-1] /\ f[k] = NULL
      BY <1>0, <2>3
    <3> QED  BY <2>3, <3>2, <3>3 DEF NextOf
  <2>4. CASE k > n
    <3>1. f[k-1] = NULL /\ f[k] = NULL /\ k # 0
      BY <1>0, <2>4
    <3> QED  BY <3>1 DEF NextOf, Links
  <2> QED  BY <1>0, <2>1, <2>2, <2>3, <2>4
<1>2. f = Step(f)
  BY <1>1
<1>3. w = Step(w)
  <2> HIDE DEF f
  <2>1. \E v : v = Step(v)
    BY <1>2
  <2> QED  BY <2>1 DEF Walk
<1> HIDE DEF w, f
<1>4. \A k \in 0..Block : w[k] = IF k = 0 THEN b.oldest ELSE NextOf(b, w[k-1])
  BY <1>3
<1> DEFINE S == {k \in Nat : k <= Block => w[k] = f[k]}
<1>5. 0 \in S
  BY <1>0, <1>1, <1>4
<1>6. ASSUME NEW k \in Nat, k \in S
      PROVE  k + 1 \in S
  <2> SUFFICES ASSUME k + 1 <= Block
               PROVE  w[k+1] = f[k+1]
    OBVIOUS
  <2>1. k + 1 \in 0..Block /\ k + 1 # 0 /\ (k + 1) - 1 = k /\ w[k] = f[k]
    BY <1>0, <1>6
  <2> QED  BY <1>1, <1>4, <2>1
<1>7. Nat \subseteq S
  <2> HIDE DEF S
  <2> QED  BY <1>5, <1>6, Induction
<1>8. \A k \in 0..Block : w[k] = f[k]
  BY <1>0, <1>7
<1> QED  BY <1>8 DEF w, f

(* What the walk reaches, and how many there are.                          *)
LEMMA ChainIs ==
  ASSUME NEW b, NEW c, NEW n \in 0..(Block + 1), Links(b, c, n)
  PROVE  /\ Chain(b) = {c[k] : k \in 0..(n-1)}
         /\ Length(b) = n
<1> DEFINE w == Walk(b)
<1>0. Block \in Nat /\ n \in Nat
  BY BlockAssumption
<1>1. \A k \in 0..Block : w[k] = IF k < n THEN c[k] ELSE NULL
  BY <1>0, WalkIs
<1>2. \A k \in 0..(n-1) : c[k] # NULL
  BY DEF Links
<1> HIDE DEF w
<1>3. {k \in 0..Block : w[k] # NULL} = 0..(n-1)
  BY <1>0, <1>1, <1>2
<1>4. Cardinality(0..(n-1)) = n
  <2>1. 0 \in Int /\ n - 1 \in Int
    BY <1>0
  <2>2. Cardinality(0..(n-1)) = IF 0 > n - 1 THEN 0 ELSE (n - 1) - 0 + 1
    BY <2>1, FS_Interval
  <2> QED  BY <1>0, <2>2
<1>5. {w[k] : k \in 0..Block} \ {NULL} = {c[k] : k \in 0..(n-1)}
  <2>1. ASSUME NEW p \in {c[k] : k \in 0..(n-1)}
        PROVE  p \in {w[k] : k \in 0..Block} \ {NULL}
    <3>1. PICK k \in 0..(n-1) : p = c[k]
      OBVIOUS
    <3>2. k \in 0..Block /\ w[k] = c[k]
      BY <1>0, <1>1
    <3> QED  BY <1>2, <3>1, <3>2
  <2>2. ASSUME NEW p \in {w[k] : k \in 0..Block}, p # NULL
        PROVE  p \in {c[k] : k \in 0..(n-1)}
    <3>1. PICK k \in 0..Block : p = w[k]
      OBVIOUS
    <3>2. k < n /\ p = c[k]
      BY <1>1, <2>2, <3>1
    <3>3. k \in 0..(n-1)
      BY <1>0, <3>2
    <3> QED  BY <3>2, <3>3
  <2> QED  BY <2>1, <2>2
<1> QED  BY <1>3, <1>4, <1>5 DEF Chain, Length, w

-----------------------------------------------------------------------------
(* Where entries lie in the block. They wrap around: those from place m on *)
(* are below the oldest one.                                               *)

(* Where the entries 0..L lie in the block: each behind the one before it, *)
(* except that entry m (if there is one) starts again below entry 0.       *)
Placed(c, len, L, m) ==
  /\ L \in Nat /\ m \in 1..(L + 1)
  /\ c \in [0..L -> Nat] /\ len \in [0..L -> Nat \ {0}]
  /\ \A k \in 0..L : c[k] + len[k] <= Block
  /\ \A i, j \in 0..L : i < j /\ (j < m \/ m <= i) => c[i] + len[i] <= c[j]
  /\ \A j \in m..L : c[j] + len[j] <= c[0]

(* Entries placed like that do not overlap.                                *)
LEMMA PlacedApart ==
  ASSUME NEW c, NEW len, NEW L, NEW m, Placed(c, len, L, m),
         NEW i \in 0..L, NEW j \in 0..L, i < j
  PROVE  c[i] + len[i] <= c[j] \/ c[j] + len[j] <= c[i]
<1>1. /\ L \in Nat /\ m \in Nat /\ 0 \in 0..L
      /\ c[0] \in Nat /\ c[i] \in Nat /\ c[j] \in Nat
      /\ len[0] \in Nat /\ len[i] \in Nat /\ len[j] \in Nat
  BY DEF Placed
<1>2. CASE j < m \/ m <= i
  BY <1>2 DEF Placed
<1>3. CASE i < m /\ m <= j
  <2>1. c[j] + len[j] <= c[0]
    <3>1. j \in m..L
      BY <1>1, <1>3
    <3> QED  BY <3>1 DEF Placed
  <2>2. c[0] <= c[i]
    <3>1. CASE i = 0
      BY <1>1, <3>1
    <3>2. CASE i # 0
      <4>1. 0 < i
        BY <1>1, <3>2
      <4>2. c[0] + len[0] <= c[i]
        BY <1>1, <1>3, <4>1 DEF Placed
      <4> QED  BY <1>1, <4>2
    <3> QED  BY <3>1, <3>2
  <2> QED  BY <1>1, <2>1, <2>2
<1> QED  BY <1>1, <1>2, <1>3

(* There are no more entries than units. *)
LEMMA PlacedCount ==
  ASSUME NEW c, NEW len, NEW L, NEW m, Placed(c, len, L, m)
  PROVE  L + 1 <= Block
<1>1. L \in Nat /\ Block \in Nat /\ Block > 0
  BY BlockAssumption DEF Placed
<1>2. ASSUME NEW k \in 0..L
      PROVE  c[k] \in Nat /\ len[k] \in Nat /\ len[k] > 0 /\ c[k] + len[k] <= Block
  BY DEF Placed
<1>3. c \in [0..L -> Positions]
  <2>1. \A k \in 0..L : c[k] \in 0..(Block - 1)
    BY <1>1, <1>2
  <2>2. c \in [0..L -> Nat]
    BY DEF Placed
  <2> QED  BY <2>1, <2>2 DEF Positions
<1>4. ASSUME NEW i \in 0..L, NEW j \in 0..L, i < j
      PROVE  c[i] # c[j]
  <2>1. c[i] + len[i] <= c[j] \/ c[j] + len[j] <= c[i]
    BY <1>4, PlacedApart
  <2> QED  BY <1>2, <2>1
<1>5. c \in Injection(0..L, Positions)
  <2>1. ASSUME NEW i \in 0..L, NEW j \in 0..L, c[i] = c[j]
        PROVE  i = j
    BY <1>1, <1>4, <2>1
  <2> QED  BY <1>3, <2>1 DEF Injection, IsInjective
<1>6. /\ IsFiniteSet(0..(Block - 1)) /\ Cardinality(0..(Block - 1)) = Block
      /\ Cardinality(0..L) = L + 1
  <2>1. 0 \in Int /\ L \in Int /\ Block - 1 \in Int
    BY <1>1
  <2>2. /\ IsFiniteSet(0..(Block - 1))
        /\ Cardinality(0..(Block - 1)) = IF 0 > Block - 1 THEN 0 ELSE (Block - 1) - 0 + 1
        /\ Cardinality(0..L) = IF 0 > L THEN 0 ELSE L - 0 + 1
    BY <2>1, FS_Interval
  <2> QED  BY <1>1, <2>2
<1>7. Cardinality(0..L) <= Cardinality(Positions)
  BY <1>5, <1>6, FS_Injection DEF Positions
<1> QED  BY <1>6, <1>7 DEF Positions

(* Some elements of a list.                                                *)
Picked(f, g, l) == [k \in 0..l |-> f[g[k]]]

(* They are taken in order, from 0 to L.                                   *)
Selects(g, l, L) ==
  /\ l \in Nat
  /\ g \in [0..l -> 0..L]
  /\ \A i, j \in 0..l : i < j => g[i] < g[j]

(* Some of the entries in the same order: they are placed, too.            *)
LEMMA PlacedPart ==
  ASSUME NEW c, NEW len, NEW L, NEW m, Placed(c, len, L, m), NEW l, NEW g, Selects(g, l, L)
  PROVE  \E w : /\ Placed(Picked(c, g, l), Picked(len, g, l), l, w)
                /\ g[0] >= m \/ g[l] < m => w = l + 1
<1> USE DEF Selects
<1> DEFINE S == {i \in 1..(l + 1) : i = l + 1 \/ g[i] >= m}
           w == IF g[0] >= m THEN l + 1 ELSE Least(S)
<1>0. PICK d, e : d = Picked(c, g, l) /\ e = Picked(len, g, l)
  OBVIOUS
<1>0a. /\ d = [k \in 0..l |-> c[g[k]]] /\ e = [k \in 0..l |-> len[g[k]]]
      /\ \A k \in 0..l : d[k] = c[g[k]] /\ e[k] = len[g[k]]
  BY <1>0 DEF Picked
<1>1. L \in Nat /\ m \in Nat /\ \A k \in 0..l : g[k] \in 0..L /\ g[k] \in Nat
  BY DEF Placed
<1>2. S \subseteq Nat /\ l + 1 \in S
  OBVIOUS
<1>3. Least(S) \in S /\ \A i \in S : Least(S) <= i
  BY <1>2, LeastElement
<1>4. w \in 1..(l + 1)
  BY <1>3
<1>5. g[0] >= m \/ g[l] < m => w = l + 1
  <2>1. CASE g[0] >= m
    BY <2>1
  <2>2. CASE g[l] < m /\ ~(g[0] >= m)
    <3>1. ASSUME NEW i \in 1..l
          PROVE  g[i] < m
      <4>1. CASE i = l
        BY <2>2, <4>1
      <4>2. CASE i # l
        <5>1. g[i] < g[l] /\ g[i] \in Nat /\ g[l] \in Nat
          BY <1>1, <4>2
        <5> QED  BY <1>1, <2>2, <5>1
      <4> QED  BY <4>1, <4>2
    <3>2. \A i \in 1..l : ~(g[i] >= m)
      BY <1>1, <3>1
    <3>3. S = {l + 1}
      BY <3>2
    <3> QED  BY <1>3, <2>2, <3>3
  <2> QED  BY <2>1, <2>2
<1> HIDE DEF w
<1>6. ASSUME NEW i \in 0..l, NEW j \in 0..l, i < j, j < w \/ w <= i
      PROVE  d[i] + e[i] <= d[j]
  <2>1. g[i] < g[j] /\ g[i] \in 0..L /\ g[j] \in 0..L
    BY <1>1, <1>6
  <2>2. g[j] < m \/ m <= g[i]
    <3>1. CASE g[0] >= m
      <4>1. CASE i = 0
        BY <3>1, <4>1
      <4>2. CASE i # 0
        <5>1. g[0] < g[i]
          BY <4>2
        <5> QED  BY <1>1, <3>1, <5>1
      <4> QED  BY <4>1, <4>2
    <3>2. CASE ~(g[0] >= m) /\ j < w
      <4>1. w = Least(S) /\ j \in 1..(l + 1) /\ j # l + 1
        BY <1>4, <1>6, <3>2 DEF w
      <4>2. j \notin S
        <5> HIDE DEF S
        <5>1. w \in Nat /\ j \in Nat
          BY <1>4
        <5> QED  BY <1>3, <3>2, <4>1, <5>1
      <4> QED  BY <1>1, <4>1, <4>2
    <3>3. CASE ~(g[0] >= m) /\ w <= i
      <4>1. w = Least(S) /\ w \in S /\ w \in 1..l
        BY <1>3, <1>4, <3>3 DEF w
      <4>2. g[w] >= m
        BY <4>1
      <4>3. CASE i = w
        BY <4>2, <4>3
      <4>4. CASE i # w
        <5>1. g[w] < g[i] /\ g[w] \in Nat /\ g[i] \in Nat
          BY <1>1, <3>3, <4>1, <4>4
        <5> QED  BY <1>1, <4>2, <5>1
      <4> QED  BY <4>3, <4>4
    <3> QED  BY <1>6, <3>1, <3>2, <3>3
  <2>3. c[g[i]] + len[g[i]] <= c[g[j]]
    BY <2>1, <2>2 DEF Placed
  <2> QED  BY <1>0a, <2>3
<1>7. ASSUME NEW j \in w..l
      PROVE  d[j] + e[j] <= d[0]
  <2>1. j \in 0..l /\ j \in 1..l /\ w <= j /\ 0 \in 0..l
    BY <1>4
  <2>2. ~(g[0] >= m) /\ w = Least(S)
    BY <1>4, <2>1 DEF w
  <2>3. w \in S /\ w \in 1..l
    BY <1>3, <1>4, <2>1, <2>2
  <2>4. g[j] >= m
    <3>1. g[w] >= m
      BY <2>3
    <3>2. CASE j = w
      BY <3>1, <3>2
    <3>3. CASE j # w
      <4>1. g[w] < g[j] /\ g[w] \in Nat /\ g[j] \in Nat
        BY <1>1, <2>1, <2>3, <3>3
      <4> QED  BY <1>1, <3>1, <4>1
    <3> QED  BY <3>2, <3>3
  <2>5. c[g[j]] + len[g[j]] <= c[0]
    <3>1. g[j] \in m..L
      BY <1>1, <2>1, <2>4
    <3> QED  BY <3>1 DEF Placed
  <2>6. c[0] <= c[g[0]]
    <3>1. g[0] \in 0..L /\ 0 \in 0..L /\ g[0] < m
      BY <1>1, <2>1, <2>2
    <3>2. CASE g[0] = 0
      BY <3>1, <3>2 DEF Placed
    <3>3. CASE g[0] # 0
      <4>1. c[0] + len[0] <= c[g[0]]
        BY <3>1, <3>3 DEF Placed
      <4> QED  BY <3>1, <4>1 DEF Placed
    <3> QED  BY <3>2, <3>3
  <2>7. c[g[j]] \in Nat /\ len[g[j]] \in Nat /\ c[0] \in Nat /\ c[g[0]] \in Nat
    BY <1>1, <2>1 DEF Placed
  <2>8. c[g[j]] + len[g[j]] <= c[g[0]]
    BY <2>5, <2>6, <2>7
  <2> QED  BY <1>0a, <2>1, <2>8
<1>8. Placed(d, e, l, w)
  <2>1. d \in [0..l -> Nat] /\ e \in [0..l -> Nat \ {0}]
    BY <1>0a, <1>1 DEF Placed
  <2>2. \A k \in 0..l : d[k] + e[k] <= Block
    BY <1>0a, <1>1 DEF Placed
  <2> QED  BY <1>4, <1>6, <1>7, <2>1, <2>2 DEF Placed
<1> QED  BY <1>0, <1>5, <1>8

(* A list with one more element.                                           *)
Appended(f, l, x) == [k \in 0..(l + 1) |-> IF k <= l THEN f[k] ELSE x]

(* One more entry, behind the last one or below the first one.             *)
LEMMA PlacedMore ==
  ASSUME NEW c, NEW len, NEW L, NEW m, Placed(c, len, L, m),
         NEW pos \in Nat, NEW size \in Nat \ {0}, pos + size <= Block,
         \/ m = L + 1 /\ (c[L] + len[L] <= pos \/ pos + size <= c[0])
         \/ c[L] + len[L] <= pos /\ pos + size <= c[0]
  PROVE  \E w : Placed(Appended(c, L, pos), Appended(len, L, size), L + 1, w)
<1> DEFINE d == Appended(c, L, pos)
           e == Appended(len, L, size)
           w == IF m = L + 1 /\ c[L] + len[L] <= pos THEN L + 2 ELSE m
<1>1. /\ L \in Nat /\ m \in 1..(L + 1)
      /\ \A k \in 0..L : c[k] \in Nat /\ len[k] \in Nat /\ len[k] > 0 /\ c[k] + len[k] <= Block
      /\ \A i, j \in 0..L : i < j /\ (j < m \/ m <= i) => c[i] + len[i] <= c[j]
      /\ \A j \in m..L : c[j] + len[j] <= c[0]
  BY DEF Placed
<1>2. /\ \A k \in 0..L : d[k] = c[k] /\ e[k] = len[k]
      /\ d[L+1] = pos /\ e[L+1] = size
      /\ d \in [0..(L + 1) -> Nat] /\ e \in [0..(L + 1) -> Nat \ {0}]
  BY <1>1 DEF Appended
<1>3. w \in 1..(L + 2)
  BY <1>1
<1>4. \A k \in 0..(L + 1) : d[k] + e[k] <= Block
  <2> HIDE DEF d, e
  <2> SUFFICES ASSUME NEW k \in 0..(L + 1)
               PROVE  d[k] + e[k] <= Block
    OBVIOUS
  <2>1. k \in 0..L \/ k = L + 1
    BY <1>1
  <2> QED  BY <1>1, <1>2, <2>1
<1> HIDE DEF d, e
<1>5. c[L] + len[L] <= pos => \A i \in 0..L : m <= i \/ m = L + 1 => c[i] + len[i] <= pos
  <2> SUFFICES ASSUME c[L] + len[L] <= pos, NEW i \in 0..L, m <= i \/ m = L + 1
               PROVE  c[i] + len[i] <= pos
    OBVIOUS
  <2>1. L \in 0..L
    BY <1>1
  <2>2. CASE i = L
    BY <2>2
  <2>3. CASE i # L
    <3>1. i < L /\ (m <= i \/ L < m)
      BY <1>1, <2>3
    <3>2. c[i] + len[i] <= c[L]
      BY <1>1, <2>1, <3>1
    <3> QED  BY <1>1, <2>1, <3>2
  <2> QED  BY <2>2, <2>3
<1>6. ASSUME NEW i \in 0..(L + 1), NEW j \in 0..(L + 1), i < j, j < w \/ w <= i
      PROVE  d[i] + e[i] <= d[j]
  <2>1. i \in 0..L /\ (j \in 0..L \/ j = L + 1)
    BY <1>1, <1>6
  <2>2. CASE j \in 0..L
    <3>1. j < m \/ m <= i
      BY <1>1, <1>6, <2>1, <2>2
    <3>2. c[i] + len[i] <= c[j]
      BY <1>1, <1>6, <2>1, <2>2, <3>1
    <3> QED  BY <1>2, <2>1, <2>2, <3>2
  <2>3. CASE j = L + 1
    <3>1. c[L] + len[L] <= pos /\ (m <= i \/ m = L + 1)
      BY <1>1, <1>6, <2>1, <2>3
    <3>2. c[i] + len[i] <= pos
      BY <1>5, <2>1, <3>1
    <3> QED  BY <1>2, <2>1, <2>3, <3>2
  <2> QED  BY <2>1, <2>2, <2>3
<1>7. ASSUME NEW j \in w..(L + 1)
      PROVE  d[j] + e[j] <= d[0]
  <2>1. j \in m..L \/ j = L + 1
    BY <1>1, <1>3
  <2>2. 0 \in 0..L /\ d[0] = c[0]
    BY <1>1, <1>2
  <2>3. CASE j \in m..L
    <3>1. j \in 0..L
      BY <1>1, <2>3
    <3> QED  BY <1>1, <1>2, <2>2, <2>3, <3>1
  <2>4. CASE j = L + 1
    <3>1. ~(m = L + 1 /\ c[L] + len[L] <= pos)
      BY <1>1, <2>4
    <3>2. pos + size <= c[0]
      BY <3>1
    <3> QED  BY <1>2, <2>2, <2>4, <3>2
  <2> QED  BY <2>1, <2>3, <2>4
<1>8. Placed(d, e, L + 1, w)
  <2> HIDE DEF w
  <2>1. L + 1 \in Nat /\ w \in 1..((L + 1) + 1)
    BY <1>1, <1>3
  <2> QED  BY <1>2, <1>4, <1>6, <1>7, <2>1 DEF Placed
<1> QED  BY <1>8 DEF d, e

-----------------------------------------------------------------------------
(* storeReport: which entries are given up, and that the new one           *)
(* overwrites none of the others (ClearedFromStart, ClearedUpper,          *)
(* ClearedAhead).                                                          *)

(* Records with the fields of an entry and of a buffer.                    *)
IsEntry(e) ==
  e = [id |-> e.id, len |-> e.len, kind |-> e.kind, members |-> e.members, next |-> e.next]

IsBuffer(b) ==
  /\ b = [mem |-> b.mem, oldest |-> b.oldest, last |-> b.last, next |-> b.next,
          count |-> b.count, overflow |-> b.overflow]
  /\ DOMAIN b.mem \subseteq Nat
  /\ \A p \in DOMAIN b.mem : IsEntry(b.mem[p])

(* A buffer with entries: c[0] .. c[n-1] are linked, the last pointer is   *)
(* at c[L], the end of the chain or an entry behind it that was unlinked.  *)
Holds(b, c, len, n, L, m) ==
  /\ n \in Nat \ {0} /\ L \in {n - 1, n}
  /\ Placed(c, len, L, m)
  /\ Links(b, c, n)
  /\ b.last = c[L]
  /\ \A k \in 0..L : c[k] \in DOMAIN b.mem /\ b.mem[c[k]].len = len[k]

(* How many of the oldest entries storeReport gives up for a new one. *)
Dropped(b, size) ==
  IF b.last # b.oldest THEN Cleared(b, size)
  ELSE IF b.last = NULL \/ Fits(b, size) THEN 0 ELSE 1

(* What is left when the k oldest are given up is above or below the new   *)
(* entry, and the new entry is behind the last or below the first of it.   *)
LEMMA Surviving ==
  ASSUME NEW b, NEW c, NEW len, NEW n, NEW L, NEW m, Holds(b, c, len, n, L, m),
         NEW size \in 1..Block
  PROVE  LET k   == Dropped(b, size)
             pos == Position(b, size)
             Behind == c[n-1] + len[n-1] <= pos
             Below  == pos + size <= c[k]
         IN  /\ k \in 0..n
             /\ pos \in Nat /\ pos + size <= Block
             /\ k < n => \/ (k >= m \/ n - 1 < m) /\ (Behind \/ Below)
                         \/ Behind /\ Below
<1> DEFINE k == Dropped(b, size)
           pos == Position(b, size)
           E == c[L] + len[L]
           w == Walk(b)
           Behind == c[n-1] + len[n-1] <= pos
           Below  == pos + size <= c[k]
<1>1. /\ n \in Nat /\ n > 0 /\ L \in Nat /\ (L = n - 1 \/ L = n)
      /\ m \in 1..(L + 1) /\ 0 \in 0..L /\ L \in 0..L /\ n - 1 \in 0..L
      /\ Block \in Nat /\ Block > 0
      /\ size \in Nat /\ size > 0 /\ size <= Block
  BY BlockAssumption DEF Holds, Placed
<1>2. /\ \A i \in 0..L : c[i] \in Nat /\ len[i] \in Nat /\ len[i] > 0 /\ c[i] + len[i] <= Block
      /\ \A i, j \in 0..L : i < j /\ (j < m \/ m <= i) => c[i] + len[i] <= c[j]
      /\ \A j \in m..L : c[j] + len[j] <= c[0]
  BY DEF Holds, Placed
<1>3. b.last = c[L] /\ b.oldest = c[0] /\ End(b) = E /\ b.last # NULL
  BY <1>1, <1>2 DEF Holds, Links, End, NULL
<1>4. E \in Nat /\ E <= Block
  BY <1>1, <1>2
<1>5. n <= Block
  <2>1. L + 1 <= Block
    BY PlacedCount DEF Holds
  <2> QED  BY <1>1, <2>1
<1>6. \A i \in 0..Block : w[i] = IF i < n THEN c[i] ELSE NULL
  BY <1>1, WalkIs DEF Holds
<1>7. \A i \in 0..(n-1) : i \in 0..L /\ i \in 0..Block
  BY <1>1, <1>5
<1>8. n \in 0..Block /\ w[n] = NULL
  BY <1>1, <1>5, <1>6
<1>9. pos = IF Fits(b, size) THEN E ELSE 0
  BY <1>3 DEF Position
<1>10. Fits(b, size) <=> E + size <= Block
  BY <1>3 DEF Fits
<1>11. pos \in Nat /\ pos + size <= Block
  BY <1>1, <1>4, <1>9, <1>10
<1> HIDE DEF pos, w
<1>12. n - 1 = L \/ L < m \/ m <= n - 1 => c[n-1] + len[n-1] <= E
  <2>1. CASE n - 1 = L
    <3>1. c[n-1] = c[L] /\ len[n-1] = len[L]
      BY <2>1
    <3>2. c[n-1] + len[n-1] = E /\ E <= E
      BY <1>4, <3>1
    <3> QED  BY <3>2
  <2>2. CASE n - 1 # L /\ (L < m \/ m <= n - 1)
    <3>1. c[n-1] + len[n-1] <= c[L]
      BY <1>1, <1>2, <2>2
    <3> QED  BY <1>1, <1>2, <3>1
  <2> QED  BY <2>1, <2>2
<1> DEFINE Goal == /\ k \in 0..n
                   /\ k < n => \/ (k >= m \/ n - 1 < m) /\ (Behind \/ Below)
                               \/ Behind /\ Below
<1>13. CASE c[L] = c[0]
  <2>1. L = 0
    <3> SUFFICES ASSUME 0 < L
                 PROVE  FALSE
      BY <1>1
    <3>1. c[0] + len[0] <= c[L] \/ c[L] + len[L] <= c[0]
      BY <1>1, PlacedApart DEF Holds
    <3> QED  BY <1>1, <1>2, <1>13, <3>1
  <2>2. k = IF Fits(b, size) THEN 0 ELSE 1
    BY <1>3, <1>13 DEF Dropped
  <2>3. n = 1 /\ m = 1
    <3>1. m \in 1..1
      BY <1>1, <2>1
    <3> QED  BY <1>1, <2>1, <3>1
  <2>4. k < n => Behind
    <3>1. n - 1 = 0 /\ L = 0
      BY <2>1, <2>3
    <3> QED  BY <1>9, <1>12, <2>2, <2>3, <3>1, <1>4
  <2>5. k \in 0..n
    BY <2>2, <2>3
  <2> HIDE DEF k, Behind, Below
  <2>6. Goal
    BY <2>3, <2>4, <2>5
  <2> QED  BY <1>11, <2>6 DEF k, pos, Behind, Below
<1>14. CASE c[L] > c[0]
  <2>1. m = L + 1
    <3>1. ~(m <= L)
      <4> SUFFICES ASSUME m <= L
                   PROVE  FALSE
        OBVIOUS
      <4>1. c[L] + len[L] <= c[0]
        BY <1>1, <1>2
      <4> QED  BY <1>1, <1>2, <1>14, <4>1
    <3> QED  BY <1>1, <3>1
  <2>2. n - 1 < m
    BY <1>1, <2>1
  <2>3. k = IF Fits(b, size) THEN 0 ELSE ClearedFromStart(b, size)
    BY <1>1, <1>2, <1>3, <1>14 DEF Dropped, Cleared
  <2>4. CASE Fits(b, size)
    <3>1. k = 0 /\ Behind
      BY <1>1, <1>9, <1>12, <2>1, <2>3, <2>4
    <3>2. Goal
      BY <1>1, <2>2, <3>1
    <3> QED  BY <1>11, <3>2 DEF pos
  <2>5. CASE ~Fits(b, size)
    <3> DEFINE T == {i \in 0..Block : w[i] = NULL \/ w[i] >= size}
    <3>1. k = Least(T)
      BY <2>3, <2>5 DEF ClearedFromStart, w
    <3>2. n \in T /\ T \subseteq Nat
      BY <1>8
    <3>3. k \in T /\ k <= n
      BY <3>1, <3>2, LeastElement
    <3>4. k \in 0..Block /\ (w[k] = NULL \/ w[k] >= size)
      BY <3>3
    <3> HIDE DEF k, T
    <3>5. k \in 0..n
      BY <1>1, <3>3, <3>4
    <3>6. k < n => c[k] >= size
      <4> SUFFICES ASSUME k < n
                   PROVE  c[k] >= size
        OBVIOUS
      <4>1. w[k] = c[k] /\ c[k] \in Nat
        BY <1>1, <1>2, <1>6, <1>7, <3>4
      <4> QED  BY <3>4, <4>1 DEF NULL
    <3>7. k < n => Below
      BY <1>1, <1>9, <2>5, <3>6
    <3> HIDE DEF Behind, Below
    <3>8. Goal
      BY <2>2, <3>5, <3>7
    <3> QED  BY <1>11, <3>8 DEF k, pos, Behind, Below
  <2> QED  BY <2>4, <2>5
<1>15. CASE c[L] < c[0]
  <2>1. m <= L
    <3> SUFFICES ASSUME ~(m <= L)
                 PROVE  FALSE
      OBVIOUS
    <3>1. m = L + 1 /\ L # 0 /\ 0 < L
      BY <1>1, <1>2, <1>15
    <3>2. c[0] + len[0] <= c[L]
      BY <1>1, <1>2, <3>1
    <3> QED  BY <1>1, <1>2, <1>15, <3>2
  <2>2. k = IF Fits(b, size) THEN ClearedAhead(b, size) ELSE ClearedUpper(b, size)
    BY <1>1, <1>2, <1>3, <1>15 DEF Dropped, Cleared
  <2>3. \A i \in 0..(m-1) : c[i] >= c[0]
    <3> SUFFICES ASSUME NEW i \in 0..(m-1)
                 PROVE  c[i] >= c[0]
      OBVIOUS
    <3>1. i \in 0..L /\ i < m
      BY <1>1
    <3>2. CASE i = 0
      BY <1>1, <1>2, <3>2
    <3>3. CASE i # 0
      <4>1. c[0] + len[0] <= c[i]
        BY <1>1, <1>2, <3>1, <3>3
      <4> QED  BY <1>1, <1>2, <3>1, <4>1
    <3> QED  BY <3>2, <3>3
  <2>4. c[0] > 0
    BY <1>1, <1>2, <1>15
  <2>5. CASE Fits(b, size)
    <3> DEFINE T == {i \in 0..Block : w[i] = NULL \/ w[i] = 0 \/ w[i] >= E + size}
    <3>1. k = Least(T)
      BY <1>3, <2>2, <2>5 DEF ClearedAhead, w
    <3>2. n \in T /\ T \subseteq Nat
      BY <1>8
    <3>3. k \in T /\ k <= n
      BY <3>1, <3>2, LeastElement
    <3>4. k \in 0..Block /\ (w[k] = NULL \/ w[k] = 0 \/ w[k] >= E + size)
      BY <3>3
    <3> HIDE DEF k, T
    <3>5. k \in 0..n
      BY <1>1, <3>3, <3>4
    <3>6. ASSUME k < n
          PROVE  \/ (k >= m \/ n - 1 < m) /\ (Behind \/ Below)
                 \/ Behind /\ Below
      <4>1. w[k] = c[k] /\ c[k] \in Nat /\ k \in 0..L /\ k \in Nat
        BY <1>1, <1>2, <1>6, <1>7, <3>4, <3>6
      <4>2. CASE c[k] = 0
        <5>1. k >= m
          <6> SUFFICES ASSUME k < m
                       PROVE  FALSE
            BY <1>1, <4>1
          <6>1. k \in 0..(m-1)
            BY <1>1, <4>1
          <6> QED  BY <1>1, <1>2, <2>3, <2>4, <4>1, <4>2, <6>1
        <5>2. m <= n - 1
          BY <1>1, <3>6, <4>1, <5>1
        <5>3. Behind
          BY <1>9, <1>12, <2>5, <5>2
        <5> QED  BY <5>1, <5>3
      <4>3. CASE c[k] # 0
        <5>1. c[k] >= E + size
          BY <3>4, <4>1, <4>3 DEF NULL
        <5>2. Below
          BY <1>9, <2>5, <5>1
        <5>3. CASE m <= n - 1
          <6>1. Behind
            BY <1>9, <1>12, <2>5, <5>3
          <6> QED  BY <5>2, <6>1
        <5>4. CASE n - 1 < m
          BY <5>2, <5>4
        <5> QED  BY <1>1, <5>3, <5>4
      <4> QED  BY <4>2, <4>3
    <3> HIDE DEF Behind, Below
    <3>7. Goal
      BY <3>5, <3>6
    <3> QED  BY <1>11, <3>7 DEF k, pos, Behind, Below
  <2>6. CASE ~Fits(b, size)
    <3> DEFINE U == {i \in 0..Block : w[i] <= 0}
               upper == Least(U)
               T == {i \in upper..Block : w[i] = NULL \/ w[i] >= size}
    <3>1. k = Least(T)
      BY <2>2, <2>6 DEF ClearedUpper, w
    <3>2. n \in U /\ U \subseteq Nat
      BY <1>8 DEF NULL
    <3>3. upper \in U /\ upper <= n
      BY <3>2, LeastElement
    <3>4. upper \in 0..Block /\ w[upper] <= 0 /\ upper <= n
      BY <3>3
    <3> HIDE DEF upper, U
    <3>5. n \in T /\ T \subseteq Nat
      BY <1>8, <3>4
    <3>6. k \in T /\ k <= n
      BY <3>1, <3>5, LeastElement
    <3>7. k \in upper..Block /\ (w[k] = NULL \/ w[k] >= size)
      BY <3>6
    <3> HIDE DEF k, T
    <3>8. k \in 0..n /\ k \in 0..Block
      BY <1>1, <3>4, <3>6, <3>7
    <3>9. ASSUME k < n
          PROVE  k >= m /\ Below
      <4>1. w[k] = c[k] /\ c[k] \in Nat /\ k \in 0..L /\ upper < n
        BY <1>1, <1>2, <1>6, <1>7, <3>4, <3>7, <3>8, <3>9
      <4>2. w[upper] = c[upper] /\ upper \in 0..L /\ c[upper] \in Nat /\ upper \in Nat
        BY <1>1, <1>2, <1>6, <1>7, <3>4, <4>1
      <4>3. upper >= m
        <5> SUFFICES ASSUME upper < m
                     PROVE  FALSE
          BY <1>1, <4>2
        <5>1. upper \in 0..(m-1)
          BY <1>1, <4>2
        <5> QED  BY <1>1, <1>2, <2>3, <2>4, <3>4, <4>2, <5>1
      <4>4. c[k] >= size
        BY <3>7, <4>1 DEF NULL
      <4>5. k >= m
        BY <1>1, <3>7, <4>2, <4>3
      <4> QED  BY <1>1, <1>9, <2>6, <4>4, <4>5
    <3> HIDE DEF Behind, Below
    <3>10. Goal
      BY <3>8, <3>9
    <3> QED  BY <1>11, <3>10 DEF k, pos, Behind, Below
  <2> QED  BY <2>5, <2>6
<1> QED  BY <1>1, <1>2, <1>13, <1>14, <1>15

(* No two of them have one position.                                       *)
LEMMA PlacedDistinct ==
  ASSUME NEW c, NEW len, NEW L, NEW m, Placed(c, len, L, m)
  PROVE  \A i, j \in 0..L : c[i] = c[j] => i = j
<1>1. L \in Nat /\ \A i \in 0..L : c[i] \in Nat /\ len[i] \in Nat /\ len[i] > 0
  BY DEF Placed
<1>2. ASSUME NEW i \in 0..L, NEW j \in 0..L, i < j
      PROVE  c[i] # c[j]
  <2>1. c[i] + len[i] <= c[j] \/ c[j] + len[j] <= c[i]
    BY <1>2, PlacedApart
  <2> QED  BY <1>1, <2>1
<1> QED  BY <1>1, <1>2

(* What is left of the first n elements without the k oldest, and x. *)
Remaining(f, n, k, x) == [i \in 0..(n - k) |-> IF i < n - k THEN f[i + k] ELSE x]

(* A new entry finds a place among those that are left.                    *)
LEMMA StorePlaced ==
  ASSUME NEW b, NEW c, NEW len, NEW n, NEW L, NEW m, Holds(b, c, len, n, L, m),
         NEW size \in 1..Block
  PROVE  LET k == Dropped(b, size)
             pos == Position(b, size)
         IN  k \in 0..n /\ \E w : Placed(Remaining(c, n, k, pos), Remaining(len, n, k, size), n - k, w)
<1> DEFINE K == Dropped(b, size)
           P == Position(b, size)
           Behind(j) == c[n-1] + len[n-1] <= P
           Below(j)  == P + size <= c[j]
<1>1. /\ n \in Nat /\ n > 0 /\ L \in Nat /\ (L = n - 1 \/ L = n)
      /\ size \in Nat /\ size > 0 /\ Block \in Nat
      /\ Placed(c, len, L, m) /\ m \in Nat /\ m > 0
  <2>1. Placed(c, len, L, m)
    BY DEF Holds
  <2>2. L \in Nat /\ m \in 1..(L + 1)
    BY <2>1 DEF Placed
  <2> QED  BY <2>1, <2>2, BlockAssumption DEF Holds
<1>2. PICK k \in 0..n : k = K
  BY Surviving
<1>3. PICK pos \in Nat : pos = P /\ pos + size <= Block
  BY Surviving
<1>4. k < n => \/ (k >= m \/ n - 1 < m) /\ (c[n-1] + len[n-1] <= pos \/ pos + size <= c[k])
               \/ c[n-1] + len[n-1] <= pos /\ pos + size <= c[k]
  BY <1>2, <1>3, Surviving
<1> HIDE DEF K, P
<1> DEFINE d == Remaining(c, n, k, pos)
           e == Remaining(len, n, k, size)
<1>5. CASE k = n
  <2>1. n - k = 0 /\ 0..0 = {0}
    BY <1>1, <1>5
  <2>2. d = [i \in 0..0 |-> pos] /\ e = [i \in 0..0 |-> size]
    BY <2>1 DEF Remaining
  <2>3. Placed(d, e, 0, 1)
    BY <1>1, <1>3, <2>2 DEF Placed
  <2> HIDE DEF d, e
  <2>4. \E w : Placed(d, e, n - k, w)
    BY <2>1, <2>3
  <2> QED  BY <1>2, <1>3, <2>4 DEF d, e, K, P
<1>6. CASE k < n
  <2>1. PICK l \in Nat : l = n - k - 1
    BY <1>1, <1>2, <1>6
  <2>2. /\ l + 1 = n - k
        /\ \A i \in 0..l : i + k \in 0..L /\ i + k \in Nat
    BY <1>1, <1>2, <2>1
  <2>3. PICK g : g = [i \in 0..l |-> i + k]
    OBVIOUS
  <2>4. /\ g \in [0..l -> 0..L]
        /\ \A i \in 0..l : g[i] = i + k
        /\ \A i, j \in 0..l : i < j => g[i] < g[j]
    BY <1>2, <2>2, <2>3
  <2>5. PICK w : /\ Placed(Picked(c, g, l), Picked(len, g, l), l, w)
                 /\ g[0] >= m \/ g[l] < m => w = l + 1
    <3>1. Selects(g, l, L)
      BY <2>1, <2>4 DEF Selects
    <3>2. Placed(c, len, L, m)
      BY <1>1
    <3> QED  BY <3>1, <3>2, PlacedPart
  <2>6. PICK x, y : x = Picked(c, g, l) /\ y = Picked(len, g, l)
    OBVIOUS
  <2>7. /\ \A i \in 0..l : x[i] = c[i + k] /\ y[i] = len[i + k]
        /\ g[0] = k /\ g[l] = n - 1 /\ x[0] = c[k] /\ x[l] = c[n-1] /\ y[l] = len[n-1]
    <3>1. \A i \in 0..l : x[i] = c[i + k] /\ y[i] = len[i + k]
      BY <2>4, <2>6 DEF Picked
    <3>2. 0 \in 0..l /\ l \in 0..l /\ 0 + k = k /\ l + k = n - 1
      BY <1>1, <1>2, <2>1
    <3>3. g[0] = k /\ g[l] = n - 1
      BY <2>4, <3>2
    <3>4. x[0] = c[k] /\ x[l] = c[n-1] /\ y[l] = len[n-1]
      <4>1. x[0] = c[0 + k] /\ x[l] = c[l + k] /\ y[l] = len[l + k]
        BY <3>1, <3>2
      <4> QED  BY <3>2, <4>1
    <3> QED  BY <3>1, <3>3, <3>4
  <2>8. Placed(x, y, l, w)
    BY <2>5, <2>6
  <2>9. \/ w = l + 1 /\ (x[l] + y[l] <= pos \/ pos + size <= x[0])
        \/ x[l] + y[l] <= pos /\ pos + size <= x[0]
    BY <1>4, <1>6, <2>5, <2>7
  <2>10. \E v : Placed(Appended(x, l, pos), Appended(y, l, size), l + 1, v)
    <3>1. l \in Nat /\ pos \in Nat /\ size \in Nat \ {0} /\ pos + size <= Block
      BY <1>1, <1>3, <2>1
    <3> QED  BY <2>8, <2>9, <3>1, PlacedMore
  <2>11. Appended(x, l, pos) = d /\ Appended(y, l, size) = e
    <3>1. \A i \in 0..(n - k) : i <= l <=> i < n - k
      BY <1>1, <1>2, <2>1
    <3>2. \A i \in 0..(n - k) : i < n - k => x[i] = c[i + k] /\ y[i] = len[i + k]
      BY <1>1, <1>2, <2>1, <2>7
    <3>3. \A i \in 0..(n - k) : /\ (IF i <= l THEN x[i] ELSE pos) = IF i < n - k THEN c[i + k] ELSE pos
                                /\ (IF i <= l THEN y[i] ELSE size) = IF i < n - k THEN len[i + k] ELSE size
      BY <3>1, <3>2
    <3>4. l + 1 = n - k
      BY <2>2
    <3> QED  BY <3>3, <3>4 DEF Appended, Remaining
  <2> HIDE DEF d, e
  <2>12. \E v : Placed(d, e, n - k, v)
    BY <2>2, <2>10, <2>11
  <2> QED  BY <1>2, <1>3, <2>12 DEF d, e, K, P
<1> QED  BY <1>1, <1>2, <1>5, <1>6

(* If the last pointer is at the oldest entry, it is the only one.         *)
LEMMA LastIsOldest ==
  ASSUME NEW b, NEW c, NEW len, NEW n, NEW L, NEW m, Holds(b, c, len, n, L, m),
         b.last = b.oldest
  PROVE  L = 0 /\ n = 1
<1>1. n \in Nat /\ n > 0 /\ L \in Nat /\ (L = n - 1 \/ L = n) /\ Placed(c, len, L, m)
  BY DEF Holds, Placed
<1>2. c[L] = c[0]
  BY <1>1 DEF Holds, Links
<1>3. L = 0
  BY <1>1, <1>2, PlacedDistinct
<1> QED  BY <1>1, <1>3

-----------------------------------------------------------------------------
(* storeReport: the links and headers after it.                            *)

(* The buffer before headers without a use are forgotten. *)
Grown(b, entry) ==
  LET pos  == Position(b, entry.len)
      room == MakeRoom(b, entry.len)
  IN  [mem      |-> Written(Link(b.mem, b.last, pos), pos, entry),
       oldest   |-> IF room.oldest = NULL THEN pos ELSE room.oldest,
       last     |-> pos,
       next     |-> IF b.last = NULL \/ room.next = NULL THEN pos ELSE room.next,
       count    |-> room.count + 1,
       overflow |-> room.overflow]

(* storeReport, with and without the forgotten headers.                    *)
LEMMA StoreFields ==
  ASSUME NEW b, NEW entry
  PROVE  LET g == Grown(b, entry)
             s == Store(b, entry)
         IN  /\ s = [mem |-> s.mem, oldest |-> g.oldest, last |-> g.last, next |-> g.next,
                     count |-> g.count, overflow |-> g.overflow]
             /\ DOMAIN s.mem = Used(g) \cap DOMAIN g.mem
             /\ \A p \in DOMAIN s.mem : s.mem[p] = g.mem[p]
<1> DEFINE g == Grown(b, entry)
           s == Store(b, entry)
<1>1. s = WithoutGarbage(g)
  BY DEF Store, Grown
<1>2. g = [mem |-> g.mem, oldest |-> g.oldest, last |-> g.last, next |-> g.next,
           count |-> g.count, overflow |-> g.overflow]
  BY DEF Grown
<1> HIDE DEF g, s
<1>3. s = [g EXCEPT !.mem = [p \in Used(g) \cap DOMAIN g.mem |-> g.mem[p]]]
  BY <1>1 DEF WithoutGarbage
<1> DEFINE M == [p \in Used(g) \cap DOMAIN g.mem |-> g.mem[p]]
<1>4. s = [mem |-> M, oldest |-> g.oldest, last |-> g.last, next |-> g.next,
           count |-> g.count, overflow |-> g.overflow]
  <2> HIDE DEF M
  <2>1. s = [g EXCEPT !.mem = M]
    BY <1>3 DEF M
  <2> QED  BY <1>2, <2>1
<1>5. s.mem = M
  BY <1>4
<1> QED  BY <1>4, <1>5 DEF g, s

(* Linking the last entry changes its header only.                         *)
LEMMA Linked ==
  ASSUME NEW mem, NEW last \in DOMAIN mem, NEW pos, \A p \in DOMAIN mem : IsEntry(mem[p])
  PROVE  LET new == Link(mem, last, pos)
         IN  /\ DOMAIN new = DOMAIN mem
             /\ \A p \in DOMAIN mem :
                  /\ IsEntry(new[p])
                  /\ new[p].id = mem[p].id /\ new[p].len = mem[p].len
                  /\ new[p].kind = mem[p].kind
                  /\ new[p].next = IF p = last THEN pos ELSE mem[p].next
<1> DEFINE new == [mem EXCEPT ![last].next = pos]
<1>1. Link(mem, last, pos) = new
  BY DEF Link
<1>2. DOMAIN new = DOMAIN mem
  OBVIOUS
<1>3. ASSUME NEW p \in DOMAIN mem
      PROVE  /\ IsEntry(new[p])
             /\ new[p].id = mem[p].id /\ new[p].len = mem[p].len
             /\ new[p].kind = mem[p].kind
             /\ new[p].next = IF p = last THEN pos ELSE mem[p].next
  <2>1. mem[p] = [id |-> mem[p].id, len |-> mem[p].len, kind |-> mem[p].kind,
                  members |-> mem[p].members, next |-> mem[p].next]
    BY DEF IsEntry
  <2>2. CASE p = last
    <3>1. new[p] = [mem[p] EXCEPT !.next = pos]
      BY <2>2
    <3>2. new[p] = [id |-> mem[p].id, len |-> mem[p].len, kind |-> mem[p].kind,
                    members |-> mem[p].members, next |-> pos]
      BY <2>1, <3>1
    <3> HIDE DEF new
    <3> QED  BY <2>2, <3>2 DEF IsEntry
  <2>3. CASE p # last
    <3>1. new[p] = mem[p]
      BY <2>3
    <3> HIDE DEF new
    <3> QED  BY <2>1, <2>3, <3>1 DEF IsEntry
  <2> QED  BY <2>2, <2>3
<1> QED  BY <1>1, <1>2, <1>3

(* What the new entry leaves of a block with entries. *)
LEMMA GrownHolds ==
  ASSUME NEW b, NEW c, NEW len, NEW n, NEW L, NEW m, Holds(b, c, len, n, L, m),
         IsBuffer(b),
         NEW entry, IsEntry(entry), entry.len \in 1..Block, entry.next = NULL
  PROVE  LET g   == Grown(b, entry)
             pos == Position(b, entry.len)
             k   == Dropped(b, entry.len)
             d   == Remaining(c, n, k, pos)
             e   == Remaining(len, n, k, entry.len)
             nn  == IF L = n - 1 \/ k = n THEN n - k + 1 ELSE n - k
         IN  /\ \E w : Holds(g, d, e, nn, n - k, w)
             /\ IsBuffer(g)
             /\ \A i \in 0..(n - k) : i < n - k => /\ g.mem[d[i]].id = b.mem[d[i]].id
                                                  /\ g.mem[d[i]].kind = b.mem[d[i]].kind
             /\ g.mem[pos] = entry
<1> DEFINE G == Grown(b, entry)
           P == Position(b, entry.len)
           K == Dropped(b, entry.len)
<1>1. /\ n \in Nat /\ n > 0 /\ L \in Nat /\ (L = n - 1 \/ L = n) /\ n - 1 \in 0..L
      /\ Block \in Nat /\ L \in 0..L /\ L + 1 <= Block
      /\ Placed(c, len, L, m) /\ Links(b, c, n) /\ b.last = c[L]
      /\ \A i \in 0..L : c[i] \in DOMAIN b.mem /\ b.mem[c[i]].len = len[i]
    <2>1. Placed(c, len, L, m)
      BY DEF Holds
    <2>2. L + 1 <= Block
      BY <2>1, PlacedCount
    <2> QED  BY <2>1, <2>2, BlockAssumption DEF Holds, Placed
<1>2. PICK size \in 1..Block : size = entry.len
  OBVIOUS
<1>3. PICK k \in 0..n : k = K
  BY <1>2, StorePlaced
<1>4. PICK pos \in Nat : pos = P
  BY <1>2, Surviving
<1>5. PICK d : d = Remaining(c, n, k, pos)
  OBVIOUS
<1>6. PICK e : e = Remaining(len, n, k, size)
  OBVIOUS
<1>7. PICK w : Placed(d, e, n - k, w)
  BY <1>2, <1>3, <1>4, <1>5, <1>6, StorePlaced
<1>8. PICK l \in 0..n : l = n - k
  BY <1>1
<1>7a. Placed(d, e, l, w)
  BY <1>7, <1>8
<1>7b. \A i \in 0..L : c[i] \in Nat /\ c[i] # NULL
  <2>1. Placed(c, len, L, m)
    BY <1>1
  <2> QED  BY <2>1 DEF Placed, NULL
<1>9. /\ \A i \in 0..l : i < l => d[i] = c[i + k] /\ e[i] = len[i + k] /\ i + k \in 0..(n-1)
                                /\ i + k \in 0..L /\ i + k \in Nat
      /\ d[l] = pos /\ e[l] = size /\ l \in 0..l /\ l \in Nat
  <2>1. \A i \in 0..l : i < l => i + k \in 0..(n-1) /\ i + k \in 0..L /\ i + k \in Nat
    BY <1>1, <1>3, <1>8
  <2>2. l \in 0..l /\ l \in Nat /\ ~(l < l)
    BY <1>1
  <2> QED  BY <1>5, <1>6, <1>8, <2>1, <2>2 DEF Remaining
<1>10. PICK mem1 : mem1 = Link(b.mem, b.last, pos)
  OBVIOUS
<1>11. /\ DOMAIN mem1 = DOMAIN b.mem
       /\ \A p \in DOMAIN b.mem :
            /\ IsEntry(mem1[p])
            /\ mem1[p].id = b.mem[p].id /\ mem1[p].len = b.mem[p].len
            /\ mem1[p].kind = b.mem[p].kind
            /\ mem1[p].next = IF p = b.last THEN pos ELSE b.mem[p].next
  <2>1. b.last \in DOMAIN b.mem
    BY <1>1
  <2> QED  BY <1>10, <2>1, Linked DEF IsBuffer
<1>12. PICK mem2 : mem2 = Written(mem1, pos, entry)
  OBVIOUS
<1>13. /\ DOMAIN mem2 = (DOMAIN mem1 \ Overwritten(mem1, pos, size)) \cup {pos}
       /\ \A p \in DOMAIN mem2 : mem2[p] = IF p = pos THEN entry ELSE mem1[p]
  BY <1>2, <1>12 DEF Written
<1>14. ASSUME NEW i \in 0..l, i < l
       PROVE  /\ d[i] \in DOMAIN b.mem /\ d[i] \in DOMAIN mem2 /\ d[i] # pos
              /\ mem2[d[i]] = mem1[d[i]]
              /\ b.mem[d[i]].len = e[i]
  <2>1. d[i] \in DOMAIN b.mem /\ b.mem[d[i]].len = e[i]
    BY <1>1, <1>9, <1>14
  <2>2. mem1[d[i]].len = e[i]
    BY <1>11, <2>1
  <2>3. /\ d[i] \in Nat /\ e[i] \in Nat /\ e[i] > 0
        /\ size \in Nat /\ size > 0
    <3>1. d \in [0..l -> Nat] /\ e \in [0..l -> Nat \ {0}]
      BY <1>7a DEF Placed
    <3>2. size \in Nat /\ size > 0
      BY <1>1
    <3> QED  BY <3>1, <3>2
  <2>4. d[i] + e[i] <= pos \/ pos + size <= d[i]
    BY <1>7a, <1>9, <1>14, <2>3, PlacedApart
  <2>5. d[i] # pos
    BY <2>3, <2>4
  <2>6. ~(d[i] < pos + size /\ pos < d[i] + e[i])
    BY <2>3, <2>4
  <2>7. d[i] \notin Overwritten(mem1, pos, size)
    BY <2>2, <2>6 DEF Overwritten
  <2> QED  BY <1>11, <1>13, <2>1, <2>5, <2>7
<1>15. PICK g : g = G
  OBVIOUS
<1>16. PICK room : room = MakeRoom(b, size)
  OBVIOUS
<1>17. g = [mem |-> mem2, oldest |-> IF room.oldest = NULL THEN pos ELSE room.oldest,
            last |-> pos, next |-> IF b.last = NULL \/ room.next = NULL THEN pos ELSE room.next,
            count |-> room.count + 1, overflow |-> room.overflow]
  BY <1>2, <1>4, <1>10, <1>12, <1>15, <1>16 DEF Grown
<1>18. g.mem = mem2 /\ g.last = pos /\ g.oldest = IF room.oldest = NULL THEN pos ELSE room.oldest
  BY <1>17
<1>19. g.oldest = d[0]
  <2>1. CASE b.last = b.oldest
    <3>1. L = 0 /\ n = 1
      BY <2>1, LastIsOldest
    <3>2. b.last = c[0] /\ c[0] \in Nat /\ c[0] # NULL /\ b.oldest = c[0]
      BY <1>1, <1>7b, <2>1, <3>1
    <3>3. CASE Fits(b, size)
      <4>1. room.oldest = c[0]
        BY <1>16, <2>1, <3>2, <3>3 DEF MakeRoom
      <4>2. k = 0
        BY <1>2, <1>3, <2>1, <3>3 DEF Dropped
      <4>3. 0 \in 0..l /\ 0 < l /\ 0 + k = 0
        BY <1>8, <3>1, <4>2
      <4>4. d[0] = c[0]
        BY <1>9, <4>3
      <4> QED  BY <1>18, <3>2, <4>1, <4>4
    <3>4. CASE ~Fits(b, size)
      <4>1. room = [b EXCEPT !.count = 0, !.oldest = 0, !.next = NULL]
        BY <1>16, <2>1, <3>2, <3>4 DEF MakeRoom
      <4>2. room.oldest = 0
        BY <4>1 DEF IsBuffer
      <4>3. k = 1
        BY <1>2, <1>3, <2>1, <3>2, <3>4 DEF Dropped
      <4>4. l = 0
        BY <1>8, <3>1, <4>3
      <4>5. pos = 0
        BY <1>2, <1>4, <3>4 DEF Position
      <4> QED  BY <1>9, <1>18, <4>2, <4>4, <4>5 DEF NULL
    <3> QED  BY <3>3, <3>4
  <2>2. CASE b.last # b.oldest
    <3>1. b.last # NULL
      BY <1>1, <1>7b
    <3>2. K = Cleared(b, size)
      BY <1>2, <2>2 DEF Dropped
    <3>3. room = DropOldest(b, k)
      BY <1>3, <1>16, <2>2, <3>1, <3>2 DEF MakeRoom
    <3>4. room.oldest = Walk(b)[k]
      BY <3>3 DEF DropOldest, IsBuffer
    <3>5. k \in 0..Block
      BY <1>1
    <3>6. room.oldest = IF k < n THEN c[k] ELSE NULL
      BY <1>1, <3>4, <3>5, WalkIs
    <3>7. CASE k < n
      <4>1. 0 \in 0..l /\ 0 < l /\ 0 + k = k /\ k \in 0..L
        BY <1>1, <1>8, <3>7
      <4>2. d[0] = c[k] /\ c[k] # NULL
        BY <1>7b, <1>9, <3>7, <4>1
      <4> QED  BY <1>18, <3>6, <3>7, <4>2
    <3>8. CASE ~(k < n)
      <4>1. l = 0
        BY <1>1, <1>8, <3>8
      <4> QED  BY <1>9, <1>18, <3>6, <3>8, <4>1
    <3> QED  BY <3>7, <3>8
  <2> QED  BY <2>1, <2>2
<1>20. PICK nn : nn = IF L = n - 1 \/ k = n THEN n - k + 1 ELSE n - k
  OBVIOUS
<1>21. nn \in Nat \ {0} /\ (nn = l + 1 \/ nn = l) /\ (L = n - 1 \/ l = 0 => nn = l + 1)
       /\ (L # n - 1 /\ l # 0 => nn = l)
  BY <1>1, <1>8, <1>20
<1>22. ASSUME NEW i \in 0..(nn - 1)
       PROVE  /\ d[i] \in DOMAIN mem2
              /\ mem2[d[i]].next = IF i = nn - 1 THEN NULL ELSE d[i+1]
  <2>0. i \in 0..l
    BY <1>9, <1>21
  <2>1. CASE i = l
    <3>1. i = nn - 1
      BY <1>21, <2>1, <1>9
    <3>2. d[i] = pos
      BY <1>9, <2>1
    <3> QED  BY <1>13, <3>1, <3>2
  <2>2. CASE i # l
    <3>1. i < l
      BY <1>9, <2>0, <2>2
    <3>2. /\ d[i] = c[i + k] /\ i + k \in 0..(n-1) /\ i + k \in 0..L /\ i + k \in Nat
      BY <1>9, <2>0, <3>1
    <3>3. /\ d[i] \in DOMAIN mem2 /\ d[i] \in DOMAIN b.mem /\ mem2[d[i]] = mem1[d[i]]
      BY <1>14, <2>0, <3>1
    <3>4. b.mem[d[i]].next = IF i + k = n - 1 THEN NULL ELSE c[(i + k) + 1]
      BY <1>1, <3>2 DEF Links
    <3>5. mem2[d[i]].next = IF d[i] = b.last THEN pos ELSE b.mem[d[i]].next
      BY <1>11, <3>3
    <3>6. d[i] = b.last <=> i + k = L
      BY <1>1, <3>2, PlacedDistinct
    <3>7. i + 1 \in 0..l /\ (i + 1 < l => d[i+1] = c[(i + k) + 1])
      <4>1. i + 1 \in 0..l /\ (i + 1) + k = (i + k) + 1
        BY <1>9, <2>0, <3>1, <1>3
      <4> QED  BY <1>9, <4>1
    <3>8. CASE L = n - 1
      <4>1. nn = l + 1 /\ i # nn - 1
        BY <1>9, <1>21, <2>2, <3>8, <2>0
      <4>2. CASE i + k = L
        <5>1. i + 1 = l
          BY <1>1, <1>3, <1>8, <3>8, <4>2, <2>0
        <5> QED  BY <1>9, <3>3, <3>5, <3>6, <4>1, <4>2, <5>1
      <4>3. CASE i + k # L
        <5>1. i + 1 < l
          BY <1>1, <1>3, <1>8, <3>8, <4>3, <2>0, <3>1
        <5> QED  BY <3>3, <3>4, <3>5, <3>6, <3>7, <3>8, <4>1, <4>3, <5>1
      <4> QED  BY <4>2, <4>3
    <3>9. CASE L # n - 1
      <4>1. nn = l /\ i + k # L
        BY <1>1, <1>21, <2>0, <3>1, <3>2, <3>9
      <4>2. i = nn - 1 <=> i + k = n - 1
        BY <1>1, <1>3, <1>8, <4>1, <2>0
      <4>3. i # nn - 1 => i + 1 < l
        BY <1>9, <2>0, <3>1, <4>1
      <4> QED  BY <3>3, <3>4, <3>5, <3>6, <3>7, <4>1, <4>2, <4>3
    <3> QED  BY <3>8, <3>9
  <2> QED  BY <2>1, <2>2
<1>23. DOMAIN mem2 \subseteq Nat
  BY <1>11, <1>13 DEF IsBuffer
<1>24. Links(g, d, nn)
  BY <1>18, <1>19, <1>21, <1>22, <1>23 DEF Links, NULL
<1>25. \A i \in 0..l : d[i] \in DOMAIN mem2 /\ mem2[d[i]].len = e[i]
  <2> SUFFICES ASSUME NEW i \in 0..l
               PROVE  d[i] \in DOMAIN mem2 /\ mem2[d[i]].len = e[i]
    OBVIOUS
  <2>1. CASE i = l
    BY <1>2, <1>9, <1>13, <2>1
  <2>2. CASE i < l
    BY <1>11, <1>14, <2>2
  <2> QED  BY <1>9, <2>1, <2>2
<1>26. Holds(g, d, e, nn, l, w)
  BY <1>7a, <1>9, <1>18, <1>21, <1>24, <1>25 DEF Holds
<1>27. IsBuffer(g)
  <2>1. g = [mem |-> g.mem, oldest |-> g.oldest, last |-> g.last, next |-> g.next,
             count |-> g.count, overflow |-> g.overflow]
    BY <1>17
  <2>2. \A p \in DOMAIN mem2 : IsEntry(mem2[p])
    <3>1. \A p \in DOMAIN b.mem : IsEntry(mem1[p])
      BY <1>11
    <3> QED  BY <1>11, <1>13, <3>1
  <2> QED  BY <1>18, <1>23, <2>1, <2>2 DEF IsBuffer
<1>28. \A i \in 0..l : i < l => g.mem[d[i]].id = b.mem[d[i]].id /\ g.mem[d[i]].kind = b.mem[d[i]].kind
  BY <1>11, <1>14, <1>18
<1>29. g.mem[pos] = entry
  BY <1>13, <1>18
<1> HIDE DEF G, P, K
<1>30. (\E v : Holds(g, d, e, nn, n - k, v)) /\ \A i \in 0..(n - k) : i < n - k =>
          g.mem[d[i]].id = b.mem[d[i]].id /\ g.mem[d[i]].kind = b.mem[d[i]].kind
  BY <1>8, <1>26, <1>28
<1> QED
  BY <1>2, <1>3, <1>4, <1>5, <1>6, <1>15, <1>20, <1>27, <1>29, <1>30 DEF G, P, K

(* A buffer without entries.                                               *)
Empty(b) == b.oldest = NULL /\ b.last = NULL

(* What can be reached in a buffer with entries.                           *)
LEMMA ChainOf ==
  ASSUME NEW b, NEW c, NEW len, NEW n, NEW L, NEW m, Holds(b, c, len, n, L, m)
  PROVE  /\ n \in 1..Block /\ L \in 0..(Block - 1)
         /\ Chain(b) = {c[k] : k \in 0..(n-1)}
         /\ Length(b) = n
         /\ \A k \in 0..Block : Walk(b)[k] = IF k < n THEN c[k] ELSE NULL
<1>1. Placed(c, len, L, m) /\ Links(b, c, n) /\ n \in Nat \ {0} /\ L \in {n - 1, n}
  BY DEF Holds
<1>2. L + 1 <= Block /\ L \in Nat /\ Block \in Nat
  BY <1>1, PlacedCount, BlockAssumption DEF Placed
<1>3. n \in 1..Block /\ n \in 0..(Block + 1) /\ n \in Nat /\ L \in 0..(Block - 1)
  BY <1>1, <1>2
<1> QED  BY <1>1, <1>3, ChainIs, WalkIs

(* Forgetting the headers that nothing leads to leaves the entries alone. *)
LEMMA TidyHolds ==
  ASSUME NEW g, NEW c, NEW len, NEW n, NEW L, NEW m, Holds(g, c, len, n, L, m), IsBuffer(g),
         NEW s, s = [mem |-> s.mem, oldest |-> g.oldest, last |-> g.last, next |-> g.next,
                     count |-> g.count, overflow |-> g.overflow],
         DOMAIN s.mem = Used(g) \cap DOMAIN g.mem,
         \A p \in DOMAIN s.mem : s.mem[p] = g.mem[p]
  PROVE  /\ Holds(s, c, len, n, L, m) /\ IsBuffer(s)
         /\ \A i \in 0..L : s.mem[c[i]] = g.mem[c[i]]
<1>1. /\ n \in Nat /\ n > 0 /\ L \in Nat /\ (L = n - 1 \/ L = n)
      /\ Placed(c, len, L, m) /\ Links(g, c, n) /\ g.last = c[L]
      /\ \A i \in 0..L : c[i] \in DOMAIN g.mem /\ g.mem[c[i]].len = len[i]
  <2>1. Placed(c, len, L, m)
    BY DEF Holds
  <2>2. L \in Nat
    BY <2>1 DEF Placed
  <2> QED  BY <2>1, <2>2 DEF Holds
<1>2. s.oldest = g.oldest /\ s.last = g.last /\ s.next = g.next /\ s.count = g.count
      /\ s.overflow = g.overflow
  <2>1. PICK M : M = s.mem
    OBVIOUS
  <2>2. s = [mem |-> M, oldest |-> g.oldest, last |-> g.last, next |-> g.next,
             count |-> g.count, overflow |-> g.overflow]
    BY <2>1
  <2> QED  BY <2>2
<1>3. ASSUME NEW i \in 0..L
      PROVE  c[i] \in DOMAIN s.mem /\ s.mem[c[i]] = g.mem[c[i]]
  <2>1. c[i] \in Chain(g) \cup {g.last}
    <3>1. CASE i \in 0..(n-1)
      BY <3>1, ChainOf
    <3>2. CASE i = L
      BY <1>1, <3>2
    <3> QED  BY <1>1, <3>1, <3>2
  <2>2. c[i] \in Used(g)
    BY <2>1 DEF Used
  <2>3. c[i] \in DOMAIN s.mem
    BY <1>1, <2>2
  <2> QED  BY <2>3
<1>4. Links(s, c, n)
  <2>1. /\ NULL \notin DOMAIN g.mem /\ g.oldest = IF n = 0 THEN NULL ELSE c[0]
        /\ \A k \in 0..(n-1) : g.mem[c[k]].next = IF k = n - 1 THEN NULL ELSE c[k+1]
    BY <1>1 DEF Links
  <2>2. \A k \in 0..(n-1) : c[k] \in DOMAIN s.mem /\ s.mem[c[k]] = g.mem[c[k]]
    BY <1>1, <1>3
  <2>3. NULL \notin DOMAIN s.mem
    BY <2>1
  <2> QED  BY <1>2, <2>1, <2>2, <2>3 DEF Links
<1>5. Holds(s, c, len, n, L, m)
  <2>1. \A k \in 0..L : c[k] \in DOMAIN s.mem /\ s.mem[c[k]].len = len[k]
    BY <1>1, <1>3
  <2>2. s.last = c[L] /\ n \in Nat \ {0} /\ L \in {n - 1, n}
    BY <1>1, <1>2
  <2>3. Placed(c, len, L, m)
    BY <1>1
  <2> QED  BY <1>4, <2>1, <2>2, <2>3 DEF Holds
<1>6. IsBuffer(s)
  <2>1. s = [mem |-> s.mem, oldest |-> s.oldest, last |-> s.last, next |-> s.next,
             count |-> s.count, overflow |-> s.overflow]
    BY <1>2
  <2> QED  BY <2>1 DEF IsBuffer
<1> QED  BY <1>3, <1>5, <1>6

(* A report that is stored behind others.                                  *)
LEMMA StoreHolds ==
  ASSUME NEW b, NEW c, NEW len, NEW n, NEW L, NEW m, Holds(b, c, len, n, L, m),
         IsBuffer(b),
         NEW entry, IsEntry(entry), entry.len \in 1..Block, entry.next = NULL
  PROVE  LET s   == Store(b, entry)
             pos == Position(b, entry.len)
             k   == Dropped(b, entry.len)
             d   == Remaining(c, n, k, pos)
             e   == Remaining(len, n, k, entry.len)
             nn  == IF L = n - 1 \/ k = n THEN n - k + 1 ELSE n - k
         IN  /\ \E w : Holds(s, d, e, nn, n - k, w)
             /\ IsBuffer(s)
             /\ \A i \in 0..(n - k) : i < n - k => /\ s.mem[d[i]].id = b.mem[d[i]].id
                                                  /\ s.mem[d[i]].kind = b.mem[d[i]].kind
             /\ s.mem[pos] = entry
<1> DEFINE g   == Grown(b, entry)
           s   == Store(b, entry)
           pos == Position(b, entry.len)
           k   == Dropped(b, entry.len)
           d   == Remaining(c, n, k, pos)
           e   == Remaining(len, n, k, entry.len)
           nn  == IF L = n - 1 \/ k = n THEN n - k + 1 ELSE n - k
<1>1. /\ \E w : Holds(g, d, e, nn, n - k, w)
      /\ IsBuffer(g)
      /\ \A i \in 0..(n - k) : i < n - k => /\ g.mem[d[i]].id = b.mem[d[i]].id
                                            /\ g.mem[d[i]].kind = b.mem[d[i]].kind
      /\ g.mem[pos] = entry
  BY GrownHolds
<1>2. PICK w : Holds(g, d, e, nn, n - k, w)
  BY <1>1
<1>3. /\ s = [mem |-> s.mem, oldest |-> g.oldest, last |-> g.last, next |-> g.next,
              count |-> g.count, overflow |-> g.overflow]
      /\ DOMAIN s.mem = Used(g) \cap DOMAIN g.mem
      /\ \A p \in DOMAIN s.mem : s.mem[p] = g.mem[p]
  BY StoreFields
<1>4. k \in 0..n /\ n \in Nat
  BY StorePlaced DEF Holds
<1>5. d[n - k] = pos
  <2> HIDE DEF k, pos
  <2> QED  BY <1>4 DEF Remaining
<1> HIDE DEF g, s, d, e, k, nn, pos
<1>6. /\ Holds(s, d, e, nn, n - k, w) /\ IsBuffer(s)
      /\ \A i \in 0..(n - k) : s.mem[d[i]] = g.mem[d[i]]
  BY <1>1, <1>2, <1>3, TidyHolds
<1>7. s.mem[pos] = entry
  <2>1. n - k \in 0..(n - k)
    BY <1>4
  <2> QED  BY <1>1, <1>5, <1>6, <2>1
<1>8. \E v : Holds(s, d, e, nn, n - k, v)
  BY <1>6
<1> QED  BY <1>1, <1>6, <1>7, <1>8 DEF s, d, e, k, nn, pos

(* A report that is stored in a buffer without entries.                    *)
LEMMA StoreFirst ==
  ASSUME NEW b, IsBuffer(b), Empty(b),
         NEW entry, IsEntry(entry), entry.len \in 1..Block, entry.next = NULL
  PROVE  LET s == Store(b, entry)
         IN  /\ Holds(s, [i \in 0..0 |-> 0], [i \in 0..0 |-> entry.len], 1, 0, 1)
             /\ IsBuffer(s)
             /\ s.mem[0] = entry
<1> DEFINE G == Grown(b, entry)
           s == Store(b, entry)
<1>1. Position(b, entry.len) = 0 /\ MakeRoom(b, entry.len) = b
  BY DEF Empty, Position, MakeRoom
<1>2. NULL \notin DOMAIN b.mem
  BY DEF IsBuffer, NULL
<1>3. Link(b.mem, b.last, 0) = b.mem
  BY <1>2 DEF Link, Empty
<1>4. PICK mem : mem = Written(b.mem, 0, entry)
  OBVIOUS
<1>5. PICK g : g = G
  OBVIOUS
<1>6. g = [mem |-> mem, oldest |-> 0, last |-> 0, next |-> 0,
           count |-> b.count + 1, overflow |-> b.overflow]
  BY <1>1, <1>3, <1>4, <1>5 DEF Grown, Empty
<1>7. /\ DOMAIN mem \subseteq DOMAIN b.mem \cup {0} /\ 0 \in DOMAIN mem
      /\ \A p \in DOMAIN mem : mem[p] = IF p = 0 THEN entry ELSE b.mem[p]
  BY <1>4 DEF Written
<1>8. g.mem = mem /\ g.oldest = 0 /\ g.last = 0
  BY <1>6
<1>9. IsBuffer(g)
  <2>1. g = [mem |-> g.mem, oldest |-> g.oldest, last |-> g.last, next |-> g.next,
             count |-> g.count, overflow |-> g.overflow]
    BY <1>6
  <2>2. \A p \in DOMAIN mem : IsEntry(mem[p]) /\ p \in Nat
    BY <1>7 DEF IsBuffer
  <2> QED  BY <1>8, <2>1, <2>2 DEF IsBuffer
<1>10. PICK c, e : c = [i \in 0..0 |-> 0] /\ e = [i \in 0..0 |-> entry.len]
  OBVIOUS
<1>11. \A i \in 0..0 : i = 0
  OBVIOUS
<1>12. Placed(c, e, 0, 1)
  BY <1>10, BlockAssumption DEF Placed
<1>13. Links(g, c, 1)
  <2>1. NULL \notin DOMAIN mem
    BY <1>2, <1>7 DEF NULL
  <2>2. \A k \in 0..(1-1) : k = 0
    OBVIOUS
  <2> QED  BY <1>7, <1>8, <1>10, <2>1, <2>2 DEF Links
<1>14. Holds(g, c, e, 1, 0, 1)
  <2>1. \A k \in 0..0 : c[k] \in DOMAIN g.mem /\ g.mem[c[k]].len = e[k]
    BY <1>7, <1>8, <1>10, <1>11
  <2>2. g.last = c[0] /\ 1 \in Nat \ {0} /\ 0 \in {1 - 1, 1}
    BY <1>8, <1>10
  <2> QED  BY <1>12, <1>13, <2>1, <2>2 DEF Holds
<1>15. /\ s = [mem |-> s.mem, oldest |-> g.oldest, last |-> g.last, next |-> g.next,
              count |-> g.count, overflow |-> g.overflow]
       /\ DOMAIN s.mem = Used(g) \cap DOMAIN g.mem
       /\ \A p \in DOMAIN s.mem : s.mem[p] = g.mem[p]
  BY <1>5, StoreFields
<1> HIDE DEF s, G
<1>16. Holds(s, c, e, 1, 0, 1) /\ IsBuffer(s) /\ \A i \in 0..0 : s.mem[c[i]] = g.mem[c[i]]
  BY <1>9, <1>14, <1>15, TidyHolds
<1>17. s.mem[0] = entry
  BY <1>7, <1>8, <1>10, <1>16
<1> QED  BY <1>10, <1>16, <1>17 DEF s

-----------------------------------------------------------------------------
(* removeAllGIReportsFromReportBuffer: the entries that stay, in their     *)
(* order. The last pointer may be left at an entry behind the chain: that  *)
(* one still counts for where the next report is stored.                   *)

(* g counts the elements of K, a set of numbers below n, from the least on. *)
Enumerates(g, l, K, n) ==
  /\ g \in [0..(l-1) -> 0..(n-1)]
  /\ \A i, j \in 0..(l-1) : i < j => g[i] < g[j]
  /\ K = {g[i] : i \in 0..(l-1)}

(* Every such set can be counted like that.                                *)
LEMMA Enumeration ==
  \A n \in Nat : \A K \in SUBSET (0..(n-1)) : \E l \in 0..n : \E g : Enumerates(g, l, K, n)
<1> DEFINE S == {n \in Nat : \A K \in SUBSET (0..(n-1)) : \E l \in 0..n : \E g : Enumerates(g, l, K, n)}
<1>1. 0 \in S
  <2> SUFFICES ASSUME NEW K \in SUBSET (0..(0-1))
               PROVE  \E l \in 0..0 : \E g : Enumerates(g, l, K, 0)
    OBVIOUS
  <2>1. 0..(0-1) = {}
    OBVIOUS
  <2>2. K = {}
    BY <2>1
  <2>3. Enumerates([i \in 0..(0-1) |-> 0], 0, K, 0)
    BY <2>1, <2>2 DEF Enumerates
  <2> QED  BY <2>3
<1>2. ASSUME NEW n \in Nat, n \in S
      PROVE  n + 1 \in S
  <2> SUFFICES ASSUME NEW K \in SUBSET (0..((n+1)-1))
               PROVE  \E l \in 0..(n+1) : \E g : Enumerates(g, l, K, n + 1)
    OBVIOUS
  <2>1. (n + 1) - 1 = n /\ K \subseteq 0..n
    OBVIOUS
  <2>2. K \cap (0..(n-1)) \in SUBSET (0..(n-1))
    OBVIOUS
  <2>0. PICK l \in 0..n : \E g : Enumerates(g, l, K \cap (0..(n-1)), n)
    BY <1>2, <2>2
  <2>3. PICK g : Enumerates(g, l, K \cap (0..(n-1)), n)
    BY <2>0
  <2>4. /\ \A i \in 0..(l-1) : g[i] \in 0..(n-1) /\ g[i] \in Nat /\ g[i] \in K
        /\ \A i, j \in 0..(l-1) : i < j => g[i] < g[j]
        /\ \A j \in K : j \in 0..(n-1) => \E i \in 0..(l-1) : g[i] = j
        /\ g \in [0..(l-1) -> 0..n]
    BY <2>3 DEF Enumerates
  <2>5. CASE n \notin K
    <3>1. K = {g[i] : i \in 0..(l-1)}
      <4>1. \A j \in K : j \in 0..(n-1)
        BY <2>1, <2>5
      <4> QED  BY <2>4, <4>1
    <3>2. Enumerates(g, l, K, n + 1)
      BY <2>1, <2>4, <3>1 DEF Enumerates
    <3>3. l \in 0..(n+1)
      OBVIOUS
    <3> QED  BY <3>2, <3>3
  <2>6. CASE n \in K
    <3>1. PICK h : h = [i \in 0..l |-> IF i < l THEN g[i] ELSE n]
      OBVIOUS
    <3>2. /\ \A i \in 0..l : i # l => i \in 0..(l-1) /\ h[i] = g[i]
          /\ h[l] = n /\ (l + 1) - 1 = l /\ l \in 0..l
      BY <3>1
    <3>3. h \in [0..l -> 0..n]
      BY <2>4, <3>1
    <3>4. ASSUME NEW i \in 0..l, NEW j \in 0..l, i < j
          PROVE  h[i] < h[j]
      <4>1. i # l
        BY <3>4
      <4>2. CASE j = l
        BY <2>4, <3>2, <4>1, <4>2
      <4>3. CASE j # l
        BY <2>4, <3>2, <3>4, <4>1, <4>3
      <4> QED  BY <4>2, <4>3
    <3>5. K = {h[i] : i \in 0..l}
      <4>1. \A i \in 0..l : h[i] \in K
        BY <2>4, <2>6, <3>2
      <4>2. ASSUME NEW j \in K
            PROVE  \E i \in 0..l : h[i] = j
        <5>1. CASE j = n
          BY <3>2, <5>1
        <5>2. CASE j # n
          <6>1. j \in 0..(n-1)
            BY <2>1, <5>2
          <6>2. PICK i \in 0..(l-1) : g[i] = j
            BY <2>4, <6>1
          <6>3. i \in 0..l /\ i # l
            OBVIOUS
          <6> QED  BY <3>2, <6>2, <6>3
        <5> QED  BY <5>1, <5>2
      <4> QED  BY <4>1, <4>2
    <3>6. Enumerates(h, l + 1, K, n + 1)
      BY <2>1, <3>2, <3>3, <3>4, <3>5 DEF Enumerates
    <3>7. l + 1 \in 0..(n+1)
      OBVIOUS
    <3> QED  BY <3>6, <3>7
  <2> QED  BY <2>5, <2>6
<1> HIDE DEF S
<1>3. Nat \subseteq S
  BY <1>1, <1>2, Induction
<1> QED  BY <1>3 DEF S

(* The entry of the next element from j on. *)
NextKept(c, K, n, j) ==
  IF \E i \in j..(n-1) : i \in K THEN c[Least({i \in j..(n-1) : i \in K})] ELSE NULL

(* The next element of K, by its number.                                   *)
LEMMA NextKeptIs ==
  ASSUME NEW c, NEW K, NEW n \in Nat, NEW l \in Nat, NEW g, Enumerates(g, l, K, n)
  PROVE  /\ NextKept(c, K, n, 0) = IF l = 0 THEN NULL ELSE c[g[0]]
         /\ \A i \in 0..(l-1) :
              /\ NextKept(c, K, n, g[i]) = c[g[i]]
              /\ NextKept(c, K, n, g[i] + 1) = IF i = l - 1 THEN NULL ELSE c[g[i+1]]
<1>1. /\ \A i \in 0..(l-1) : g[i] \in 0..(n-1) /\ g[i] \in Nat /\ g[i] \in K
      /\ \A i, j \in 0..(l-1) : i < j => g[i] < g[j]
      /\ \A j \in K : \E i \in 0..(l-1) : g[i] = j
  BY DEF Enumerates
<1>2. ASSUME NEW j \in Nat, NEW i \in 0..(l-1), g[i] >= j,
             \A t \in 0..(l-1) : t < i => g[t] < j
      PROVE  NextKept(c, K, n, j) = c[g[i]]
  <2> DEFINE T == {t \in j..(n-1) : t \in K}
  <2>1. g[i] \in T /\ T \subseteq Nat
    BY <1>1, <1>2
  <2>2. Least(T) \in T /\ Least(T) <= g[i]
    BY <2>1, LeastElement
  <2>3. ASSUME NEW t \in T
        PROVE  g[i] <= t
    <3>1. t \in K /\ t \in Nat /\ t >= j
      OBVIOUS
    <3>2. PICK u \in 0..(l-1) : g[u] = t
      BY <1>1, <3>1
    <3>3. ~(u < i)
      BY <1>1, <1>2, <3>1, <3>2
    <3>4. CASE u = i
      BY <1>1, <3>2, <3>4
    <3>5. CASE u > i
      BY <1>1, <3>2, <3>5
    <3> QED  BY <3>3, <3>4, <3>5
  <2>4. Least(T) = g[i]
    <3> HIDE DEF T
    <3>1. Least(T) \in Nat /\ g[i] \in Nat /\ g[i] <= Least(T)
      BY <1>1, <2>1, <2>2, <2>3
    <3> QED  BY <2>2, <3>1
  <2>5. \E t \in j..(n-1) : t \in K
    BY <2>1
  <2> HIDE DEF T
  <2>6. NextKept(c, K, n, j) = c[Least(T)]
    BY <2>5 DEF NextKept, T
  <2> QED  BY <2>4, <2>6
<1>3. ASSUME NEW j \in Nat, \A t \in 0..(l-1) : g[t] < j
      PROVE  NextKept(c, K, n, j) = NULL
  <2>1. ~\E t \in j..(n-1) : t \in K
    <3> SUFFICES ASSUME NEW t \in j..(n-1), t \in K
                 PROVE  FALSE
      OBVIOUS
    <3>1. PICK u \in 0..(l-1) : g[u] = t
      BY <1>1
    <3> QED  BY <1>1, <1>3, <3>1
  <2> QED  BY <2>1 DEF NextKept
<1>4. NextKept(c, K, n, 0) = IF l = 0 THEN NULL ELSE c[g[0]]
  <2>1. CASE l = 0
    <3>1. \A t \in 0..(l-1) : g[t] < 0
      BY <2>1
    <3> QED  BY <1>3, <2>1, <3>1
  <2>2. CASE l # 0
    <3>1. 0 \in 0..(l-1)
      BY <2>2
    <3>2. g[0] >= 0 /\ \A t \in 0..(l-1) : t < 0 => g[t] < 0
      BY <1>1, <3>1
    <3> QED  BY <1>2, <2>2, <3>1, <3>2
  <2> QED  BY <2>1, <2>2
<1>5. ASSUME NEW i \in 0..(l-1)
      PROVE  NextKept(c, K, n, g[i]) = c[g[i]]
  <2>1. g[i] \in Nat /\ g[i] >= g[i] /\ \A t \in 0..(l-1) : t < i => g[t] < g[i]
    BY <1>1
  <2> QED  BY <1>2, <2>1
<1>6. ASSUME NEW i \in 0..(l-1)
      PROVE  NextKept(c, K, n, g[i] + 1) = IF i = l - 1 THEN NULL ELSE c[g[i+1]]
  <2>0. PICK j \in Nat : j = g[i] + 1
    BY <1>1
  <2>1. CASE i = l - 1
    <3>1. ASSUME NEW t \in 0..(l-1)
          PROVE  g[t] < j
      <4>1. t = i \/ t < i
        BY <2>1
      <4> QED  BY <1>1, <2>0, <4>1
    <3> QED  BY <1>3, <2>0, <2>1, <3>1
  <2>2. CASE i # l - 1
    <3>1. i + 1 \in 0..(l-1) /\ i < i + 1
      BY <2>2
    <3>2. g[i+1] >= j
      BY <1>1, <2>0, <3>1
    <3>3. ASSUME NEW t \in 0..(l-1), t < i + 1
          PROVE  g[t] < j
      <4>1. t = i \/ t < i
        BY <3>3
      <4> QED  BY <1>1, <2>0, <4>1
    <3>4. NextKept(c, K, n, j) = c[g[i+1]]
      BY <1>2, <3>1, <3>2, <3>3
    <3> QED  BY <2>0, <2>2, <3>4
  <2> QED  BY <2>1, <2>2
<1> QED  BY <1>4, <1>5, <1>6

(* The places of the entries that are no general interrogations. *)
Standing(b, c, n) == {j \in 0..(n-1) : b.mem[c[j]].kind # "gi"}

(* What removing the reports of earlier general interrogations does to the *)
(* headers and the pointers.                                              *)
LEMMA RemoveGIFields ==
  ASSUME NEW b, NEW c, NEW len, NEW n, NEW L, NEW m, Holds(b, c, len, n, L, m), IsBuffer(b)
  PROVE  LET r == RemoveGI(b)
             K == Standing(b, c, n)
         IN  /\ IsBuffer(r)
             /\ DOMAIN r.mem = DOMAIN b.mem
             /\ \A p \in DOMAIN b.mem : /\ r.mem[p].id = b.mem[p].id
                                        /\ r.mem[p].len = b.mem[p].len
                                        /\ r.mem[p].kind = b.mem[p].kind
             /\ \A j \in K : r.mem[c[j]].next = NextKept(c, K, n, j + 1)
             /\ r.oldest = NextKept(c, K, n, 0)
             /\ r.last = IF r.oldest = NULL THEN NULL ELSE b.last
             /\ \A j \in 0..(n-1) : b.next = c[j] => r.next = NextKept(c, K, n, j)
             /\ b.next = NULL => r.next = NULL
             /\ r.count = b.count /\ r.overflow = b.overflow
<1> DEFINE w       == Walk(b)
           N       == Length(b)
           chain   == Chain(b)
           Stays(j) == j < N /\ b.mem[w[j]].kind # "gi"
           From(j) == IF \E i \in j..(N-1) : Stays(i)
                      THEN w[Least({i \in j..(N-1) : Stays(i)})] ELSE NULL
           At(p)   == CHOOSE j \in 0..(N-1) : w[j] = p
           V(p)    == IF p \in chain /\ Stays(At(p))
                      THEN [b.mem[p] EXCEPT !.next = From(At(p) + 1)] ELSE b.mem[p]
           M       == [p \in DOMAIN b.mem |-> V(p)]
           nxt     == IF b.next \in chain THEN From(At(b.next)) ELSE b.next
           lst     == IF From(0) = NULL THEN NULL ELSE b.last
           r       == RemoveGI(b)
<1>0. PICK K : K = Standing(b, c, n)
  OBVIOUS
<1>1. /\ N = n /\ n \in Nat /\ n <= Block /\ Block \in Nat
      /\ chain = {c[k] : k \in 0..(n-1)}
      /\ \A k \in 0..(n-1) : w[k] = c[k]
  <2>1. n \in 1..Block /\ Block \in Nat
    BY ChainOf, BlockAssumption
  <2> QED  BY <2>1, ChainOf
<1>2. \A i, j \in 0..(n-1) : c[i] = c[j] => i = j
  <2>1. \A i \in 0..(n-1) : i \in 0..L
    <3>1. L \in Nat
      BY DEF Holds, Placed
    <3> QED  BY <1>1, <3>1 DEF Holds
  <2> QED  BY <2>1, PlacedDistinct DEF Holds
<1>3. \A k \in 0..(n-1) : c[k] \in DOMAIN b.mem
  BY DEF Holds, Links
<1>4. r = [b EXCEPT !.mem = M, !.oldest = From(0), !.next = nxt, !.last = lst]
  BY DEF RemoveGI
<1> HIDE DEF w, N, chain, r
<1>5. K \subseteq 0..(n-1) /\ \A j \in 0..(n-1) : Stays(j) <=> j \in K
  BY <1>0, <1>1 DEF Standing
<1>6. ASSUME NEW j \in Nat
      PROVE  From(j) = NextKept(c, K, n, j)
  <2>1. {i \in j..(N-1) : Stays(i)} = {i \in j..(n-1) : i \in K}
    <3> HIDE DEF Stays
    <3>1. \A i \in j..(n-1) : Stays(i) <=> i \in K
      BY <1>5, <1>1
    <3> QED  BY <1>1, <3>1
  <2>2. PICK T : T = {i \in j..(n-1) : i \in K}
    OBVIOUS
  <2>3. (\E i \in j..(N-1) : Stays(i)) <=> T # {}
    <3> HIDE DEF Stays
    <3> QED  BY <2>1, <2>2
  <2>4. T # {} => w[Least(T)] = c[Least(T)]
    <3> SUFFICES ASSUME T # {}
                 PROVE  w[Least(T)] = c[Least(T)]
      OBVIOUS
    <3>1. T \subseteq Nat
      BY <2>2
    <3>2. Least(T) \in T
      BY <3>1, LeastElement
    <3>3. Least(T) \in 0..(n-1)
      BY <2>2, <3>2
    <3> QED  BY <1>1, <3>3
  <2>5. From(j) = IF T # {} THEN w[Least(T)] ELSE NULL
    <3> HIDE DEF Stays
    <3> QED  BY <2>1, <2>2, <2>3
  <2>6. NextKept(c, K, n, j) = IF T # {} THEN c[Least(T)] ELSE NULL
    BY <2>2 DEF NextKept
  <2> QED  BY <2>4, <2>5, <2>6
<1>7. \A j \in 0..(n-1) : At(c[j]) = j
  <2> SUFFICES ASSUME NEW j \in 0..(n-1)
               PROVE  At(c[j]) = j
    OBVIOUS
  <2>1. \A i \in 0..(N-1) : w[i] = c[j] <=> i = j
    BY <1>1, <1>2
  <2>2. j \in 0..(N-1)
    BY <1>1
  <2> QED  BY <2>1, <2>2
<1>8. \A p \in DOMAIN b.mem : M[p] = IF p \in chain /\ Stays(At(p))
                                     THEN [b.mem[p] EXCEPT !.next = From(At(p) + 1)] ELSE b.mem[p]
  <2>1. \A p \in DOMAIN b.mem : M[p] = V(p)
    <3> HIDE DEF V
    <3> QED  OBVIOUS
  <2> HIDE DEF M
  <2> QED  BY <2>1
<1>9. DOMAIN M = DOMAIN b.mem
  OBVIOUS
<1> HIDE DEF M, V, nxt, lst, From, At, Stays
<1>10. PICK MM : MM = M
  OBVIOUS
<1>11. PICK f0 : f0 = From(0)
  OBVIOUS
<1>12. PICK nx : nx = nxt
  OBVIOUS
<1>13. PICK ls : ls = lst
  OBVIOUS
<1>14. r = [mem |-> MM, oldest |-> f0, last |-> ls, next |-> nx, count |-> b.count,
            overflow |-> b.overflow]
  <2>1. r = [b EXCEPT !.mem = MM, !.oldest = f0, !.next = nx, !.last = ls]
    BY <1>4, <1>10, <1>11, <1>12, <1>13
  <2>2. b = [mem |-> b.mem, oldest |-> b.oldest, last |-> b.last, next |-> b.next,
             count |-> b.count, overflow |-> b.overflow]
    BY DEF IsBuffer
  <2> QED  BY <2>1, <2>2
<1>15. r.mem = MM /\ r.oldest = f0 /\ r.last = ls /\ r.next = nx /\ r.count = b.count
       /\ r.overflow = b.overflow
  BY <1>14
<1>16. ASSUME NEW p \in DOMAIN b.mem
       PROVE  /\ IsEntry(MM[p])
              /\ MM[p].id = b.mem[p].id /\ MM[p].len = b.mem[p].len /\ MM[p].kind = b.mem[p].kind
              /\ p \in chain /\ Stays(At(p)) => MM[p].next = From(At(p) + 1)
  <2>1. b.mem[p] = [id |-> b.mem[p].id, len |-> b.mem[p].len, kind |-> b.mem[p].kind,
                    members |-> b.mem[p].members, next |-> b.mem[p].next]
    BY DEF IsBuffer, IsEntry
  <2>2. CASE p \in chain /\ Stays(At(p))
    <3>1. PICK x : x = From(At(p) + 1)
      OBVIOUS
    <3>2. MM[p] = [b.mem[p] EXCEPT !.next = x]
      BY <1>8, <1>10, <2>2, <3>1
    <3>3. MM[p] = [id |-> b.mem[p].id, len |-> b.mem[p].len, kind |-> b.mem[p].kind,
                   members |-> b.mem[p].members, next |-> x]
      BY <2>1, <3>2
    <3> QED  BY <3>1, <3>3 DEF IsEntry
  <2>3. CASE ~(p \in chain /\ Stays(At(p)))
    <3>1. MM[p] = b.mem[p]
      BY <1>8, <1>10, <2>3
    <3> QED  BY <2>1, <2>3, <3>1 DEF IsEntry
  <2> QED  BY <2>2, <2>3
<1>17. ASSUME NEW j \in K
       PROVE  MM[c[j]].next = NextKept(c, K, n, j + 1)
  <2>1. j \in 0..(n-1) /\ j + 1 \in Nat
    BY <1>5
  <2>2. c[j] \in DOMAIN b.mem /\ c[j] \in chain /\ At(c[j]) = j /\ Stays(j)
    BY <1>1, <1>3, <1>5, <1>7, <2>1
  <2>3. MM[c[j]].next = From(j + 1)
    BY <1>16, <2>2
  <2> QED  BY <1>6, <2>1, <2>3
<1>18. f0 = NextKept(c, K, n, 0)
  BY <1>6, <1>11
<1>19. ASSUME NEW j \in 0..(n-1), b.next = c[j]
       PROVE  nx = NextKept(c, K, n, j)
  <2>1. b.next \in chain
    BY <1>1, <1>19
  <2>2. nx = From(j)
    BY <1>7, <1>12, <1>19, <2>1 DEF nxt
  <2> QED  BY <1>6, <2>2
<1>20. b.next = NULL => nx = NULL
  <2>1. NULL \notin chain
    BY <1>1, <1>3 DEF IsBuffer, NULL
  <2> QED  BY <1>12, <2>1 DEF nxt
<1>21. ls = IF f0 = NULL THEN NULL ELSE b.last
  BY <1>11, <1>13 DEF lst
<1>22. IsBuffer(r)
  <2>1. r = [mem |-> r.mem, oldest |-> r.oldest, last |-> r.last, next |-> r.next,
             count |-> r.count, overflow |-> r.overflow]
    BY <1>14
  <2>2. DOMAIN MM = DOMAIN b.mem
    BY <1>9, <1>10
  <2>3. DOMAIN r.mem \subseteq Nat /\ \A p \in DOMAIN r.mem : IsEntry(r.mem[p])
    BY <1>15, <1>16, <2>2 DEF IsBuffer
  <2> QED  BY <2>1, <2>3 DEF IsBuffer
<1>23. DOMAIN r.mem = DOMAIN b.mem
  BY <1>9, <1>10, <1>15
<1> QED  BY <1>0, <1>15, <1>16, <1>17, <1>18, <1>19, <1>20, <1>21, <1>22, <1>23 DEF r

(* What removing the earlier interrogations leaves: nothing, or part of    *)
(* the entries, and the last pointer where it was.                         *)
LEMMA RemoveGIHolds ==
  ASSUME NEW b, NEW c, NEW len, NEW n, NEW L, NEW m, Holds(b, c, len, n, L, m), IsBuffer(b)
  PROVE  /\ IsBuffer(RemoveGI(b))
         /\ \/ Empty(RemoveGI(b))
            \/ \E d, e, k, l, w : Holds(RemoveGI(b), d, e, k, l, w) /\ k <= n
<1>0. PICK K : K = Standing(b, c, n)
  OBVIOUS
<1>0a. K = {j \in 0..(n-1) : b.mem[c[j]].kind # "gi"}
  BY <1>0 DEF Standing
<1>1. /\ n \in Nat /\ n > 0 /\ L \in Nat /\ (L = n - 1 \/ L = n)
      /\ Placed(c, len, L, m) /\ b.last = c[L]
      /\ \A i \in 0..L : c[i] \in DOMAIN b.mem /\ b.mem[c[i]].len = len[i]
  <2>1. Placed(c, len, L, m)
    BY DEF Holds
  <2>2. L \in Nat
    BY <2>1 DEF Placed
  <2> QED  BY <2>1, <2>2 DEF Holds
<1>2. PICK r : r = RemoveGI(b)
  OBVIOUS
<1>3. /\ IsBuffer(r)
      /\ DOMAIN r.mem = DOMAIN b.mem
      /\ \A p \in DOMAIN b.mem : r.mem[p].len = b.mem[p].len
      /\ \A j \in K : r.mem[c[j]].next = NextKept(c, K, n, j + 1)
      /\ r.oldest = NextKept(c, K, n, 0)
      /\ r.last = IF r.oldest = NULL THEN NULL ELSE b.last
  BY <1>0, <1>2, RemoveGIFields
<1>4a. PICK l \in 0..n : \E g : Enumerates(g, l, K, n)
  <2>1. K \in SUBSET (0..(n-1))
    BY <1>0a
  <2> QED  BY <1>1, <2>1, Enumeration
<1>4. PICK g : Enumerates(g, l, K, n)
  BY <1>4a
<1>4b. l \in Nat /\ l <= n
  BY <1>1
<1>5. /\ \A i \in 0..(l-1) : g[i] \in 0..(n-1) /\ g[i] \in 0..L /\ g[i] \in Nat /\ g[i] \in K
      /\ \A i, j \in 0..(l-1) : i < j => g[i] < g[j]
      /\ g \in [0..(l-1) -> 0..L]
  <2>1. 0..(n-1) \subseteq 0..L /\ 0..(n-1) \subseteq Nat
    BY <1>1
  <2> QED  BY <1>4, <2>1 DEF Enumerates
<1>6. /\ NextKept(c, K, n, 0) = IF l = 0 THEN NULL ELSE c[g[0]]
      /\ \A i \in 0..(l-1) :
           NextKept(c, K, n, g[i] + 1) = IF i = l - 1 THEN NULL ELSE c[g[i+1]]
  BY <1>1, <1>4, <1>4b, NextKeptIs
<1>7. \A i \in 0..L : c[i] \in Nat /\ c[i] # NULL
  <2>1. c \in [0..L -> Nat]
    BY <1>1 DEF Placed
  <2> QED  BY <2>1 DEF NULL
<1>8. CASE l = 0
  BY <1>2, <1>3, <1>6, <1>8 DEF Empty
<1>9. CASE l # 0
  <2>0. 0 \in 0..(l-1) /\ l - 1 \in 0..(l-1) /\ l - 1 \in Nat
    BY <1>4b, <1>9
  <2>1. r.oldest = c[g[0]] /\ r.oldest # NULL /\ r.last = c[L]
    BY <1>1, <1>3, <1>5, <1>6, <1>7, <1>9, <2>0
  <2>2. PICK z \in Nat : z = IF g[l-1] = L THEN l - 1 ELSE l
    BY <2>0
  <2>3. PICK h : h = [i \in 0..z |-> IF i < l THEN g[i] ELSE L]
    OBVIOUS
  <2>4. /\ \A i \in 0..(l-1) : i \in 0..z /\ h[i] = g[i]
        /\ h[z] = L /\ z \in 0..z /\ l \in {z, z + 1} /\ 0 \in 0..z
        /\ \A i \in 0..z : i \in 0..(l-1) \/ (i = z /\ z = l /\ g[l-1] # L)
    BY <2>0, <2>2, <2>3
  <2>5. h \in [0..z -> 0..L]
    <3>1. L \in 0..L
      BY <1>1
    <3>2. \A i \in 0..z : h[i] \in 0..L
      BY <1>5, <2>4, <3>1
    <3> QED  BY <2>3, <3>2
  <2>6. ASSUME NEW i \in 0..z, NEW j \in 0..z, i < j
        PROVE  h[i] < h[j]
    <3>1. CASE j \in 0..(l-1)
      <4>1. i \in 0..(l-1)
        BY <2>0, <2>4, <2>6, <3>1
      <4> QED  BY <1>5, <2>4, <2>6, <3>1, <4>1
    <3>2. CASE j = z /\ z = l /\ g[l-1] # L
      <4>1. i \in 0..(l-1)
        BY <2>0, <2>6, <3>2
      <4>2. g[l-1] < L
        BY <1>1, <1>5, <2>0, <3>2
      <4>3. g[i] <= g[l-1]
        <5>1. CASE i = l - 1
          BY <1>5, <2>0, <5>1
        <5>2. CASE i # l - 1
          <6>1. i < l - 1
            BY <4>1, <5>2
          <6> QED  BY <1>5, <2>0, <4>1, <6>1
        <5> QED  BY <5>1, <5>2
      <4>4. h[i] = g[i] /\ h[j] = L
        BY <2>4, <3>2, <4>1
      <4> QED  BY <1>1, <1>5, <2>0, <4>1, <4>2, <4>3, <4>4
    <3> QED  BY <2>4, <3>1, <3>2
  <2>7. PICK w : Placed(Picked(c, h, z), Picked(len, h, z), z, w)
    <3>1. Selects(h, z, L)
      BY <1>1, <2>5, <2>6 DEF Selects
    <3> QED  BY <1>1, <3>1, PlacedPart
  <2>8. PICK d, e : d = Picked(c, h, z) /\ e = Picked(len, h, z)
    OBVIOUS
  <2>9. /\ \A i \in 0..z : d[i] = c[h[i]] /\ e[i] = len[h[i]] /\ h[i] \in 0..L
        /\ \A i \in 0..(l-1) : d[i] = c[g[i]]
    BY <2>4, <2>5, <2>8 DEF Picked
  <2>10. \A i \in 0..z : d[i] \in DOMAIN r.mem /\ r.mem[d[i]].len = e[i]
    BY <1>1, <1>3, <2>9
  <2>11. Links(r, d, l)
    <3>1. NULL \notin DOMAIN r.mem
      BY <1>3 DEF IsBuffer, NULL
    <3>2. r.oldest = IF l = 0 THEN NULL ELSE d[0]
      BY <1>9, <2>0, <2>1, <2>9
    <3>3. ASSUME NEW k \in 0..(l-1)
          PROVE  /\ d[k] \in DOMAIN r.mem
                 /\ r.mem[d[k]].next = IF k = l - 1 THEN NULL ELSE d[k+1]
      <4>1. d[k] \in DOMAIN r.mem /\ d[k] = c[g[k]]
        BY <2>4, <2>9, <2>10
      <4>2. r.mem[d[k]].next = NextKept(c, K, n, g[k] + 1)
        BY <1>3, <1>5, <4>1
      <4>3. k # l - 1 => k + 1 \in 0..(l-1)
        OBVIOUS
      <4>4. k # l - 1 => d[k+1] = c[g[k+1]]
        BY <2>9, <4>3
      <4> QED  BY <1>6, <4>1, <4>2, <4>4
    <3> QED  BY <3>1, <3>2, <3>3 DEF Links
  <2>12. Holds(r, d, e, l, z, w)
    <3>1. l \in Nat \ {0} /\ z \in {l - 1, l}
      BY <1>4b, <1>9, <2>2
    <3>2. r.last = d[z]
      BY <2>1, <2>4, <2>9
    <3> QED  BY <2>7, <2>8, <2>10, <2>11, <3>1, <3>2 DEF Holds
  <2> QED  BY <1>2, <1>3, <1>4b, <2>12
<1> QED  BY <1>8, <1>9

(* Without earlier interrogations everything stays as it was. *)
LEMMA RemoveNoGI ==
  ASSUME NEW b, NEW c, NEW len, NEW n, NEW L, NEW m, Holds(b, c, len, n, L, m), IsBuffer(b),
         \A k \in 0..(n-1) : b.mem[c[k]].kind # "gi",
         b.next = NULL \/ \E k \in 0..(n-1) : b.next = c[k]
  PROVE  LET r == RemoveGI(b)
         IN  /\ Holds(r, c, len, n, L, m) /\ IsBuffer(r)
             /\ r.next = b.next /\ r.count = b.count /\ r.overflow = b.overflow
             /\ r.oldest = b.oldest /\ r.last = b.last
             /\ \A k \in 0..(n-1) : /\ r.mem[c[k]].id = b.mem[c[k]].id
                                    /\ r.mem[c[k]].kind = b.mem[c[k]].kind
<1>0. PICK K : K = Standing(b, c, n)
  OBVIOUS
<1>0a. K = {j \in 0..(n-1) : b.mem[c[j]].kind # "gi"}
  BY <1>0 DEF Standing
<1>1. /\ n \in Nat /\ n > 0 /\ L \in Nat /\ (L = n - 1 \/ L = n)
      /\ Placed(c, len, L, m) /\ b.last = c[L] /\ Links(b, c, n)
      /\ \A i \in 0..L : c[i] \in DOMAIN b.mem /\ b.mem[c[i]].len = len[i]
  <2>1. Placed(c, len, L, m)
    BY DEF Holds
  <2>2. L \in Nat
    BY <2>1 DEF Placed
  <2> QED  BY <2>1, <2>2 DEF Holds
<1>2. PICK r : r = RemoveGI(b)
  OBVIOUS
<1>3. /\ IsBuffer(r)
      /\ DOMAIN r.mem = DOMAIN b.mem
      /\ \A p \in DOMAIN b.mem : /\ r.mem[p].id = b.mem[p].id
                                 /\ r.mem[p].len = b.mem[p].len
                                 /\ r.mem[p].kind = b.mem[p].kind
      /\ \A j \in K : r.mem[c[j]].next = NextKept(c, K, n, j + 1)
      /\ r.oldest = NextKept(c, K, n, 0)
      /\ r.last = IF r.oldest = NULL THEN NULL ELSE b.last
      /\ \A j \in 0..(n-1) : b.next = c[j] => r.next = NextKept(c, K, n, j)
      /\ b.next = NULL => r.next = NULL
      /\ r.count = b.count /\ r.overflow = b.overflow
  BY <1>0, <1>2, RemoveGIFields
<1>4. PICK g : g = [i \in 0..(n-1) |-> i]
  OBVIOUS
<1>5. Enumerates(g, n, K, n)
  <2>1. K = 0..(n-1)
    BY <1>0a
  <2>2. \A i \in 0..(n-1) : g[i] = i
    BY <1>4
  <2>3. {g[i] : i \in 0..(n-1)} = 0..(n-1)
    BY <2>2
  <2>4. \A i, j \in 0..(n-1) : i < j => g[i] < g[j]
    BY <2>2
  <2> QED  BY <1>4, <2>1, <2>3, <2>4 DEF Enumerates
<1>6. /\ NextKept(c, K, n, 0) = IF n = 0 THEN NULL ELSE c[g[0]]
      /\ \A i \in 0..(n-1) :
           /\ NextKept(c, K, n, g[i]) = c[g[i]]
           /\ NextKept(c, K, n, g[i] + 1) = IF i = n - 1 THEN NULL ELSE c[g[i+1]]
  <2>1. n \in Nat
    BY <1>1
  <2>2. NextKept(c, K, n, 0) = IF n = 0 THEN NULL ELSE c[g[0]]
    BY <1>5, <2>1, NextKeptIs
  <2>3. \A i \in 0..(n-1) :
           /\ NextKept(c, K, n, g[i]) = c[g[i]]
           /\ NextKept(c, K, n, g[i] + 1) = IF i = n - 1 THEN NULL ELSE c[g[i+1]]
    BY <1>5, <2>1, <2>2, NextKeptIs
  <2> QED  BY <2>2, <2>3
<1>7. \A i \in 0..(n-1) : /\ NextKept(c, K, n, i) = c[i]
                          /\ NextKept(c, K, n, i + 1) = IF i = n - 1 THEN NULL ELSE c[i+1]
  <2> SUFFICES ASSUME NEW i \in 0..(n-1)
               PROVE  /\ NextKept(c, K, n, i) = c[i]
                      /\ NextKept(c, K, n, i + 1) = IF i = n - 1 THEN NULL ELSE c[i+1]
    OBVIOUS
  <2>1. g[i] = i /\ (i # n - 1 => g[i+1] = i + 1)
    BY <1>1, <1>4
  <2> QED  BY <1>6, <2>1
<1>8. NextKept(c, K, n, 0) = c[0] /\ b.oldest = c[0] /\ c[0] # NULL
  <2>1. 0 \in 0..(n-1) /\ 0 \in 0..L
    BY <1>1
  <2>2. c[0] # NULL
    <3>1. c \in [0..L -> Nat]
      BY <1>1 DEF Placed
    <3> QED  BY <2>1, <3>1 DEF NULL
  <2> QED  BY <1>1, <1>7, <2>1, <2>2 DEF Links
<1>9. r.oldest = b.oldest /\ r.last = b.last
  BY <1>3, <1>8
<1>10. \A k \in 0..(n-1) : k \in K /\ k \in 0..L /\ c[k] \in DOMAIN b.mem
  BY <1>0a, <1>1
<1>11. Links(r, c, n)
  <2>1. NULL \notin DOMAIN r.mem /\ r.oldest = IF n = 0 THEN NULL ELSE c[0]
    BY <1>1, <1>3, <1>9 DEF Links
  <2>2. \A k \in 0..(n-1) : c[k] \in DOMAIN r.mem
                            /\ r.mem[c[k]].next = IF k = n - 1 THEN NULL ELSE c[k+1]
    BY <1>3, <1>7, <1>10
  <2> QED  BY <2>1, <2>2 DEF Links
<1>12. Holds(r, c, len, n, L, m)
  <2>1. \A k \in 0..L : c[k] \in DOMAIN r.mem /\ r.mem[c[k]].len = len[k]
    BY <1>1, <1>3
  <2>2. n \in Nat \ {0} /\ L \in {n - 1, n} /\ r.last = c[L]
    BY <1>1, <1>9
  <2>3. Placed(c, len, L, m)
    BY <1>1
  <2> QED  BY <1>11, <2>1, <2>2, <2>3 DEF Holds
<1>13. r.next = b.next
  <2>1. CASE b.next = NULL
    BY <1>3, <2>1
  <2>2. ASSUME NEW k \in 0..(n-1), b.next = c[k]
        PROVE  r.next = b.next
    BY <1>3, <1>7, <2>2
  <2> QED  BY <2>1, <2>2
<1> QED  BY <1>2, <1>3, <1>9, <1>10, <1>12, <1>13

-----------------------------------------------------------------------------
(* BufferApart, in every behaviour.                                        *)

(* A buffer that the links make sense of, whatever they leave behind.      *)
ValidBuffer(b) ==
  /\ IsBuffer(b)
  /\ Empty(b) \/ \E c, len, n, L, m : Holds(b, c, len, n, L, m)

(* Nothing can be reached in a buffer without entries.                     *)
LEMMA EmptyChain ==
  ASSUME NEW b, IsBuffer(b), Empty(b)
  PROVE  Chain(b) = {} /\ Length(b) = 0 /\ \A k \in 0..Block : Walk(b)[k] = NULL
<1> DEFINE c == [k \in {} |-> 0]
<1>1. 0 \in 0..(Block + 1) /\ 0..(0-1) = {}
  BY BlockAssumption
<1>2. Links(b, c, 0)
  BY <1>1 DEF Links, IsBuffer, Empty, NULL
<1> HIDE DEF c
<1>3. Chain(b) = {c[k] : k \in 0..(0-1)} /\ Length(b) = 0
  BY <1>1, <1>2, ChainIs
<1>4. \A k \in 0..Block : Walk(b)[k] = IF k < 0 THEN c[k] ELSE NULL
  BY <1>2, WalkIs
<1> QED  BY <1>1, <1>3, <1>4, BlockAssumption

(* In a valid buffer the entries lie apart.                                *)
LEMMA ValidApart ==
  ASSUME NEW b, ValidBuffer(b)
  PROVE  EntriesApart(b)
<1>1. CASE Empty(b)
  BY <1>1, EmptyChain DEF ValidBuffer, EntriesApart
<1>2. ASSUME NEW c, NEW len, NEW n, NEW L, NEW m, Holds(b, c, len, n, L, m)
      PROVE  EntriesApart(b)
  <2>1. /\ n \in Nat /\ L \in Nat /\ (L = n - 1 \/ L = n) /\ Block \in Nat
        /\ Placed(c, len, L, m)
        /\ \A i \in 0..L : b.mem[c[i]].len = len[i]
    <3>1. Placed(c, len, L, m)
      BY <1>2 DEF Holds
    <3>2. L \in Nat
      BY <3>1 DEF Placed
    <3> QED  BY <1>2, <3>1, <3>2, BlockAssumption DEF Holds
  <2>2. \A i \in 0..L : c[i] \in Nat /\ len[i] \in Nat /\ len[i] > 0 /\ c[i] + len[i] <= Block
    BY <2>1 DEF Placed
  <2>3. Chain(b) = {c[k] : k \in 0..(n-1)}
    BY <1>2, ChainOf
  <2>4. ASSUME NEW i \in 0..L
        PROVE  Extent(b, c[i]) = c[i]..(c[i] + len[i] - 1) /\ Extent(b, c[i]) \subseteq Positions
    <3>1. Extent(b, c[i]) = c[i]..(c[i] + len[i] - 1)
      BY <2>1 DEF Extent
    <3>2. c[i]..(c[i] + len[i] - 1) \subseteq 0..(Block - 1)
      BY <2>1, <2>2
    <3> QED  BY <3>1, <3>2 DEF Positions
  <2>5. ASSUME NEW i \in 0..L, NEW j \in 0..L, c[i] # c[j]
        PROVE  Extent(b, c[i]) \cap Extent(b, c[j]) = {}
    <3>1. c[i] + len[i] <= c[j] \/ c[j] + len[j] <= c[i]
      <4>1. i < j \/ j < i
        BY <2>1, <2>5
      <4>2. i < j => c[i] + len[i] <= c[j] \/ c[j] + len[j] <= c[i]
        BY <2>1, PlacedApart
      <4>3. j < i => c[j] + len[j] <= c[i] \/ c[i] + len[i] <= c[j]
        BY <2>1, PlacedApart
      <4> QED  BY <4>1, <4>2, <4>3
    <3>2. (c[i]..(c[i] + len[i] - 1)) \cap (c[j]..(c[j] + len[j] - 1)) = {}
      BY <2>2, <3>1
    <3> QED  BY <2>4, <3>2
  <2>6. ASSUME NEW p \in Chain(b)
        PROVE  /\ Extent(b, p) \subseteq Positions
               /\ \A q \in Chain(b) \ {p} : Extent(b, p) \cap Extent(b, q) = {}
    <3>1. PICK i \in 0..(n-1) : p = c[i]
      BY <2>3
    <3>2. 0..(n-1) \subseteq 0..L
      BY <2>1
    <3>3. ASSUME NEW q \in Chain(b), q # p
          PROVE  Extent(b, p) \cap Extent(b, q) = {}
      <4>1. PICK j \in 0..(n-1) : q = c[j]
        BY <2>3
      <4> QED  BY <2>5, <3>1, <3>2, <3>3, <4>1
    <3> QED  BY <2>4, <3>1, <3>2, <3>3
  <2> QED  BY <2>6 DEF EntriesApart
<1> QED  BY <1>1, <1>2 DEF ValidBuffer

(* Storing a report keeps a buffer valid.                                  *)
LEMMA StoreValid ==
  ASSUME NEW b, ValidBuffer(b),
         NEW entry, IsEntry(entry), entry.len \in 1..Block, entry.next = NULL
  PROVE  ValidBuffer(Store(b, entry))
<1>1. CASE Empty(b)
  BY <1>1, StoreFirst DEF ValidBuffer
<1>2. ASSUME NEW c, NEW len, NEW n, NEW L, NEW m, Holds(b, c, len, n, L, m)
      PROVE  ValidBuffer(Store(b, entry))
  <2> DEFINE pos == Position(b, entry.len)
             k   == Dropped(b, entry.len)
             d   == Remaining(c, n, k, pos)
             e   == Remaining(len, n, k, entry.len)
             nn  == IF L = n - 1 \/ k = n THEN n - k + 1 ELSE n - k
  <2>1. (\E w : Holds(Store(b, entry), d, e, nn, n - k, w)) /\ IsBuffer(Store(b, entry))
    BY <1>2, StoreHolds DEF ValidBuffer
  <2> HIDE DEF d, e, nn, k
  <2> QED  BY <2>1 DEF ValidBuffer
<1> QED  BY <1>1, <1>2 DEF ValidBuffer

(* So does removing interrogations where there are entries.                *)
LEMMA RemoveGIValid ==
  ASSUME NEW b, ValidBuffer(b)
  PROVE  ValidBuffer(RemoveGI(b)) \/ Empty(b)
<1>1. ASSUME NEW c, NEW len, NEW n, NEW L, NEW m, Holds(b, c, len, n, L, m)
      PROVE  ValidBuffer(RemoveGI(b))
  BY <1>1, RemoveGIHolds DEF ValidBuffer
<1> QED  BY <1>1 DEF ValidBuffer

(* Other pointers for the transmission leave the entries alone. *)
LEMMA SameEntries ==
  ASSUME NEW b, NEW nx, NEW ov, IsBuffer(b)
  PROVE  LET s == [b EXCEPT !.next = nx, !.overflow = ov]
         IN  /\ IsBuffer(s)
             /\ s = [mem |-> b.mem, oldest |-> b.oldest, last |-> b.last, next |-> nx,
                     count |-> b.count, overflow |-> ov]
             /\ Empty(b) => Empty(s)
             /\ \A c, len, n, L, m : Holds(b, c, len, n, L, m) => Holds(s, c, len, n, L, m)
<1> DEFINE s == [b EXCEPT !.next = nx, !.overflow = ov]
<1>1. s = [mem |-> b.mem, oldest |-> b.oldest, last |-> b.last, next |-> nx,
           count |-> b.count, overflow |-> ov]
  <2>1. PICK M, o, l, x, y, z : M = b.mem /\ o = b.oldest /\ l = b.last /\ x = b.next
                                /\ y = b.count /\ z = b.overflow
    OBVIOUS
  <2>2. b = [mem |-> M, oldest |-> o, last |-> l, next |-> x, count |-> y, overflow |-> z]
    BY <2>1 DEF IsBuffer
  <2>3. PICK t : t = s
    OBVIOUS
  <2>4. t = [mem |-> M, oldest |-> o, last |-> l, next |-> nx, count |-> y, overflow |-> ov]
    BY <2>2, <2>3
  <2> QED  BY <2>1, <2>3, <2>4
<1> HIDE DEF s
<1>2. s.mem = b.mem /\ s.oldest = b.oldest /\ s.last = b.last /\ s.next = nx
      /\ s.count = b.count /\ s.overflow = ov
  BY <1>1
<1>3. IsBuffer(s)
  BY <1>1, <1>2 DEF IsBuffer
<1>4. Empty(b) => Empty(s)
  BY <1>2 DEF Empty
<1>5. ASSUME NEW c, NEW len, NEW n, NEW L, NEW m, Holds(b, c, len, n, L, m)
      PROVE  Holds(s, c, len, n, L, m)
  <2>1. Links(s, c, n)
    BY <1>2, <1>5 DEF Holds, Links
  <2> QED  BY <1>2, <1>5, <2>1 DEF Holds
<1> QED  BY <1>1, <1>3, <1>4, <1>5 DEF s

(* The values of a set of members take a natural number of units: the      *)
(* recursive equation of Sum has a solution, and every one counts.         *)
LEMMA SumNat ==
  ASSUME NEW U \in SUBSET Members
  PROVE  Sum(U) \in Nat
<1> DEFINE i(T) == CHOOSE x \in T : TRUE
           Eq(s, T) == s[T] = IF T = {} THEN 0 ELSE ValueSize[i(T)] + s[T \ {i(T)}]
           Small(k) == {T \in SUBSET U : Cardinality(T) <= k}
           N == Cardinality(U)
<1>1. IsFiniteSet(U) /\ N \in Nat
  <2>1. IsFiniteSet(U)
    BY ReportAssumption, FS_Subset
  <2> QED  BY <2>1, FS_CardinalityType
<1>2. ASSUME NEW T \in SUBSET U
      PROVE  /\ IsFiniteSet(T) /\ Cardinality(T) \in Nat /\ Cardinality(T) <= N
             /\ T # {} => /\ i(T) \in T /\ T \ {i(T)} \in SUBSET U
                          /\ Cardinality(T \ {i(T)}) = Cardinality(T) - 1
                          /\ ValueSize[i(T)] \in Nat
             /\ Cardinality(T) = 0 <=> T = {}
  <2>1. IsFiniteSet(T) /\ Cardinality(T) <= N
    BY <1>1, FS_Subset
  <2>2. Cardinality(T) \in Nat
    BY <2>1, FS_CardinalityType
  <2>3. T # {} => i(T) \in T
    OBVIOUS
  <2> HIDE DEF i
  <2>4. T # {} => Cardinality(T \ {i(T)}) = Cardinality(T) - 1
    BY <2>1, <2>3, FS_RemoveElement
  <2>5. T # {} => ValueSize[i(T)] \in Nat
    BY <2>3, ReportAssumption
  <2>6. Cardinality(T) = 0 <=> T = {}
    BY <2>1, FS_EmptySet
  <2> QED  BY <2>1, <2>2, <2>3, <2>4, <2>5, <2>6
<1> HIDE DEF N
<1> DEFINE S == {k \in Nat : \E f \in [Small(k) -> Nat] : \A T \in Small(k) : Eq(f, T)}
<1>3. 0 \in S
  <2>1. PICK f : f = [T \in Small(0) |-> 0]
    OBVIOUS
  <2>2. ASSUME NEW T \in Small(0)
        PROVE  T = {}
    <3>1. T \in SUBSET U /\ Cardinality(T) <= 0 /\ Cardinality(T) \in Nat
      BY <1>2
    <3>2. Cardinality(T) = 0
      BY <3>1
    <3> HIDE DEF i
    <3> QED  BY <1>2, <3>1, <3>2
  <2>3. f \in [Small(0) -> Nat] /\ \A T \in Small(0) : Eq(f, T)
    BY <2>1, <2>2
  <2> QED  BY <2>3
<1>4. ASSUME NEW k \in Nat, k \in S
      PROVE  k + 1 \in S
  <2>1. PICK f \in [Small(k) -> Nat] : \A T \in Small(k) : Eq(f, T)
    BY <1>4
  <2>2. PICK g : g = [T \in Small(k + 1) |->
                        IF T \in Small(k) THEN f[T] ELSE ValueSize[i(T)] + f[T \ {i(T)}]]
    OBVIOUS
  <2>3. ASSUME NEW T \in Small(k + 1), T # {}
        PROVE  T \ {i(T)} \in Small(k) /\ T \ {i(T)} \in Small(k + 1) /\ ValueSize[i(T)] \in Nat
    <3>1. /\ Cardinality(T) \in Nat /\ Cardinality(T) <= k + 1
          /\ T \ {i(T)} \in SUBSET U /\ Cardinality(T \ {i(T)}) = Cardinality(T) - 1
          /\ ValueSize[i(T)] \in Nat
      BY <1>2, <2>3
    <3> HIDE DEF i
    <3> QED  BY <3>1
  <2>4. \A T \in Small(k) : T \in Small(k + 1) /\ f[T] \in Nat
    <3>1. \A T \in Small(k) : T \in SUBSET U /\ Cardinality(T) \in Nat /\ Cardinality(T) <= k
      BY <1>2
    <3> QED  BY <2>1, <3>1
  <2>5. {} \in Small(k) /\ {} \in Small(k + 1)
    <3>1. {} \in SUBSET U /\ Cardinality({}) = 0
      BY FS_EmptySet
    <3> QED  BY <3>1
  <2>6. ASSUME NEW T \in Small(k + 1)
        PROVE  g[T] \in Nat /\ Eq(g, T)
    <3>1. CASE T \in Small(k)
      <4>1. g[T] = f[T]
        BY <2>2, <3>1
      <4>2. T # {} => g[T \ {i(T)}] = f[T \ {i(T)}]
        <5> HIDE DEF i, Small
        <5> QED  BY <2>2, <2>3
      <4>3. Eq(f, T)
        BY <2>1, <3>1
      <4> HIDE DEF i, Small
      <4> QED  BY <2>4, <3>1, <4>1, <4>2, <4>3
    <3>2. CASE T \notin Small(k)
      <4> HIDE DEF i, Small
      <4>1. T # {}
        BY <2>5, <3>2
      <4>2. g[T] = ValueSize[i(T)] + f[T \ {i(T)}]
        BY <2>2, <3>2
      <4>3. T \ {i(T)} \in Small(k) /\ g[T \ {i(T)}] = f[T \ {i(T)}]
        BY <2>2, <2>3, <4>1
      <4>4. f[T \ {i(T)}] \in Nat /\ ValueSize[i(T)] \in Nat
        BY <2>3, <2>4, <4>1, <4>3
      <4> QED  BY <4>1, <4>2, <4>3, <4>4
    <3> QED  BY <3>1, <3>2
  <2>7. g \in [Small(k + 1) -> Nat] /\ \A T \in Small(k + 1) : Eq(g, T)
    <3>1. \A T \in Small(k + 1) : g[T] \in Nat
      BY <2>6
    <3>2. g = [T \in Small(k + 1) |-> g[T]]
      <4> HIDE DEF i, Small
      <4> QED  BY <2>2
    <3> HIDE DEF i, Small
    <3> QED  BY <2>6, <3>1, <3>2
  <2>8. k + 1 \in Nat
    OBVIOUS
  <2> HIDE DEF Small, Eq
  <2> QED  BY <2>7, <2>8
<1>5. N \in S
  <2> HIDE DEF S
  <2>1. Nat \subseteq S
    BY <1>3, <1>4, Induction
  <2> QED  BY <1>1, <2>1
<1>6. PICK f \in [Small(N) -> Nat] : \A T \in Small(N) : Eq(f, T)
  BY <1>5
<1>7. Small(N) = SUBSET U
  BY <1>2
<1> DEFINE Step(s) == [T \in SUBSET U |-> IF T = {} THEN 0 ELSE ValueSize[i(T)] + s[T \ {i(T)}]]
           sol == CHOOSE s : s = Step(s)
<1>8. f = Step(f)
  <2> HIDE DEF i, Small
  <2> QED  BY <1>6, <1>7
<1>9. sol = Step(sol)
  <2> HIDE DEF Step
  <2> QED  BY <1>8
<1>10. Sum(U) = sol[U]
  BY DEF Sum
<1> HIDE DEF sol, Small, S
<1>11. \A T \in SUBSET U : Eq(sol, T)
  <2> HIDE DEF i
  <2> QED  BY <1>9
<1> DEFINE V == {k \in Nat : \A T \in SUBSET U : Cardinality(T) = k => sol[T] \in Nat}
<1>12. 0 \in V
  BY <1>2, <1>11
<1>13. ASSUME NEW k \in Nat, k \in V
       PROVE  k + 1 \in V
  <2> SUFFICES ASSUME NEW T \in SUBSET U, Cardinality(T) = k + 1
               PROVE  sol[T] \in Nat
    OBVIOUS
  <2>1. /\ T # {} /\ T \ {i(T)} \in SUBSET U /\ Cardinality(T \ {i(T)}) = (k + 1) - 1
        /\ ValueSize[i(T)] \in Nat
    <3>1. T # {}
      BY <1>2
    <3> QED  BY <1>2, <3>1
  <2> HIDE DEF i
  <2>2. sol[T \ {i(T)}] \in Nat
    <3>1. (k + 1) - 1 = k
      OBVIOUS
    <3> QED  BY <1>13, <2>1, <3>1
  <2>3. sol[T] = ValueSize[i(T)] + sol[T \ {i(T)}]
    BY <1>11, <2>1
  <2> QED  BY <2>1, <2>2, <2>3
<1>14. Nat \subseteq V
  <2> HIDE DEF V
  <2> QED  BY <1>12, <1>13, Induction
<1>15. sol[U] \in Nat
  <2>1. Cardinality(U) \in Nat /\ U \in SUBSET U
    BY <1>2
  <2> QED  BY <1>14, <2>1
<1> QED  BY <1>10, <1>15

(* What the steps do to the buffer: whoever makes reports has the mutex    *)
(* and is not about to transmit, whoever writes attributes finds it free.  *)
Enqueues ==
  /\ Processing
  /\ \E kind : \E S \in SUBSET Members : EnqueueReport(kind, S) /\ (kind = "gi" => ReportGI)

Transmits == sending /\ Running /\ buf' = Transmitted(buf, TRUE) /\ lastEntryId' = lastEntryId

Rewrites ==
  /\ holder = "free" /\ lastEntryId' = lastEntryId
  /\ \/ buf' = Rewind(buf)
     \/ buf' = [buf EXCEPT !.overflow = TRUE]
     \/ buf' = Purge(buf)
     \/ \E id \in Nat : Holding(buf, id) # {} /\ buf' = ResumeAfter(buf, id)

(* Every step is one of these to the buffer, or none. Who is about to      *)
(* transmit has found a report to transmit, and the buffer stays as it is. *)
LEMMA BufferSteps ==
  ASSUME Inv, [Next]_vars
  PROVE  /\ UNCHANGED <<buf, lastEntryId>> \/ Enqueues \/ Transmits \/ Rewrites
         /\ sending' => buf' = buf /\ (sending \/ buf.next # NULL)
<1>0. /\ pend \in SUBSET Members /\ Members \in SUBSET Members
      /\ sending => holder # "free"
      /\ Processing => ~sending
      /\ sending \in BOOLEAN
  BY DEF Inv, Flags, Held, Processing
<1> DEFINE Goal == /\ UNCHANGED <<buf, lastEntryId>> \/ Enqueues \/ Transmits \/ Rewrites
                   /\ sending' => buf' = buf /\ (sending \/ buf.next # NULL)
<1>1. CASE ReportEvent \/ ReportGI \/ ReportIntegrity
  <2>1. Processing /\ sending' = sending
    BY <1>1 DEF ReportEvent, ReportGI, ReportIntegrity
  <2>2. CASE ReportEvent
    <3>1. EnqueueReport("event", pend) /\ "event" # "gi"
      BY <2>2 DEF ReportEvent
    <3> QED  BY <1>0, <2>1, <3>1 DEF Enqueues
  <2>3. CASE ReportGI
    <3>1. EnqueueReport("gi", Members)
      BY <2>3 DEF ReportGI
    <3> QED  BY <1>0, <2>1, <2>3, <3>1 DEF Enqueues
  <2>4. CASE ReportIntegrity
    <3>1. EnqueueReport("integrity", Members) /\ "integrity" # "gi"
      BY <2>4 DEF ReportIntegrity
    <3> QED  BY <1>0, <2>1, <3>1 DEF Enqueues
  <2> QED  BY <1>1, <2>2, <2>3, <2>4
<1>2. CASE CheckEnabled
  BY <1>2 DEF CheckEnabled, ToSend
<1>3. CASE NothingToSend
  BY <1>3 DEF NothingToSend, Unlock
<1>4. CASE SendNextReportEntry
  BY <1>4 DEF SendNextReportEntry, Unlock, Transmits
<1>5. CASE ProcessReportEvents \/ BufferTimeElapses \/ IntegrityPeriodElapses
  BY <1>0, <1>5 DEF ProcessReportEvents, BufferTimeElapses, IntegrityPeriodElapses
<1>6. ASSUME NEW i \in Members, ValueUpdated(i)
      PROVE  Goal
  BY <1>0, <1>6 DEF ValueUpdated
<1>7. ASSUME NEW c \in Clients, Enable(c) \/ Disable(c) \/ WritePurging(c) \/ WriteIntgPd(c)
                                  \/ WriteNoDatSet(c) \/ WriteDatSet(c)
      PROVE  Goal
  BY <1>0, <1>7 DEF Enable, Disable, WritePurging, WriteIntgPd, WriteNoDatSet, WriteDatSet,
                    Writes, Rewrites
<1>8. ASSUME NEW c \in Clients, Interrogate(c) \/ CloseDisables(c) \/ CloseReleases(c)
      PROVE  Goal
  BY <1>0, <1>8 DEF Interrogate, CloseDisables, CloseReleases, Writes
<1>9. ASSUME NEW c \in Clients, NEW id \in 0..MaxReports, WriteEntryID(c, id)
      PROVE  Goal
  <2>1. id \in Nat
    OBVIOUS
  <2> QED  BY <1>0, <1>9, <2>1 DEF WriteEntryID, Writes, Rewrites
<1>10. CASE UNCHANGED vars
  BY <1>0, <1>10 DEF vars
<1> QED  BY <1>1, <1>2, <1>3, <1>4, <1>5, <1>6, <1>7, <1>8, <1>9, <1>10 DEF Next, Working

(* The fields of a new entry.                                              *)
LEMMA EntryIs ==
  ASSUME NEW id, NEW size, NEW kind, NEW members
  PROVE  /\ IsEntry(Entry(id, size, kind, members))
         /\ Entry(id, size, kind, members).id = id
         /\ Entry(id, size, kind, members).len = size
         /\ Entry(id, size, kind, members).kind = kind
         /\ Entry(id, size, kind, members).next = NULL
BY DEF Entry, IsEntry

(* The size of a new entry.                                                *)
LEMMA SizeIs ==
  ASSUME NEW S \in SUBSET Members
  PROVE  EntrySize(S) \in Nat \ {0}
<1>1. Sum(S) \in Nat /\ HeaderSize \in Nat \ {0}
  BY SumNat, ReportAssumption
<1> QED  BY <1>1 DEF EntrySize

(* A report is not stored at all, or behind the entries of a valid buffer. *)
LEMMA EnqueuedIs ==
  ASSUME NEW kind, NEW S \in SUBSET Members, EnqueueReport(kind, S)
  PROVE  LET base  == IF kind = "gi" THEN RemoveGI(buf) ELSE buf
             entry == Entry(lastEntryId + 1, EntrySize(S), kind, S)
         IN  \/ UNCHANGED <<buf, lastEntryId>>
             \/ /\ EntrySize(S) \in 1..Block
                /\ buf' = Store(base, entry) /\ lastEntryId' = lastEntryId + 1
<1> DEFINE base == IF kind = "gi" THEN RemoveGI(buf) ELSE buf
           entry == Entry(lastEntryId + 1, EntrySize(S), kind, S)
<1>1. CASE EntrySize(S) > Block \/ StoreAborts(base)
  <2>1. UNCHANGED <<buf, lastEntryId>>
    BY <1>1 DEF EnqueueReport
  <2> QED  BY <2>1
<1>2. CASE ~(EntrySize(S) > Block) /\ ~StoreAborts(base)
  <2>1. buf' = Store(base, entry) /\ lastEntryId' = lastEntryId + 1
    BY <1>2 DEF EnqueueReport
  <2>2. EntrySize(S) \in 1..Block
    BY <1>2, SizeIs, BlockAssumption
  <2> HIDE DEF base, entry
  <2> QED  BY <2>1, <2>2 DEF base, entry
<1> QED  BY <1>1, <1>2

(* purgeBuf leaves no entry.                                               *)
LEMMA Purged ==
  ASSUME NEW b, IsBuffer(b)
  PROVE  /\ IsBuffer(Purge(b)) /\ Empty(Purge(b))
         /\ Purge(b).next = NULL /\ Purge(b).count = 0 /\ Purge(b).overflow = b.overflow
<1>1. PICK M, o, l, x, y, z : M = b.mem /\ o = b.oldest /\ l = b.last /\ x = b.next
                              /\ y = b.count /\ z = b.overflow
  OBVIOUS
<1>2. b = [mem |-> M, oldest |-> o, last |-> l, next |-> x, count |-> y, overflow |-> z]
  BY <1>1 DEF IsBuffer
<1>3. PICK p : p = Purge(b)
  OBVIOUS
<1>4. PICK e : e = <<>>
  OBVIOUS
<1>5. p = [b EXCEPT !.mem = e, !.oldest = NULL, !.last = NULL, !.next = NULL, !.count = 0]
  BY <1>3, <1>4 DEF Purge
<1>6. p = [mem |-> e, oldest |-> NULL, last |-> NULL, next |-> NULL, count |-> 0,
           overflow |-> z]
  BY <1>2, <1>5
<1>7. DOMAIN e = {}
  BY <1>4
<1>8. /\ p.mem = e /\ p.oldest = NULL /\ p.last = NULL /\ p.next = NULL /\ p.count = 0
      /\ p.overflow = z
  BY <1>6
<1>9. IsBuffer(p)
  BY <1>6, <1>7, <1>8 DEF IsBuffer
<1> QED  BY <1>1, <1>3, <1>8, <1>9 DEF Empty

(* Setting the overflow flag as a change of pointer and flag.              *)
LEMMA OverflowIs ==
  ASSUME NEW b, IsBuffer(b), NEW ov
  PROVE  [b EXCEPT !.overflow = ov] = [b EXCEPT !.next = b.next, !.overflow = ov]
<1>1. PICK M, o, l, x, y, z : M = b.mem /\ o = b.oldest /\ l = b.last /\ x = b.next
                              /\ y = b.count /\ z = b.overflow
  OBVIOUS
<1>2. b = [mem |-> M, oldest |-> o, last |-> l, next |-> x, count |-> y, overflow |-> z]
  BY <1>1 DEF IsBuffer
<1>3. PICK s, t : s = [b EXCEPT !.overflow = ov] /\ t = [b EXCEPT !.next = x, !.overflow = ov]
  OBVIOUS
<1>4. s = [mem |-> M, oldest |-> o, last |-> l, next |-> x, count |-> y, overflow |-> ov]
  BY <1>2, <1>3
<1>5. t = [mem |-> M, oldest |-> o, last |-> l, next |-> x, count |-> y, overflow |-> ov]
  BY <1>2, <1>3
<1> QED  BY <1>1, <1>3, <1>4, <1>5

(* The pointers that transmission and resumption set. *)
LEMMA RewritesNext ==
  ASSUME NEW b, IsBuffer(b)
  PROVE  /\ Transmitted(b, TRUE) = [b EXCEPT !.next = b.mem[b.next].next, !.overflow = FALSE]
         /\ Rewind(b) = [b EXCEPT !.next = b.oldest, !.overflow = TRUE]
         /\ \A id : ResumeAfter(b, id) =
              [b EXCEPT !.next = b.mem[CHOOSE p \in Holding(b, id) : TRUE].next, !.overflow = FALSE]
<1>1. Transmitted(b, TRUE) = [b EXCEPT !.next = b.mem[b.next].next, !.overflow = FALSE]
  <2>1. Transmitted(b, TRUE) = [b EXCEPT !.next = b.mem[b.next].next,
                                         !.overflow = b.overflow /\ ~TRUE]
    BY DEF Transmitted
  <2>2. (b.overflow /\ ~TRUE) = FALSE
    OBVIOUS
  <2> QED  BY <2>1, <2>2
<1> QED  BY <1>1 DEF Rewind, ResumeAfter

(* Nothing is removed from a buffer without entries. *)
LEMMA RemoveGIEmpty ==
  ASSUME NEW b, IsBuffer(b), Empty(b)
  PROVE  LET r == RemoveGI(b)
         IN  /\ IsBuffer(r) /\ Empty(r)
             /\ b.next = NULL => r.next = NULL
             /\ r.count = b.count /\ r.overflow = b.overflow
<1> DEFINE w       == Walk(b)
           N       == Length(b)
           chain   == Chain(b)
           Stays(j) == j < N /\ b.mem[w[j]].kind # "gi"
           From(j) == IF \E i \in j..(N-1) : Stays(i)
                      THEN w[Least({i \in j..(N-1) : Stays(i)})] ELSE NULL
           At(p)   == CHOOSE j \in 0..(N-1) : w[j] = p
           V(p)    == IF p \in chain /\ Stays(At(p))
                      THEN [b.mem[p] EXCEPT !.next = From(At(p) + 1)] ELSE b.mem[p]
           M       == [p \in DOMAIN b.mem |-> V(p)]
           nxt     == IF b.next \in chain THEN From(At(b.next)) ELSE b.next
           lst     == IF From(0) = NULL THEN NULL ELSE b.last
           r       == RemoveGI(b)
<1>1. N = 0 /\ chain = {}
  BY EmptyChain
<1>2. r = [b EXCEPT !.mem = M, !.oldest = From(0), !.next = nxt, !.last = lst]
  BY DEF RemoveGI
<1> HIDE DEF w, N, chain, r
<1>3. From(0) = NULL
  <2>1. \A i \in 0..(N-1) : FALSE
    BY <1>1
  <2> HIDE DEF Stays
  <2> QED  BY <2>1
<1>4. \A p \in DOMAIN b.mem : M[p] = b.mem[p]
  <2>1. \A p \in DOMAIN b.mem : V(p) = b.mem[p]
    BY <1>1
  <2> HIDE DEF V
  <2> QED  BY <2>1
<1>5. DOMAIN M = DOMAIN b.mem
  OBVIOUS
<1>6. lst = NULL /\ (b.next = NULL => nxt = NULL)
  <2> HIDE DEF From
  <2> QED  BY <1>1, <1>3
<1> HIDE DEF M, nxt, lst, From
<1>7. PICK MM, nx : MM = M /\ nx = nxt
  OBVIOUS
<1>8. PICK x, y, M1, o1, l1, n1 : /\ x = b.count /\ y = b.overflow
                                  /\ M1 = b.mem /\ o1 = b.oldest /\ l1 = b.last /\ n1 = b.next
  OBVIOUS
<1>9. r = [mem |-> MM, oldest |-> NULL, last |-> NULL, next |-> nx, count |-> x, overflow |-> y]
  <2>1. r = [b EXCEPT !.mem = MM, !.oldest = NULL, !.next = nx, !.last = NULL]
    BY <1>2, <1>3, <1>6, <1>7
  <2>2. b = [mem |-> M1, oldest |-> o1, last |-> l1, next |-> n1, count |-> x, overflow |-> y]
    BY <1>8 DEF IsBuffer
  <2> HIDE DEF From
  <2>3. PICK t : t = r
    OBVIOUS
  <2>4. t = [mem |-> MM, oldest |-> NULL, last |-> NULL, next |-> nx, count |-> x,
             overflow |-> y]
    BY <2>1, <2>2, <2>3
  <2> QED  BY <2>3, <2>4
<1>10. r.mem = MM /\ r.oldest = NULL /\ r.last = NULL /\ r.next = nx /\ r.count = x
       /\ r.overflow = y
  BY <1>9
<1>11. IsBuffer(r)
  <2>1. r = [mem |-> r.mem, oldest |-> r.oldest, last |-> r.last, next |-> r.next,
             count |-> r.count, overflow |-> r.overflow]
    BY <1>9
  <2>2. DOMAIN r.mem \subseteq Nat /\ \A p \in DOMAIN r.mem : IsEntry(r.mem[p])
    BY <1>4, <1>5, <1>7, <1>10 DEF IsBuffer
  <2> QED  BY <2>1, <2>2 DEF IsBuffer
<1> QED  BY <1>6, <1>7, <1>8, <1>10, <1>11 DEF Empty, r

(* Removing interrogations keeps a buffer valid.                           *)
LEMMA RemovedValid ==
  ASSUME NEW b, ValidBuffer(b)
  PROVE  ValidBuffer(RemoveGI(b))
BY RemoveGIValid, RemoveGIEmpty DEF ValidBuffer

(* Every step keeps the buffer valid.                                      *)
LEMMA NextValid ==
  ASSUME Inv, ValidBuffer(buf), [Next]_vars
  PROVE  ValidBuffer(buf')
<1>1. PICK b : b = buf
  OBVIOUS
<1>2. PICK b2 : b2 = buf'
  OBVIOUS
<1>3. ValidBuffer(b)
  BY <1>1
<1>4. ASSUME NEW nx, NEW ov
      PROVE  ValidBuffer([b EXCEPT !.next = nx, !.overflow = ov])
  <2> DEFINE s == [b EXCEPT !.next = nx, !.overflow = ov]
  <2>1. IsBuffer(b)
    BY <1>3 DEF ValidBuffer
  <2>2. IsBuffer(s) /\ (Empty(b) => Empty(s))
        /\ \A c, len, n, L, m : Holds(b, c, len, n, L, m) => Holds(s, c, len, n, L, m)
    BY <2>1, SameEntries
  <2> HIDE DEF s
  <2>3. ASSUME NEW c, NEW len, NEW n, NEW L, NEW m, Holds(b, c, len, n, L, m)
        PROVE  ValidBuffer(s)
    BY <2>2, <2>3 DEF ValidBuffer
  <2>4. ValidBuffer(s)
    BY <1>3, <2>2, <2>3 DEF ValidBuffer
  <2> QED  BY <2>4 DEF s
<1>5. ASSUME UNCHANGED <<buf, lastEntryId>>
      PROVE  ValidBuffer(b2)
  BY <1>1, <1>2, <1>3, <1>5
<1>6. ASSUME Enqueues
      PROVE  ValidBuffer(b2)
  <2>1. PICK kind : \E S \in SUBSET Members : EnqueueReport(kind, S)
    BY <1>6 DEF Enqueues
  <2>2. PICK S \in SUBSET Members : EnqueueReport(kind, S)
    BY <2>1
  <2>3. PICK entry : entry = Entry(lastEntryId + 1, EntrySize(S), kind, S)
    OBVIOUS
  <2>4. PICK base : base = IF kind = "gi" THEN RemoveGI(buf) ELSE buf
    OBVIOUS
  <2>5. \/ UNCHANGED <<buf, lastEntryId>>
        \/ /\ EntrySize(S) \in 1..Block
           /\ buf' = Store(base, entry)
    BY <2>2, <2>3, <2>4, EnqueuedIs
  <2>6. IsEntry(entry) /\ entry.next = NULL /\ entry.len = EntrySize(S)
    BY <2>3, EntryIs
  <2>7. ValidBuffer(base)
    BY <1>1, <1>3, <2>4, RemovedValid
  <2>8. ASSUME entry.len \in 1..Block, b2 = Store(base, entry)
        PROVE  ValidBuffer(b2)
    BY <2>6, <2>7, <2>8, StoreValid
  <2> QED  BY <1>1, <1>2, <1>3, <2>5, <2>6, <2>8
<1>7. ASSUME Transmits
      PROVE  ValidBuffer(b2)
  <2>1. b2 = [b EXCEPT !.next = b.mem[b.next].next, !.overflow = FALSE]
    BY <1>1, <1>2, <1>3, <1>7, RewritesNext DEF Transmits, ValidBuffer
  <2> QED  BY <1>4, <2>1
<1>8. ASSUME Rewrites
      PROVE  ValidBuffer(b2)
  <2>0. IsBuffer(b)
    BY <1>3 DEF ValidBuffer
  <2>1. ASSUME buf' = Rewind(buf)
        PROVE  ValidBuffer(b2)
    <3>1. b2 = [b EXCEPT !.next = b.oldest, !.overflow = TRUE]
      BY <1>1, <1>2, <2>0, <2>1, RewritesNext
    <3> QED  BY <1>4, <3>1
  <2>2. ASSUME buf' = [buf EXCEPT !.overflow = TRUE]
        PROVE  ValidBuffer(b2)
    <3>1. b2 = [b EXCEPT !.next = b.next, !.overflow = TRUE]
      BY <1>1, <1>2, <2>0, <2>2, OverflowIs
    <3> QED  BY <1>4, <3>1
  <2>3. ASSUME buf' = Purge(buf)
        PROVE  ValidBuffer(b2)
    <3>1. b2 = Purge(b)
      BY <1>1, <1>2, <2>3
    <3> QED  BY <2>0, <3>1, Purged DEF ValidBuffer
  <2>4. ASSUME NEW id \in Nat, buf' = ResumeAfter(buf, id)
        PROVE  ValidBuffer(b2)
    <3>1. PICK x : x = b.mem[CHOOSE p \in Holding(b, id) : TRUE].next
      OBVIOUS
    <3>2. ResumeAfter(b, id) = [b EXCEPT !.next = x, !.overflow = FALSE]
      BY <3>1 DEF ResumeAfter
    <3>3. b2 = [b EXCEPT !.next = x, !.overflow = FALSE]
      BY <1>1, <1>2, <2>4, <3>2
    <3> QED  BY <1>4, <3>3
  <2> QED  BY <1>8, <2>1, <2>2, <2>3, <2>4 DEF Rewrites
<1>9. ValidBuffer(b2)
  BY <1>5, <1>6, <1>7, <1>8, BufferSteps
<1> QED  BY <1>2, <1>9

(* The inductive invariant of the theorem below.                           *)
BufferValid == ValidBuffer(buf)

(* However the entries of a report buffer wrap around, push out each other *)
(* and are removed for an interrogation, those that the links lead to lie  *)
(* inside the block and apart.                                             *)
THEOREM EntriesStayApart == Spec => []BufferApart
<1>1. Init => BufferValid
  <2> SUFFICES ASSUME Init
               PROVE  BufferValid
    OBVIOUS
  <2>1. PICK b : b = buf
    OBVIOUS
  <2>2. PICK e : e = <<>>
    OBVIOUS
  <2>3. b = [mem |-> e, oldest |-> NULL, last |-> NULL, next |-> NULL, count |-> 0,
             overflow |-> TRUE]
    BY <2>1, <2>2 DEF Init, NewBuffer
  <2>4. DOMAIN e = {}
    BY <2>2
  <2>5. /\ b.mem = e /\ b.oldest = NULL /\ b.last = NULL /\ b.next = NULL /\ b.count = 0
        /\ b.overflow = TRUE
    BY <2>3
  <2>6. IsBuffer(b) /\ Empty(b)
    BY <2>3, <2>4, <2>5 DEF IsBuffer, Empty
  <2> QED  BY <2>1, <2>6 DEF BufferValid, ValidBuffer
<1>2. Inv /\ BufferValid /\ [Next]_vars => BufferValid'
  BY NextValid DEF BufferValid
<1>3. BufferValid => BufferApart
  BY ValidApart DEF BufferValid, BufferApart
<1> QED  BY InitInv, NextInv, <1>1, <1>2, <1>3, PTL DEF Spec

-----------------------------------------------------------------------------
(* reportsCount, in every behaviour: it may be too high, never too low.    *)

(* A buffer whose count is at least the number of its linked entries, and  *)
(* at most N.                                                              *)
Counted(b, N) ==
  /\ IsBuffer(b)
  /\ b.count \in 0..N
  /\ \/ Empty(b)
     \/ \E c, len, n, L, m : Holds(b, c, len, n, L, m) /\ n <= b.count

(* The count never falls below what is linked, also while entries are      *)
(* given up.                                                               *)
LEMMA RoomCount ==
  ASSUME NEW b, NEW c, NEW len, NEW n, NEW L, NEW m, Holds(b, c, len, n, L, m), IsBuffer(b),
         b.count \in Nat, n <= b.count,
         NEW size \in 1..Block
  PROVE  LET k == Dropped(b, size)
         IN  k \in 0..n /\ MakeRoom(b, size).count \in (n - k)..b.count
<1>1. PICK k \in 0..n : k = Dropped(b, size)
  BY StorePlaced
<1>2. PICK r : r = MakeRoom(b, size)
  OBVIOUS
<1>3. n \in Nat /\ n > 0 /\ b.last # NULL
  <2>1. c[L] \in Nat
    BY DEF Holds, Placed
  <2> QED  BY <2>1 DEF Holds, NULL
<1>4. PICK M, o, l, x, y, z : /\ M = b.mem /\ o = b.oldest /\ l = b.last /\ x = b.next
                              /\ y = b.count /\ z = b.overflow
  OBVIOUS
<1>5. b = [mem |-> M, oldest |-> o, last |-> l, next |-> x, count |-> y, overflow |-> z]
  BY <1>4 DEF IsBuffer
<1>6. CASE b.last # b.oldest
  <2>1. r = DropOldest(b, k)
    BY <1>1, <1>2, <1>3, <1>6 DEF MakeRoom, Dropped
  <2>2. PICK u, nx, ov, ct : r = [b EXCEPT !.oldest = u, !.next = nx, !.overflow = ov, !.count = ct]
                             /\ ct = b.count - k
    BY <2>1 DEF DropOldest
  <2>3. r = [mem |-> M, oldest |-> u, last |-> l, next |-> nx, count |-> ct, overflow |-> ov]
    BY <1>5, <2>2
  <2>4. r.count = b.count - k
    BY <2>2, <2>3
  <2>5. b.count - k \in (n - k)..b.count
    BY <1>1, <1>3
  <2> QED  BY <1>1, <1>2, <2>4, <2>5
<1>7. CASE b.last = b.oldest /\ Fits(b, size)
  <2>1. r = b
    BY <1>2, <1>3, <1>7 DEF MakeRoom
  <2>2. k = 0
    BY <1>1, <1>7 DEF Dropped
  <2> QED  BY <1>1, <1>2, <1>3, <2>1, <2>2
<1>8. CASE b.last = b.oldest /\ ~Fits(b, size)
  <2>1. r = [b EXCEPT !.count = 0, !.oldest = 0, !.next = NULL]
    BY <1>2, <1>3, <1>8 DEF MakeRoom
  <2>2. r = [mem |-> M, oldest |-> 0, last |-> l, next |-> NULL, count |-> 0, overflow |-> z]
    BY <1>5, <2>1
  <2>3. k = 1 /\ n = 1
    BY <1>1, <1>3, <1>8, LastIsOldest DEF Dropped
  <2>4. r.count = 0
    BY <2>2
  <2>5. 0 \in (n - k)..b.count
    BY <2>3
  <2> QED  BY <1>1, <1>2, <2>4, <2>5
<1> QED  BY <1>6, <1>7, <1>8

(* storeReport counts the report that it stores.                           *)
LEMMA StoreCount ==
  ASSUME NEW b, NEW entry
  PROVE  Store(b, entry).count = MakeRoom(b, entry.len).count + 1
<1>1. PICK g, s, r : g = Grown(b, entry) /\ s = Store(b, entry) /\ r = MakeRoom(b, entry.len)
  OBVIOUS
<1>2. g.count = r.count + 1
  BY <1>1 DEF Grown
<1>3. s = [mem |-> s.mem, oldest |-> g.oldest, last |-> g.last, next |-> g.next,
           count |-> g.count, overflow |-> g.overflow]
  BY <1>1, StoreFields
<1>4. s.count = g.count
  BY <1>3
<1> QED  BY <1>1, <1>2, <1>4

(* It keeps the count from falling below what is linked.                   *)
LEMMA StoreCounted ==
  ASSUME NEW b, NEW N \in Nat, Counted(b, N),
         NEW entry, IsEntry(entry), entry.len \in 1..Block, entry.next = NULL
  PROVE  Counted(Store(b, entry), N + 1)
<1>1. PICK s : s = Store(b, entry)
  OBVIOUS
<1>2. IsBuffer(b) /\ b.count \in Nat /\ b.count <= N
  BY DEF Counted
<1>3. s.count = MakeRoom(b, entry.len).count + 1
  BY <1>1, StoreCount
<1>4. CASE Empty(b)
  <2>1. PICK c, e : c = [i \in 0..0 |-> 0] /\ e = [i \in 0..0 |-> entry.len]
    OBVIOUS
  <2>2. Holds(s, c, e, 1, 0, 1) /\ IsBuffer(s)
    BY <1>1, <1>2, <1>4, <2>1, StoreFirst
  <2>3. MakeRoom(b, entry.len) = b
    BY <1>4 DEF MakeRoom, Empty
  <2>4. s.count \in 0..(N + 1) /\ 1 <= s.count
    BY <1>2, <1>3, <2>3
  <2> QED  BY <1>1, <2>2, <2>4 DEF Counted
<1>5. ASSUME NEW c, NEW len, NEW n, NEW L, NEW m, Holds(b, c, len, n, L, m), n <= b.count
      PROVE  Counted(s, N + 1)
  <2>1. PICK size \in 1..Block : size = entry.len
    OBVIOUS
  <2>2. PICK k : k = Dropped(b, size)
    OBVIOUS
  <2>3. k \in 0..n /\ MakeRoom(b, size).count \in (n - k)..b.count
    BY <1>2, <1>5, <2>2, RoomCount
  <2>4. PICK nn : nn = IF L = n - 1 \/ k = n THEN n - k + 1 ELSE n - k
    OBVIOUS
  <2>5. PICK d, e : /\ d = Remaining(c, n, k, Position(b, size))
                    /\ e = Remaining(len, n, k, size)
    OBVIOUS
  <2>6. (\E w : Holds(s, d, e, nn, n - k, w)) /\ IsBuffer(s)
    BY <1>1, <1>2, <1>5, <2>1, <2>2, <2>4, <2>5, StoreHolds
  <2>7. n \in Nat
    BY <1>5 DEF Holds
  <2>8. s.count \in 0..(N + 1) /\ nn <= s.count
    BY <1>2, <1>3, <2>1, <2>3, <2>4, <2>7
  <2> QED  BY <2>6, <2>8 DEF Counted
<1> QED  BY <1>1, <1>4, <1>5 DEF Counted

(* Removing interrogations leaves the count as it is, above fewer entries. *)
LEMMA RemovedCounted ==
  ASSUME NEW b, NEW N \in Nat, Counted(b, N)
  PROVE  Counted(RemoveGI(b), N)
<1>1. PICK r : r = RemoveGI(b)
  OBVIOUS
<1>2. IsBuffer(b) /\ b.count \in 0..N
  BY DEF Counted
<1>3. CASE Empty(b)
  BY <1>1, <1>2, <1>3, RemoveGIEmpty DEF Counted
<1>4. ASSUME NEW c, NEW len, NEW n, NEW L, NEW m, Holds(b, c, len, n, L, m), n <= b.count
      PROVE  Counted(r, N)
  <2>1. r.count = b.count
    BY <1>1, <1>2, <1>4, RemoveGIFields
  <2>2. IsBuffer(r) /\ (Empty(r) \/ \E d, e, k, l, w : Holds(r, d, e, k, l, w) /\ k <= n)
    BY <1>1, <1>2, <1>4, RemoveGIHolds
  <2>3. n \in Nat
    BY <1>4 DEF Holds
  <2>4. ASSUME NEW d, NEW e, NEW k, NEW l, NEW w, Holds(r, d, e, k, l, w), k <= n
        PROVE  Counted(r, N)
    <3>1. k \in Nat
      BY <2>4 DEF Holds
    <3>2. k <= r.count
      BY <1>2, <1>4, <2>1, <2>3, <2>4, <3>1
    <3> QED  BY <1>2, <2>1, <2>2, <2>4, <3>2 DEF Counted
  <2> QED  BY <1>2, <2>1, <2>2, <2>4 DEF Counted
<1> QED  BY <1>1, <1>3, <1>4 DEF Counted

(* A higher limit, and other pointers for the transmission.                *)
LEMMA MovedCounted ==
  ASSUME NEW b, NEW N \in Nat, Counted(b, N), NEW nx, NEW ov
  PROVE  Counted([b EXCEPT !.next = nx, !.overflow = ov], N)
<1>1. PICK s : s = [b EXCEPT !.next = nx, !.overflow = ov]
  OBVIOUS
<1>2. IsBuffer(b)
  BY DEF Counted
<1>3. /\ IsBuffer(s)
      /\ s = [mem |-> b.mem, oldest |-> b.oldest, last |-> b.last, next |-> nx,
              count |-> b.count, overflow |-> ov]
      /\ Empty(b) => Empty(s)
      /\ \A c, len, n, L, m : Holds(b, c, len, n, L, m) => Holds(s, c, len, n, L, m)
  BY <1>1, <1>2, SameEntries
<1>4. s.count = b.count
  BY <1>3
<1>5. CASE Empty(b)
  BY <1>1, <1>3, <1>4, <1>5 DEF Counted
<1>6. ASSUME NEW c, NEW len, NEW n, NEW L, NEW m, Holds(b, c, len, n, L, m), n <= b.count
      PROVE  Counted(s, N)
  BY <1>3, <1>4, <1>6 DEF Counted
<1> QED  BY <1>1, <1>5, <1>6 DEF Counted

(* What the count says of the entries that are linked: if the assertion of *)
(* enqueueReport fails, it is because the count is too high.               *)
LEMMA CountedCovers ==
  ASSUME NEW b, NEW N \in Nat, Counted(b, N)
  PROVE  /\ Length(b) \in Nat /\ b.count \in Nat
         /\ Length(b) <= b.count /\ b.count <= N
         /\ StoreAborts(b) => Length(b) = 1 /\ b.count > 1
<1>1. IsBuffer(b) /\ b.count \in Nat /\ b.count <= N
  BY DEF Counted
<1>2. CASE Empty(b)
  BY <1>1, <1>2, EmptyChain DEF Empty, StoreAborts
<1>3. ASSUME NEW c, NEW len, NEW n, NEW L, NEW m, Holds(b, c, len, n, L, m), n <= b.count
      PROVE  /\ Length(b) \in Nat /\ Length(b) <= b.count
             /\ StoreAborts(b) => Length(b) = 1 /\ b.count > 1
  <2>1. Length(b) = n /\ n \in Nat
    BY <1>3, ChainOf DEF Holds
  <2>2. ASSUME StoreAborts(b)
        PROVE  n = 1 /\ b.count # 1
    BY <1>3, <2>2, LastIsOldest DEF StoreAborts
  <2> QED  BY <1>1, <1>3, <2>1, <2>2
<1> QED  BY <1>1, <1>2, <1>3 DEF Counted

(* The inductive invariant of the theorem below.                           *)
CountKept == lastEntryId \in Nat /\ Counted(buf, lastEntryId)

(* The count covers the linked reports and never exceeds those ever made,  *)
(* for the buffer as it is and for what is left of it when interrogations  *)
(* are removed; the assertion of enqueueReport can only fail because one   *)
(* linked report is counted more than once.                                *)
CountCovers ==
  \A b \in {buf, RemoveGI(buf)} :
    /\ Length(b) <= b.count /\ b.count <= lastEntryId
    /\ StoreAborts(b) => Length(b) = 1 /\ b.count > 1

(* Every step keeps the count from falling below what is linked.           *)
LEMMA NextCounted ==
  ASSUME Inv, CountKept, [Next]_vars
  PROVE  CountKept'
<1>1. PICK b, b2 : b = buf /\ b2 = buf'
  OBVIOUS
<1>2. PICK N \in Nat : N = lastEntryId
  BY DEF CountKept
<1>3. PICK N2 : N2 = lastEntryId'
  OBVIOUS
<1>4. Counted(b, N) /\ IsBuffer(b)
  BY <1>1, <1>2 DEF CountKept, Counted
<1> DEFINE Goal == N2 \in Nat /\ Counted(b2, N2)
<1>5. ASSUME UNCHANGED <<buf, lastEntryId>>
      PROVE  Goal
  BY <1>1, <1>2, <1>3, <1>4, <1>5
<1>6. ASSUME Enqueues
      PROVE  Goal
  <2>1. PICK kind : \E S \in SUBSET Members : EnqueueReport(kind, S)
    BY <1>6 DEF Enqueues
  <2>2. PICK S \in SUBSET Members : EnqueueReport(kind, S)
    BY <2>1
  <2>3. PICK entry : entry = Entry(lastEntryId + 1, EntrySize(S), kind, S)
    OBVIOUS
  <2>4. PICK base : base = IF kind = "gi" THEN RemoveGI(buf) ELSE buf
    OBVIOUS
  <2>5. \/ UNCHANGED <<buf, lastEntryId>>
        \/ /\ EntrySize(S) \in 1..Block
           /\ b2 = Store(base, entry) /\ N2 = N + 1
    BY <1>1, <1>2, <1>3, <2>2, <2>3, <2>4, EnqueuedIs
  <2>6. IsEntry(entry) /\ entry.next = NULL /\ entry.len = EntrySize(S)
    BY <2>3, EntryIs
  <2>7. Counted(base, N)
    BY <1>1, <1>4, <2>4, RemovedCounted
  <2>8. ASSUME entry.len \in 1..Block, b2 = Store(base, entry), N2 = N + 1
        PROVE  Goal
    BY <2>6, <2>7, <2>8, StoreCounted
  <2> QED  BY <1>5, <2>5, <2>6, <2>8
<1>7. ASSUME NEW nx, NEW ov, b2 = [b EXCEPT !.next = nx, !.overflow = ov], N2 = N
      PROVE  Goal
  BY <1>4, <1>7, MovedCounted
<1>8. ASSUME Transmits
      PROVE  Goal
  <2>1. b2 = [b EXCEPT !.next = b.mem[b.next].next, !.overflow = FALSE] /\ N2 = N
    BY <1>1, <1>2, <1>3, <1>4, <1>8, RewritesNext DEF Transmits
  <2> QED  BY <1>7, <2>1
<1>9. ASSUME Rewrites
      PROVE  Goal
  <2>0. N2 = N
    BY <1>2, <1>3, <1>9 DEF Rewrites
  <2>1. ASSUME buf' = Rewind(buf)
        PROVE  Goal
    <3>1. b2 = [b EXCEPT !.next = b.oldest, !.overflow = TRUE]
      BY <1>1, <1>4, <2>1, RewritesNext
    <3> QED  BY <1>7, <2>0, <3>1
  <2>2. ASSUME buf' = [buf EXCEPT !.overflow = TRUE]
        PROVE  Goal
    <3>1. b2 = [b EXCEPT !.next = b.next, !.overflow = TRUE]
      BY <1>1, <1>4, <2>2, OverflowIs
    <3> QED  BY <1>7, <2>0, <3>1
  <2>3. ASSUME buf' = Purge(buf)
        PROVE  Goal
    <3>1. IsBuffer(b2) /\ Empty(b2) /\ b2.count = 0
      BY <1>1, <1>4, <2>3, Purged
    <3> QED  BY <2>0, <3>1 DEF Counted
  <2>4. ASSUME NEW id \in Nat, buf' = ResumeAfter(buf, id)
        PROVE  Goal
    <3>1. PICK x : x = b.mem[CHOOSE p \in Holding(b, id) : TRUE].next
      OBVIOUS
    <3>2. ResumeAfter(b, id) = [b EXCEPT !.next = x, !.overflow = FALSE]
      BY <3>1 DEF ResumeAfter
    <3>3. b2 = [b EXCEPT !.next = x, !.overflow = FALSE]
      BY <1>1, <2>4, <3>2
    <3> QED  BY <1>7, <2>0, <3>3
  <2> QED  BY <1>9, <2>1, <2>2, <2>3, <2>4 DEF Rewrites
<1>10. Goal
  BY <1>5, <1>6, <1>8, <1>9, BufferSteps
<1> QED  BY <1>1, <1>3, <1>10 DEF CountKept

(* Whatever is stored, pushed out, removed for an interrogation, purged or *)
(* resumed after: reportsCount is never less than the number of reports    *)
(* that the links lead to. The finding of the run report_gi, which shows   *)
(* that the two can differ, can therefore only be a count that is too high.*)
THEOREM CountNeverTooLow == Spec => []CountCovers
<1>1. Init => CountKept
  <2> SUFFICES ASSUME Init
               PROVE  CountKept
    OBVIOUS
  <2>1. PICK b, e : b = buf /\ e = <<>>
    OBVIOUS
  <2>2. b = [mem |-> e, oldest |-> NULL, last |-> NULL, next |-> NULL, count |-> 0,
             overflow |-> TRUE]
    BY <2>1 DEF Init, NewBuffer
  <2>3. DOMAIN e = {}
    BY <2>1
  <2>4. /\ b.mem = e /\ b.oldest = NULL /\ b.last = NULL /\ b.next = NULL /\ b.count = 0
        /\ b.overflow = TRUE
    BY <2>2
  <2>5. IsBuffer(b) /\ Empty(b)
    BY <2>2, <2>3, <2>4 DEF IsBuffer, Empty
  <2>6. lastEntryId = 0
    BY DEF Init
  <2> QED  BY <2>1, <2>4, <2>5, <2>6 DEF CountKept, Counted
<1>2. Inv /\ CountKept /\ [Next]_vars => CountKept'
  BY NextCounted
<1>3. CountKept => CountCovers
  <2> SUFFICES ASSUME CountKept
               PROVE  CountCovers
    OBVIOUS
  <2>1. PICK N \in Nat : N = lastEntryId
    BY DEF CountKept
  <2>2. Counted(buf, N) /\ Counted(RemoveGI(buf), N)
    <3>1. PICK b : b = buf
      OBVIOUS
    <3>2. Counted(b, N)
      BY <2>1, <3>1 DEF CountKept
    <3>3. Counted(RemoveGI(b), N)
      BY <3>2, RemovedCounted
    <3> QED  BY <3>1, <3>2, <3>3
  <2>3. ASSUME NEW b \in {buf, RemoveGI(buf)}
        PROVE  /\ Length(b) <= b.count /\ b.count <= lastEntryId
               /\ StoreAborts(b) => Length(b) = 1 /\ b.count > 1
    <3>1. Counted(b, N)
      BY <2>2, <2>3
    <3> QED  BY <2>1, <3>1, CountedCovers
  <2> QED  BY <2>3 DEF CountCovers
<1> QED  BY InitInv, NextInv, <1>1, <1>2, <1>3, PTL DEF Spec

-----------------------------------------------------------------------------
(* BufferLinked and the queue of reports. They hold in the behaviours in   *)
(* which no interrogation replaces an earlier one: removing it updates     *)
(* neither the count nor the last pointer.                                 *)

(* A buffer whose pointers and count are exact: c[q] .. c[n-1] are to be   *)
(* transmitted.                                                            *)
Cursor(c, n, q) == IF q = n THEN NULL ELSE c[q]

Exact(b, c, len, n, m, q) ==
  /\ Holds(b, c, len, n, n - 1, m)
  /\ b.count = n
  /\ q \in 0..n
  /\ b.next = Cursor(c, n, q)

(* A buffer without entries whose pointers and count say so.               *)
Unused(b) == Empty(b) /\ b.next = NULL /\ b.count = 0

(* A buffer whose pointers and count are exact.                            *)
WellBuffer(b) ==
  /\ IsBuffer(b) /\ b.overflow \in BOOLEAN
  /\ Unused(b) \/ \E c, len, n, m, q : Exact(b, c, len, n, m, q)

(* What can be reached in such a buffer.                                   *)
LEMMA ExactFacts ==
  ASSUME NEW b, NEW c, NEW len, NEW n, NEW m, NEW q, Exact(b, c, len, n, m, q)
  PROVE  /\ n \in Nat /\ n > 0 /\ q \in 0..n /\ n <= Block
         /\ Chain(b) = {c[k] : k \in 0..(n-1)}
         /\ Length(b) = n
         /\ \A k \in 0..Block : Walk(b)[k] = IF k < n THEN c[k] ELSE NULL
         /\ \A k \in 0..(n-1) : c[k] \in Nat /\ c[k] \in DOMAIN b.mem
         /\ \A i, j \in 0..(n-1) : c[i] = c[j] => i = j
<1>1. Holds(b, c, len, n, n - 1, m) /\ q \in 0..n
  BY DEF Exact
<1>2. n \in 1..Block
  BY <1>1, ChainOf
<1>3. n \in Nat /\ n > 0 /\ n <= Block
  BY <1>2, BlockAssumption
<1>4. Placed(c, len, n - 1, m)
  BY <1>1 DEF Holds
<1>5. \A i, j \in 0..(n-1) : c[i] = c[j] => i = j
  BY <1>4, PlacedDistinct
<1>6. \A k \in 0..(n-1) : c[k] \in Nat
  BY <1>4 DEF Placed
<1>7. \A k \in 0..(n-1) : c[k] \in DOMAIN b.mem
  BY <1>1 DEF Holds
<1> QED  BY <1>1, <1>3, <1>5, <1>6, <1>7, ChainOf

(* It is linked as ReportBuffer says.                                      *)
LEMMA WellIsLinked ==
  ASSUME NEW b, WellBuffer(b)
  PROVE  WellLinked(b)
<1>1. CASE Unused(b)
  BY <1>1, EmptyChain DEF WellBuffer, WellLinked, Unused, Empty
<1>2. ASSUME NEW c, NEW len, NEW n, NEW m, NEW q, Exact(b, c, len, n, m, q)
      PROVE  WellLinked(b)
  <2>1. /\ n \in Nat /\ n > 0 /\ q \in 0..n /\ n <= Block
        /\ Chain(b) = {c[k] : k \in 0..(n-1)}
        /\ Length(b) = n
        /\ \A k \in 0..Block : Walk(b)[k] = IF k < n THEN c[k] ELSE NULL
        /\ \A k \in 0..(n-1) : c[k] \in Nat /\ c[k] \in DOMAIN b.mem
        /\ \A i, j \in 0..(n-1) : c[i] = c[j] => i = j
    BY <1>2, ExactFacts
  <2>2. b.oldest = c[0] /\ b.last = c[n - 1]
    BY <1>2, <2>1 DEF Exact, Holds, Links
  <2>3. b.oldest # NULL /\ b.last # NULL
    BY <2>1, <2>2 DEF NULL
  <2>4. Walk(b)[Length(b) - 1] = b.last
    <3>1. n - 1 \in 0..Block /\ n - 1 < n
      BY <2>1, BlockAssumption
    <3> QED  BY <2>1, <2>2, <3>1
  <2>5. Cardinality(Chain(b)) = Length(b)
    <3> DEFINE f == [k \in 1..n |-> c[k-1]]
    <3>1. f \in [1..n -> Chain(b)]
      BY <2>1
    <3>2. \A x, y \in 1..n : f[x] = f[y] => x = y
      BY <2>1
    <3>3. \A p \in Chain(b) : \E x \in 1..n : f[x] = p
      <4> SUFFICES ASSUME NEW p \in Chain(b)
                   PROVE  \E x \in 1..n : f[x] = p
        OBVIOUS
      <4>1. PICK k \in 0..(n-1) : p = c[k]
        BY <2>1
      <4>2. k + 1 \in 1..n /\ (k + 1) - 1 = k
        BY <2>1
      <4> QED  BY <4>1, <4>2
    <3> HIDE DEF f
    <3>4. f \in Bijection(1..n, Chain(b))
      BY <3>1, <3>2, <3>3 DEF Bijection, Injection, Surjection, IsInjective
    <3>5. ExistsBijection(1..n, Chain(b))
      BY <3>4 DEF ExistsBijection
    <3> QED  BY <2>1, <3>5, FS_CountingElements
  <2>6. b.next # NULL => b.next \in Chain(b)
    BY <1>2, <2>1 DEF Exact, Cursor
  <2>7. Chain(b) \subseteq DOMAIN b.mem
    BY <2>1
  <2>8. b.count = Length(b)
    BY <1>2, <2>1 DEF Exact
  <2> QED  BY <2>3, <2>4, <2>5, <2>6, <2>7, <2>8 DEF WellLinked
<1> QED  BY <1>1, <1>2 DEF WellBuffer

(* What giving up the oldest entries does to transmission and count. *)
LEMMA RoomIs ==
  ASSUME NEW b, NEW c, NEW len, NEW n, NEW m, NEW q, Exact(b, c, len, n, m, q), IsBuffer(b),
         NEW size \in 1..Block
  PROVE  LET room == MakeRoom(b, size)
             k    == Dropped(b, size)
         IN  /\ k \in 0..n
             /\ room.next = IF q < k THEN Cursor(c, n, k) ELSE Cursor(c, n, q)
             /\ room.count = n - k
             /\ room.overflow = IF n = 1 THEN b.overflow ELSE b.overflow \/ q < k
<1> DEFINE Goal(room, k) ==
             /\ room.next = IF q < k THEN Cursor(c, n, k) ELSE Cursor(c, n, q)
             /\ room.count = n - k
             /\ room.overflow = IF n = 1 THEN b.overflow ELSE b.overflow \/ q < k
<1>1. PICK r : r = MakeRoom(b, size)
  OBVIOUS
<1>2. PICK k \in 0..n : k = Dropped(b, size)
  <2>1. Holds(b, c, len, n, n - 1, m)
    BY DEF Exact
  <2> QED  BY <2>1, StorePlaced
<1>3. /\ n \in Nat /\ n > 0 /\ q \in 0..n /\ n <= Block /\ Block \in Nat
      /\ \A j \in 0..Block : Walk(b)[j] = IF j < n THEN c[j] ELSE NULL
      /\ \A j \in 0..(n-1) : c[j] \in Nat /\ c[j] \in DOMAIN b.mem
      /\ \A i, j \in 0..(n-1) : c[i] = c[j] => i = j
  BY ExactFacts, BlockAssumption
<1>4. /\ Holds(b, c, len, n, n - 1, m)
      /\ b.last = c[n-1] /\ b.oldest = c[0] /\ b.next = Cursor(c, n, q) /\ b.count = n
  BY <1>3 DEF Exact, Holds, Links
<1>5. b.last # NULL
  BY <1>3, <1>4 DEF NULL
<1>6. PICK M, o, l, x, z : M = b.mem /\ o = b.oldest /\ l = b.last /\ x = b.next /\ z = b.overflow
  OBVIOUS
<1>7. b = [mem |-> M, oldest |-> o, last |-> l, next |-> x, count |-> n, overflow |-> z]
  BY <1>4, <1>6 DEF IsBuffer
<1>8. ASSUME b.last # b.oldest
      PROVE  Goal(r, k)
  <2>1. n # 1
    BY <1>4, <1>8
  <2>2. r = DropOldest(b, k)
    BY <1>1, <1>2, <1>5, <1>8 DEF MakeRoom, Dropped
  <2>3. PICK lost \in BOOLEAN : lost = (b.next # NULL /\ \E j \in 0..(k-1) : Walk(b)[j] = b.next)
    OBVIOUS
  <2>4. Walk(b)[k] = Cursor(c, n, k)
    BY <1>2, <1>3 DEF Cursor
  <2>5. PICK u : u = Cursor(c, n, k)
    OBVIOUS
  <2>6. PICK nx : nx = IF lost THEN u ELSE x
    OBVIOUS
  <2>7. PICK ov : ov = (z \/ lost)
    OBVIOUS
  <2>8. PICK w0 : w0 = n - k
    OBVIOUS
  <2>9. r = [b EXCEPT !.oldest = u, !.next = nx, !.overflow = ov, !.count = w0]
    <3>1. r = [b EXCEPT !.oldest   = u,
                        !.next     = IF lost THEN u ELSE b.next,
                        !.overflow = b.overflow \/ lost,
                        !.count    = b.count - k]
      BY <2>2, <2>3, <2>4, <2>5 DEF DropOldest
    <3> QED  BY <1>4, <1>6, <2>6, <2>7, <2>8, <3>1
  <2>10. r = [mem |-> M, oldest |-> u, last |-> l, next |-> nx, count |-> w0, overflow |-> ov]
    BY <1>7, <2>9
  <2>11. r.next = nx /\ r.count = w0 /\ r.overflow = ov
    BY <2>10
  <2>12. lost <=> q < k
    <3>1. \A j \in 0..(k-1) : j \in 0..(n-1) /\ j \in 0..Block /\ Walk(b)[j] = c[j]
      BY <1>2, <1>3
    <3>2. CASE q = n
      <4>1. b.next = NULL
        BY <1>4, <3>2 DEF Cursor
      <4>2. ~(q < k)
        BY <1>2, <1>3, <3>2
      <4> QED  BY <2>3, <4>1, <4>2
    <3>3. CASE q # n
      <4>1. q \in 0..(n-1)
        BY <1>3, <3>3
      <4>2. b.next = c[q] /\ b.next # NULL
        BY <1>3, <1>4, <3>3, <4>1 DEF Cursor, NULL
      <4>3. \A j \in 0..(k-1) : Walk(b)[j] = b.next <=> j = q
        BY <1>3, <3>1, <4>1, <4>2
      <4>4. q < k <=> q \in 0..(k-1)
        BY <1>2, <4>1
      <4> QED  BY <2>3, <4>2, <4>3, <4>4
    <3> QED  BY <3>2, <3>3
  <2>13. r.next = IF q < k THEN Cursor(c, n, k) ELSE Cursor(c, n, q)
    BY <1>4, <1>6, <2>5, <2>6, <2>11, <2>12
  <2>14. r.overflow = IF n = 1 THEN b.overflow ELSE b.overflow \/ q < k
    <3>1. r.overflow = (b.overflow \/ lost)
      BY <1>6, <2>7, <2>11
    <3>2. (b.overflow \/ lost) = (b.overflow \/ q < k)
      BY <2>12
    <3> QED  BY <2>1, <3>1, <3>2
  <2> QED  BY <2>8, <2>11, <2>13, <2>14
<1>9. ASSUME b.last = b.oldest
      PROVE  Goal(r, k)
  <2>1. n = 1
    BY <1>4, <1>9, LastIsOldest
  <2>2. ASSUME Fits(b, size)
        PROVE  Goal(r, k)
    <3>1. r = b
      BY <1>1, <1>5, <1>9, <2>2 DEF MakeRoom
    <3>2. k = 0
      BY <1>2, <1>9, <2>2 DEF Dropped
    <3>3. ~(q < k) /\ n - k = n
      BY <1>3, <3>2
    <3> QED  BY <1>4, <2>1, <3>1, <3>3
  <2>3. ASSUME ~Fits(b, size)
        PROVE  Goal(r, k)
    <3>1. r = [b EXCEPT !.count = 0, !.oldest = 0, !.next = NULL]
      BY <1>1, <1>5, <1>9, <2>3 DEF MakeRoom
    <3>2. k = 1
      BY <1>2, <1>5, <1>9, <2>3 DEF Dropped
    <3>3. r = [mem |-> M, oldest |-> 0, last |-> l, next |-> NULL, count |-> 0, overflow |-> z]
      BY <1>7, <3>1
    <3>4. r.next = NULL /\ r.count = 0 /\ r.overflow = z
      BY <3>3
    <3>5. Cursor(c, n, k) = NULL /\ n - k = 0 /\ (~(q < k) => Cursor(c, n, q) = NULL)
      BY <1>3, <2>1, <3>2 DEF Cursor
    <3> QED  BY <1>6, <2>1, <3>4, <3>5
  <2> QED  BY <2>2, <2>3
<1>10. Goal(r, k)
  BY <1>8, <1>9
<1> QED  BY <1>1, <1>2, <1>10

(* The pointer to the next report to transmit, the count and the overflow  *)
(* flag after a report was stored.                                         *)
LEMMA StoreCursor ==
  ASSUME NEW b, NEW c, NEW len, NEW n, NEW m, NEW q, Exact(b, c, len, n, m, q), IsBuffer(b),
         NEW entry, IsEntry(entry), entry.len \in 1..Block
  PROVE  LET s   == Store(b, entry)
             pos == Position(b, entry.len)
             k   == Dropped(b, entry.len)
             d   == Remaining(c, n, k, pos)
         IN  /\ k \in 0..n
             /\ s.next = d[IF q <= k THEN 0 ELSE q - k]
             /\ s.count = n - k + 1
             /\ s.overflow = IF n = 1 THEN b.overflow ELSE b.overflow \/ q < k
<1>1. PICK size \in 1..Block : size = entry.len
  OBVIOUS
<1>2. PICK s : s = Store(b, entry)
  OBVIOUS
<1>3. PICK pos : pos = Position(b, size)
  OBVIOUS
<1>4. PICK r : r = MakeRoom(b, size)
  OBVIOUS
<1>5. PICK k : k = Dropped(b, size)
  OBVIOUS
<1>6. /\ k \in 0..n
      /\ r.next = IF q < k THEN Cursor(c, n, k) ELSE Cursor(c, n, q)
      /\ r.count = n - k
      /\ r.overflow = IF n = 1 THEN b.overflow ELSE b.overflow \/ q < k
  BY <1>4, <1>5, RoomIs
<1>7. /\ s.next = IF r.next = NULL THEN pos ELSE r.next
      /\ s.count = r.count + 1
      /\ s.overflow = r.overflow
  <2>1. PICK g : g = Grown(b, entry)
    OBVIOUS
  <2>0. b.last # NULL
    <3>1. c[n-1] \in Nat
      BY ExactFacts
    <3> QED  BY <3>1 DEF Exact, Holds, NULL
  <2>2. g.next = (IF r.next = NULL THEN pos ELSE r.next)
        /\ g.count = r.count + 1 /\ g.overflow = r.overflow
    BY <1>1, <1>3, <1>4, <2>0, <2>1 DEF Grown
  <2>3. s = [mem |-> s.mem, oldest |-> g.oldest, last |-> g.last, next |-> g.next,
             count |-> g.count, overflow |-> g.overflow]
    BY <1>2, <2>1, StoreFields
  <2>4. s.next = g.next /\ s.count = g.count /\ s.overflow = g.overflow
    BY <2>3
  <2> QED  BY <2>2, <2>4
<1>8. /\ n \in Nat /\ n > 0 /\ q \in 0..n
      /\ \A j \in 0..(n-1) : c[j] \in Nat
  BY ExactFacts
<1>9. PICK d : d = Remaining(c, n, k, pos)
  OBVIOUS
<1>10. /\ \A i \in 0..(n - k) : d[i] = IF i < n - k THEN c[i + k] ELSE pos
       /\ n - k \in Nat
  BY <1>6, <1>8, <1>9 DEF Remaining
<1>11. s.next = d[IF q <= k THEN 0 ELSE q - k]
  <2>1. CASE q = n
    <3>1. Cursor(c, n, q) = NULL /\ ~(q < k)
      BY <1>6, <1>8, <2>1 DEF Cursor
    <3>2. s.next = pos
      BY <1>6, <1>7, <3>1
    <3>3. d[n - k] = pos /\ (q <= k => n - k = 0)
      BY <1>6, <1>8, <1>10, <2>1
    <3> QED  BY <2>1, <3>2, <3>3
  <2>2. CASE q # n /\ q < k
    <3>1. CASE k = n
      <4>1. Cursor(c, n, k) = NULL
        BY <3>1 DEF Cursor
      <4>2. s.next = pos
        BY <1>6, <1>7, <2>2, <4>1
      <4>3. d[0] = pos
        BY <1>8, <1>10, <3>1
      <4>4. q <= k
        BY <1>6, <1>8, <2>2
      <4> QED  BY <4>2, <4>3, <4>4
    <3>2. CASE k # n
      <4>1. k \in 0..(n-1)
        BY <1>6, <1>8, <3>2
      <4>2. Cursor(c, n, k) = c[k] /\ c[k] # NULL
        BY <1>8, <3>2, <4>1 DEF Cursor, NULL
      <4>3. s.next = c[k]
        BY <1>6, <1>7, <2>2, <4>2
      <4>4. d[0] = c[k]
        BY <1>8, <1>10, <4>1
      <4>5. q <= k
        BY <1>6, <1>8, <2>2
      <4> QED  BY <4>3, <4>4, <4>5
    <3> QED  BY <3>1, <3>2
  <2>3. CASE q # n /\ ~(q < k)
    <3>1. q \in 0..(n-1)
      BY <1>8, <2>3
    <3>2. Cursor(c, n, q) = c[q] /\ c[q] # NULL
      BY <1>8, <2>3, <3>1 DEF Cursor, NULL
    <3>3. s.next = c[q]
      BY <1>6, <1>7, <2>3, <3>2
    <3>4. PICK i : i = q - k
      OBVIOUS
    <3>5. i \in 0..(n - k) /\ i < n - k /\ i + k = q /\ (q <= k => i = 0)
      BY <1>6, <1>8, <2>3, <3>1, <3>4
    <3>6. d[i] = c[q]
      BY <1>10, <3>5
    <3> QED  BY <3>3, <3>4, <3>5, <3>6
  <2> QED  BY <2>1, <2>2, <2>3
<1>12. s.count = n - k + 1
  BY <1>6, <1>7
<1> QED  BY <1>1, <1>2, <1>3, <1>5, <1>6, <1>7, <1>9, <1>11, <1>12

(* The report that is transmitted next, after the k oldest are given up.   *)
CursorAfter(q, k) == IF q <= k THEN 0 ELSE q - k

(* A report stored behind others keeps the buffer exact.                   *)
LEMMA StoreExact ==
  ASSUME NEW b, NEW c, NEW len, NEW n, NEW m, NEW q, Exact(b, c, len, n, m, q), IsBuffer(b),
         NEW entry, IsEntry(entry), entry.len \in 1..Block, entry.next = NULL
  PROVE  LET s   == Store(b, entry)
             pos == Position(b, entry.len)
             k   == Dropped(b, entry.len)
             d   == Remaining(c, n, k, pos)
             e   == Remaining(len, n, k, entry.len)
         IN  /\ k \in 0..n
             /\ \E w : Exact(s, d, e, n - k + 1, w, CursorAfter(q, k))
             /\ IsBuffer(s)
             /\ s.overflow = IF n = 1 THEN b.overflow ELSE b.overflow \/ q < k
             /\ \A i \in 0..(n - k) : s.mem[d[i]].id = IF i < n - k THEN b.mem[c[i + k]].id
                                                       ELSE entry.id
<1>1. PICK s : s = Store(b, entry)
  OBVIOUS
<1>2. PICK pos : pos = Position(b, entry.len)
  OBVIOUS
<1>3. PICK k : k = Dropped(b, entry.len)
  OBVIOUS
<1>4. PICK d : d = Remaining(c, n, k, pos)
  OBVIOUS
<1>5. PICK e : e = Remaining(len, n, k, entry.len)
  OBVIOUS
<1>6. /\ k \in 0..n
      /\ s.next = d[IF q <= k THEN 0 ELSE q - k]
      /\ s.count = n - k + 1
      /\ s.overflow = IF n = 1 THEN b.overflow ELSE b.overflow \/ q < k
  BY <1>1, <1>2, <1>3, <1>4, StoreCursor
<1>7. Holds(b, c, len, n, n - 1, m) /\ n \in Nat /\ n > 0 /\ q \in 0..n
  <2>1. Holds(b, c, len, n, n - 1, m)
    BY DEF Exact
  <2> QED  BY <2>1, ExactFacts
<1>8. PICK nn : nn = n - k + 1
  OBVIOUS
<1>9. /\ \E w : Holds(s, d, e, nn, n - k, w)
      /\ IsBuffer(s)
      /\ \A i \in 0..(n - k) : i < n - k => s.mem[d[i]].id = b.mem[d[i]].id
      /\ s.mem[pos] = entry
  <2>1. PICK L : L = n - 1
    OBVIOUS
  <2>2. Holds(b, c, len, n, L, m)
    BY <1>7, <2>1
  <2>3. nn = IF L = n - 1 \/ k = n THEN n - k + 1 ELSE n - k
    BY <1>8, <2>1
  <2> QED  BY <1>1, <1>2, <1>3, <1>4, <1>5, <2>2, <2>3, StoreHolds
<1>10. PICK w : Holds(s, d, e, nn, n - k, w)
  BY <1>9
<1>11. nn - 1 = n - k /\ nn \in Nat /\ CursorAfter(q, k) \in 0..nn /\ CursorAfter(q, k) # nn
  BY <1>6, <1>7, <1>8 DEF CursorAfter
<1>12. s.next = Cursor(d, nn, CursorAfter(q, k))
  BY <1>6, <1>11 DEF CursorAfter, Cursor
<1>13. Exact(s, d, e, nn, w, CursorAfter(q, k))
  BY <1>6, <1>8, <1>10, <1>11, <1>12 DEF Exact
<1>14. \A i \in 0..(n - k) : d[i] = IF i < n - k THEN c[i + k] ELSE pos
  BY <1>4 DEF Remaining
<1>15. \A i \in 0..(n - k) : s.mem[d[i]].id = IF i < n - k THEN b.mem[c[i + k]].id ELSE entry.id
  BY <1>9, <1>14
<1>16. \E v : Exact(s, d, e, nn, v, CursorAfter(q, k))
  BY <1>13
<1> QED  BY <1>1, <1>2, <1>3, <1>4, <1>5, <1>6, <1>8, <1>9, <1>15, <1>16

(* So does the first report.                                               *)
LEMMA StoreFirstExact ==
  ASSUME NEW b, IsBuffer(b), Unused(b),
         NEW entry, IsEntry(entry), entry.len \in 1..Block, entry.next = NULL
  PROVE  LET s == Store(b, entry)
         IN  /\ \E c, len : Exact(s, c, len, 1, 1, 0) /\ s.mem[c[0]] = entry
             /\ IsBuffer(s)
             /\ s.overflow = b.overflow
<1>1. PICK s : s = Store(b, entry)
  OBVIOUS
<1>2. PICK c, e : c = [i \in 0..0 |-> 0] /\ e = [i \in 0..0 |-> entry.len]
  OBVIOUS
<1>3. Holds(s, c, e, 1, 0, 1) /\ IsBuffer(s) /\ s.mem[0] = entry
  BY <1>1, <1>2, StoreFirst DEF Unused
<1>4. s.next = 0 /\ s.count = 1 /\ s.overflow = b.overflow
  <2>1. PICK g : g = Grown(b, entry)
    OBVIOUS
  <2>2. Position(b, entry.len) = 0 /\ MakeRoom(b, entry.len) = b
    BY DEF Unused, Empty, Position, MakeRoom
  <2>3. g.next = 0 /\ g.count = 1 /\ g.overflow = b.overflow
    BY <2>1, <2>2 DEF Grown, Unused
  <2>4. s = [mem |-> s.mem, oldest |-> g.oldest, last |-> g.last, next |-> g.next,
             count |-> g.count, overflow |-> g.overflow]
    BY <1>1, <2>1, StoreFields
  <2>5. s.next = g.next /\ s.count = g.count /\ s.overflow = g.overflow
    BY <2>4
  <2> QED  BY <2>3, <2>5
<1>5. c[0] = 0 /\ Cursor(c, 1, 0) = 0
  BY <1>2 DEF Cursor
<1>6. Exact(s, c, e, 1, 1, 0)
  BY <1>3, <1>4, <1>5 DEF Exact
<1> QED  BY <1>1, <1>3, <1>4, <1>5, <1>6

(* The link of an entry leads to the one behind it.                        *)
LEMMA NextLink ==
  ASSUME NEW b, NEW c, NEW len, NEW n, NEW m, NEW q, Exact(b, c, len, n, m, q),
         NEW j \in 0..(n-1)
  PROVE  j + 1 \in 0..n /\ b.mem[c[j]].next = Cursor(c, n, j + 1)
<1>1. n \in Nat /\ n > 0
  BY ExactFacts
<1>2. b.mem[c[j]].next = IF j = n - 1 THEN NULL ELSE c[j+1]
  BY DEF Exact, Holds, Links
<1> QED  BY <1>1, <1>2 DEF Cursor

(* Where the transmission goes on, and the overflow flag. *)
WithNext(b, nx, ov) == [b EXCEPT !.next = nx, !.overflow = ov]

(* What such a change leaves as it is.                                     *)
LEMMA WithNextIs ==
  ASSUME NEW b, NEW nx, NEW ov, IsBuffer(b)
  PROVE  LET s == WithNext(b, nx, ov)
         IN  /\ IsBuffer(s)
             /\ s.mem = b.mem /\ s.oldest = b.oldest /\ s.last = b.last /\ s.next = nx
             /\ s.count = b.count /\ s.overflow = ov
             /\ \A c, len, n, L, m : Holds(b, c, len, n, L, m) => Holds(s, c, len, n, L, m)
<1>1. PICK s : s = [b EXCEPT !.next = nx, !.overflow = ov]
  OBVIOUS
<1>2. /\ IsBuffer(s)
      /\ s = [mem |-> b.mem, oldest |-> b.oldest, last |-> b.last, next |-> nx,
              count |-> b.count, overflow |-> ov]
      /\ \A c, len, n, L, m : Holds(b, c, len, n, L, m) => Holds(s, c, len, n, L, m)
  BY <1>1, SameEntries
<1>3. /\ s.mem = b.mem /\ s.oldest = b.oldest /\ s.last = b.last /\ s.next = nx
      /\ s.count = b.count /\ s.overflow = ov
  BY <1>2
<1>4. WithNext(b, nx, ov) = s
  BY <1>1 DEF WithNext
<1> QED  BY <1>2, <1>3, <1>4

(* The transmission goes on at another of the entries.                     *)
LEMMA MoveCursor ==
  ASSUME NEW b, NEW c, NEW len, NEW n, NEW m, NEW q, Exact(b, c, len, n, m, q), IsBuffer(b),
         NEW q2 \in 0..n, NEW ov
  PROVE  LET s == WithNext(b, Cursor(c, n, q2), ov)
         IN  /\ Exact(s, c, len, n, m, q2) /\ IsBuffer(s)
             /\ s.mem = b.mem /\ s.overflow = ov
<1>1. PICK s : s = WithNext(b, Cursor(c, n, q2), ov)
  OBVIOUS
<1>2. Holds(b, c, len, n, n - 1, m) /\ b.count = n
  BY DEF Exact
<1>3. /\ IsBuffer(s)
      /\ s.mem = b.mem /\ s.next = Cursor(c, n, q2) /\ s.count = n /\ s.overflow = ov
      /\ Holds(s, c, len, n, n - 1, m)
  BY <1>1, <1>2, WithNextIs
<1>4. Exact(s, c, len, n, m, q2)
  BY <1>3 DEF Exact
<1> QED  BY <1>1, <1>3, <1>4

-----------------------------------------------------------------------------
(* What ReportQueue sees of the buffer, operation by operation.            *)

(* What the queue of reports sees of an exact buffer.                      *)
LEMMA ViewIs ==
  ASSUME NEW b, NEW c, NEW len, NEW n, NEW m, NEW q, Exact(b, c, len, n, m, q)
  PROVE  /\ Ids(b) = [k \in 1..n |-> b.mem[c[k-1]].id]
         /\ Unsent(b) = n - q
<1>1. /\ n \in Nat /\ n > 0 /\ q \in 0..n /\ n <= Block /\ Block \in Nat
      /\ Length(b) = n
      /\ \A k \in 0..(n-1) : c[k] \in Nat
      /\ \A i, j \in 0..(n-1) : c[i] = c[j] => i = j
      /\ b.next = Cursor(c, n, q)
  <2>1. b.next = Cursor(c, n, q)
    BY DEF Exact
  <2> QED  BY <2>1, ExactFacts, BlockAssumption
<1>2. PICK w : w = Walk(b)
  OBVIOUS
<1>3. \A k \in 0..Block : w[k] = IF k < n THEN c[k] ELSE NULL
  BY <1>2, ExactFacts
<1>4. Ids(b) = [k \in 1..n |-> b.mem[c[k-1]].id]
  <2>1. Ids(b) = [k \in 1..n |-> b.mem[w[k-1]].id]
    BY <1>1, <1>2 DEF Ids
  <2>2. \A k \in 1..n : w[k-1] = c[k-1]
    BY <1>1, <1>3
  <2> QED  BY <2>1, <2>2
<1>5. Unsent(b) = n - q
  <2> DEFINE U == {k \in 0..Block : w[k] # NULL /\ \E j \in 0..k : w[j] = b.next}
  <2>1. Unsent(b) = Cardinality(U)
    BY <1>2 DEF Unsent
  <2>2. \A k \in 0..Block : w[k] # NULL <=> k < n
    BY <1>1, <1>3 DEF NULL
  <2>3. CASE q = n
    <3>1. b.next = NULL
      BY <1>1, <2>3 DEF Cursor
    <3>2. ASSUME NEW k \in 0..Block, k < n, NEW j \in 0..k
          PROVE  w[j] # NULL
      <4>1. j \in 0..Block /\ j < n
        BY <1>1, <3>2
      <4> QED  BY <2>2, <4>1
    <3>3. U = {}
      BY <2>2, <3>1, <3>2
    <3> HIDE DEF U
    <3> QED  BY <1>1, <2>1, <2>3, <3>3, FS_EmptySet
  <2>4. CASE q # n
    <3>1. q \in 0..(n-1) /\ b.next = c[q]
      BY <1>1, <2>4 DEF Cursor
    <3>2. ASSUME NEW k \in 0..Block, k < n, NEW j \in 0..k
          PROVE  w[j] = b.next <=> j = q
      <4>1. j \in 0..Block /\ j < n /\ j \in 0..(n-1)
        BY <1>1, <3>2
      <4> QED  BY <1>1, <1>3, <3>1, <4>1
    <3>3. ASSUME NEW k \in 0..Block, k < n
          PROVE  (\E j \in 0..k : w[j] = b.next) <=> q <= k
      <4>1. q \in 0..k <=> q <= k
        BY <1>1, <3>1
      <4> QED  BY <3>2, <3>3, <4>1
    <3>4. \A k \in 0..Block : k \in U <=> k < n /\ q <= k
      BY <2>2, <3>3
    <3>5. U = q..(n-1)
      <4>1. U \subseteq 0..Block
        OBVIOUS
      <4> HIDE DEF U
      <4>2. \A k \in q..(n-1) : k \in 0..Block /\ k < n /\ q <= k
        BY <1>1, <3>1
      <4>3. \A k \in 0..Block : k < n /\ q <= k => k \in q..(n-1)
        BY <1>1, <3>1
      <4> QED  BY <3>4, <4>1, <4>2, <4>3
    <3> HIDE DEF U
    <3>6. Cardinality(q..(n-1)) = n - q
      <4>1. q \in Int /\ n - 1 \in Int /\ ~(q > n - 1)
        BY <1>1, <3>1
      <4>2. Cardinality(q..(n-1)) = (n - 1) - q + 1
        BY <4>1, FS_Interval
      <4> QED  BY <1>1, <3>1, <4>2
    <3> QED  BY <2>1, <3>5, <3>6
  <2> QED  BY <2>3, <2>4
<1> QED  BY <1>4, <1>5

(* And of one without entries.                                             *)
LEMMA ViewUnused ==
  ASSUME NEW b, IsBuffer(b), Unused(b)
  PROVE  Ids(b) = <<>> /\ Unsent(b) = 0
<1>1. /\ Length(b) = 0 /\ \A k \in 0..Block : Walk(b)[k] = NULL
  BY EmptyChain DEF Unused
<1>2. Ids(b) = <<>>
  <2>1. 1..0 = {}
    OBVIOUS
  <2>2. Ids(b) = [k \in 1..0 |-> b.mem[Walk(b)[k-1]].id]
    BY <1>1 DEF Ids
  <2> QED  BY <2>1, <2>2
<1>3. Unsent(b) = 0
  <2>1. {k \in 0..Block : Walk(b)[k] # NULL /\ \E j \in 0..k : Walk(b)[j] = b.next} = {}
    BY <1>1
  <2> QED  BY <2>1, FS_EmptySet DEF Unsent
<1> QED  BY <1>2, <1>3

(* The same, with the row of ids as a name.                                *)
Row(b, c, n) == [k \in 1..n |-> b.mem[c[k-1]].id]

LEMMA ViewIsRow ==
  ASSUME NEW b, NEW c, NEW len, NEW n, NEW m, NEW q, Exact(b, c, len, n, m, q)
  PROVE  Ids(b) = Row(b, c, n) /\ Unsent(b) = n - q
BY ViewIs DEF Row

(* The list I of n without the k oldest, and x at the end.                 *)
Without(I, n, k, x) == [i \in 1..(n - k + 1) |-> IF i <= n - k THEN I[i + k] ELSE x]

(* ReportQueue writes it with sequences.                                   *)
LEMMA WithoutIs ==
  ASSUME NEW n \in Nat, NEW S, NEW I \in [1..n -> S], NEW k \in 0..n, NEW x \in S
  PROVE  Len(I) = n /\ Without(I, n, k, x) = Append(SubSeq(I, k + 1, Len(I)), x)
<1>1. I \in Seq(S) /\ Len(I) = n
  OBVIOUS
<1>2. PICK T : T = SubSeq(I, k + 1, n)
  OBVIOUS
<1>3. T = [i \in 1..(n - k) |-> I[i + k]]
  <2>1. T = [i \in 1..(1 + n - (k + 1)) |-> I[i + (k + 1) - 1]]
    BY <1>1, <1>2
  <2>2. PICK l \in Nat : l = n - k
    OBVIOUS
  <2>3. 1 + n - (k + 1) = l
    BY <2>2
  <2>4. \A i \in 1..l : i + (k + 1) - 1 = i + k
    BY <2>2
  <2> QED  BY <2>1, <2>2, <2>3, <2>4
<1>4. PICK l \in Nat : l = n - k
  OBVIOUS
<1>5. T \in Seq(S) /\ Len(T) = l
  BY <1>3, <1>4
<1>6. Append(T, x) = [i \in 1..(l + 1) |-> IF i <= l THEN T[i] ELSE x]
  <2>1. PICK A : A = Append(T, x)
    OBVIOUS
  <2>2. A \in Seq(S) /\ Len(A) = l + 1 /\ DOMAIN A = 1..(l + 1)
    <3>1. A \in Seq(S) /\ Len(A) = Len(T) + 1
      BY <1>5, <2>1
    <3>2. Len(A) = l + 1
      BY <1>5, <3>1
    <3>3. DOMAIN A = 1..Len(A)
      BY <3>1
    <3> QED  BY <3>1, <3>2, <3>3
  <2>3. \A i \in 1..l : A[i] = T[i]
    BY <1>4, <1>5, <2>1
  <2>4. A[l + 1] = x
    BY <1>4, <1>5, <2>1
  <2>5. A = [i \in 1..(l + 1) |-> A[i]]
    BY <1>4, <2>2
  <2>6. \A i \in 1..(l + 1) : A[i] = IF i <= l THEN T[i] ELSE x
    BY <1>4, <2>3, <2>4
  <2> QED  BY <2>1, <2>5, <2>6
<1>7. \A i \in 1..(l + 1) : i <= l => T[i] = I[i + k]
  BY <1>3, <1>4
<1>8. Append(T, x) = Without(I, n, k, x)
  BY <1>4, <1>6, <1>7 DEF Without
<1> QED  BY <1>1, <1>2, <1>8

(* What ReportQueue says of a report that is stored for the k oldest ones. *)
Stored(b, s, id, k) ==
  LET left == Len(Ids(b)) - k
  IN  /\ Ids(s) = Append(SubSeq(Ids(b), k + 1, Len(Ids(b))), id)
      /\ Unsent(s) = (IF Unsent(b) > left THEN left ELSE Unsent(b)) + 1
      /\ s.overflow = (b.overflow \/ (Unsent(b) > left /\ Len(Ids(b)) > 1))

(* As many reports as there are entries.                                   *)
LEMMA ViewLen ==
  ASSUME NEW b, NEW c, NEW len, NEW n, NEW m, NEW q, Exact(b, c, len, n, m, q)
  PROVE  Len(Ids(b)) = n
<1>1. n \in Nat
  BY ExactFacts
<1>2. PICK I : I = Ids(b)
  OBVIOUS
<1>3. I = [k \in 1..n |-> b.mem[c[k-1]].id]
  BY <1>2, ViewIs
<1>4. Len(I) = n
  BY <1>1, <1>3
<1> QED  BY <1>2, <1>4

(* A stored report is one to the queue, for some of the oldest ones.       *)
LEMMA StoreWell ==
  ASSUME NEW b, WellBuffer(b),
         NEW entry, IsEntry(entry), entry.len \in 1..Block, entry.next = NULL
  PROVE  LET s == Store(b, entry)
         IN  WellBuffer(s) /\ \E k \in 0..Len(Ids(b)) : Stored(b, s, entry.id, k)
<1>1. PICK s : s = Store(b, entry)
  OBVIOUS
<1>2. IsBuffer(b) /\ b.overflow \in BOOLEAN
  BY DEF WellBuffer
<1> DEFINE Goal == WellBuffer(s) /\ \E k \in 0..Len(Ids(b)) : Stored(b, s, entry.id, k)
<1>3. ASSUME Unused(b)
      PROVE  Goal
  <2>1. PICK c, len : Exact(s, c, len, 1, 1, 0) /\ s.mem[c[0]] = entry
    BY <1>1, <1>2, <1>3, StoreFirstExact
  <2>2. IsBuffer(s) /\ s.overflow = b.overflow
    BY <1>1, <1>2, <1>3, StoreFirstExact
  <2>3. WellBuffer(s)
    BY <1>2, <2>1, <2>2 DEF WellBuffer
  <2>4. Ids(b) = <<>> /\ Unsent(b) = 0
    BY <1>2, <1>3, ViewUnused
  <2>5. Ids(s) = [k \in 1..1 |-> s.mem[c[k-1]].id] /\ Unsent(s) = 1
    <3>1. Exact(s, c, len, 1, 1, 0)
      BY <2>1
    <3>2. Ids(s) = Row(s, c, 1) /\ Unsent(s) = 1 - 0
      BY <3>1, ViewIsRow
    <3> QED  BY <3>2 DEF Row
  <2>6. PICK x : x = entry.id
    OBVIOUS
  <2>7. PICK I : I = Ids(s)
    OBVIOUS
  <2>8. I = <<x>>
    <3>1. \A k \in 1..1 : s.mem[c[k-1]].id = x
      BY <2>1, <2>6
    <3>2. I = [k \in 1..1 |-> x]
      BY <2>5, <2>7, <3>1
    <3> QED  BY <3>2
  <2>9. I = Append(SubSeq(<<>>, 0 + 1, Len(<<>>)), x) /\ Len(<<>>) = 0
    BY <2>8
  <2>10. Stored(b, s, x, 0)
    <3>1. ~(Unsent(b) > Len(Ids(b)) - 0)
      BY <2>4, <2>9
    <3>2. s.overflow = (b.overflow \/ (Unsent(b) > Len(Ids(b)) - 0 /\ Len(Ids(b)) > 1))
      BY <1>2, <2>2, <3>1
    <3>3. Unsent(s) = (IF Unsent(b) > Len(Ids(b)) - 0 THEN Len(Ids(b)) - 0 ELSE Unsent(b)) + 1
      BY <2>4, <2>5, <3>1
    <3>4. Ids(s) = Append(SubSeq(Ids(b), 0 + 1, Len(Ids(b))), x)
      BY <2>4, <2>7, <2>9
    <3> QED  BY <3>2, <3>3, <3>4 DEF Stored
  <2> QED  BY <2>3, <2>4, <2>6, <2>9, <2>10
<1>4. ASSUME NEW c, NEW len, NEW n, NEW m, NEW q, Exact(b, c, len, n, m, q)
      PROVE  Goal
  <2>1. PICK pos : pos = Position(b, entry.len)
    OBVIOUS
  <2>2. PICK k : k = Dropped(b, entry.len)
    OBVIOUS
  <2>3. PICK d : d = Remaining(c, n, k, pos)
    OBVIOUS
  <2>4. PICK e : e = Remaining(len, n, k, entry.len)
    OBVIOUS
  <2>5. /\ k \in 0..n
        /\ \E w : Exact(s, d, e, n - k + 1, w, CursorAfter(q, k))
        /\ IsBuffer(s)
        /\ s.overflow = IF n = 1 THEN b.overflow ELSE b.overflow \/ q < k
        /\ \A i \in 0..(n - k) : s.mem[d[i]].id = IF i < n - k THEN b.mem[c[i + k]].id
                                                  ELSE entry.id
    BY <1>1, <1>2, <1>4, <2>1, <2>2, <2>3, <2>4, StoreExact
  <2>6. PICK w : Exact(s, d, e, n - k + 1, w, CursorAfter(q, k))
    BY <2>5
  <2>7. s.overflow \in BOOLEAN
    BY <1>2, <2>5
  <2>8. WellBuffer(s)
    BY <2>5, <2>6, <2>7 DEF WellBuffer
  <2>9. n \in Nat /\ n > 0 /\ q \in 0..n
    BY <1>4, ExactFacts
  <2>10. PICK I : I = Ids(b)
    OBVIOUS
  <2>11. PICK x : x = entry.id
    OBVIOUS
  <2>12. I = [i \in 1..n |-> b.mem[c[i-1]].id] /\ Unsent(b) = n - q
    BY <1>4, <2>10, ViewIs
  <2>13. Ids(s) = [i \in 1..(n - k + 1) |-> s.mem[d[i-1]].id]
         /\ Unsent(s) = n - k + 1 - CursorAfter(q, k)
    <3>1. PICK nn : nn = n - k + 1
      OBVIOUS
    <3>2. Exact(s, d, e, nn, w, CursorAfter(q, k))
      BY <2>6, <3>1
    <3>3. Ids(s) = [i \in 1..nn |-> s.mem[d[i-1]].id] /\ Unsent(s) = nn - CursorAfter(q, k)
      BY <3>2, ViewIs
    <3>4. Ids(s) = [i \in 1..(n - k + 1) |-> s.mem[d[i-1]].id]
      BY <3>1, <3>3
    <3>5. Unsent(s) = n - k + 1 - CursorAfter(q, k)
      <4>1. PICK z : z = CursorAfter(q, k)
        OBVIOUS
      <4>2. z \in Nat /\ nn \in Nat
        BY <2>5, <2>9, <3>1, <4>1 DEF CursorAfter
      <4>3. Unsent(s) = nn - z
        BY <3>3, <4>1
      <4> QED  BY <2>5, <2>9, <3>1, <4>1, <4>2, <4>3
    <3> QED  BY <3>4, <3>5
  <2>14. Ids(s) = Without(I, n, k, x)
    <3>1. ASSUME NEW i \in 1..(n - k + 1)
          PROVE  s.mem[d[i-1]].id = IF i <= n - k THEN I[i + k] ELSE x
      <4>1. PICK j \in 0..(n - k) : j = i - 1
        BY <2>5, <2>9
      <4>2. s.mem[d[j]].id = IF j < n - k THEN b.mem[c[j + k]].id ELSE x
        BY <2>5, <2>11
      <4>3. i <= n - k <=> j < n - k
        BY <2>5, <2>9, <4>1
      <4>4. i <= n - k => i + k \in 1..n /\ i + k - 1 = j + k
        BY <2>5, <2>9, <4>1
      <4>5. i <= n - k => I[i + k] = b.mem[c[j + k]].id
        <5> SUFFICES ASSUME i <= n - k
                     PROVE  I[i + k] = b.mem[c[j + k]].id
          OBVIOUS
        <5>1. PICK z \in 1..n : z = i + k
          BY <4>4
        <5>2. I[z] = b.mem[c[z-1]].id
          BY <2>12
        <5>3. z - 1 = j + k
          BY <2>5, <2>9, <4>1, <5>1
        <5> QED  BY <5>1, <5>2, <5>3
      <4> QED  BY <4>1, <4>2, <4>3, <4>5
    <3> QED  BY <2>13, <3>1 DEF Without
  <2>15. Len(I) = n /\ Ids(s) = Append(SubSeq(I, k + 1, Len(I)), x)
    <3> DEFINE S == {I[i] : i \in 1..n} \cup {x}
    <3>1. I \in [1..n -> S] /\ x \in S
      BY <2>12
    <3> HIDE DEF S
    <3>2. k \in 0..n
      BY <2>5
    <3>3. Len(I) = n /\ Without(I, n, k, x) = Append(SubSeq(I, k + 1, Len(I)), x)
      BY <2>9, <3>1, <3>2, WithoutIs
    <3> QED  BY <2>14, <3>3
  <2>16. Stored(b, s, x, k)
    <3>1. Unsent(b) > Len(Ids(b)) - k <=> q < k
      BY <2>5, <2>9, <2>10, <2>12, <2>15
    <3>2. Unsent(s) = (IF Unsent(b) > Len(Ids(b)) - k THEN Len(Ids(b)) - k ELSE Unsent(b)) + 1
      BY <2>5, <2>9, <2>10, <2>12, <2>13, <2>15 DEF CursorAfter
    <3>3. s.overflow = (b.overflow \/ (Unsent(b) > Len(Ids(b)) - k /\ Len(Ids(b)) > 1))
      <4>1. Len(Ids(b)) > 1 <=> n # 1
        BY <2>9, <2>10, <2>15
      <4>2. CASE n = 1
        BY <1>2, <2>5, <4>1, <4>2
      <4>3. CASE n # 1
        BY <2>5, <3>1, <4>1, <4>3
      <4> QED  BY <4>2, <4>3
    <3> QED  BY <2>10, <2>15, <3>2, <3>3 DEF Stored
  <2> QED  BY <2>5, <2>8, <2>10, <2>11, <2>15, <2>16
<1>5. Goal
  BY <1>3, <1>4 DEF WellBuffer
<1> QED  BY <1>1, <1>5

(* The same reports; u of them are to be transmitted. *)
Moved(b, s, u, ov) ==
  WellBuffer(s) /\ Ids(s) = Ids(b) /\ Unsent(s) = u /\ s.overflow = ov

(* The operations that move the transmission, on a buffer with entries.    *)
LEMMA MovedWell ==
  ASSUME NEW b, NEW c, NEW len, NEW n, NEW m, NEW q, Exact(b, c, len, n, m, q), IsBuffer(b),
         NEW q2 \in 0..n, NEW ov \in BOOLEAN
  PROVE  Moved(b, WithNext(b, Cursor(c, n, q2), ov), n - q2, ov)
<1>1. PICK s : s = WithNext(b, Cursor(c, n, q2), ov)
  OBVIOUS
<1>2. /\ Exact(s, c, len, n, m, q2) /\ IsBuffer(s)
      /\ s.mem = b.mem /\ s.overflow = ov
  BY <1>1, MoveCursor
<1>3. WellBuffer(s)
  BY <1>2 DEF WellBuffer
<1>4. Ids(s) = [k \in 1..n |-> s.mem[c[k-1]].id] /\ Unsent(s) = n - q2
  BY <1>2, ViewIs
<1>5. Ids(b) = [k \in 1..n |-> b.mem[c[k-1]].id]
  BY ViewIs
<1>6. Ids(s) = Ids(b)
  BY <1>2, <1>4, <1>5
<1> QED  BY <1>1, <1>2, <1>3, <1>4, <1>6 DEF Moved

(* And on one without.                                                     *)
LEMMA UnusedMoved ==
  ASSUME NEW b, IsBuffer(b), Unused(b), NEW s, IsBuffer(s), Unused(s), s.overflow \in BOOLEAN
  PROVE  Moved(b, s, 0, s.overflow)
<1>1. Ids(b) = <<>> /\ Ids(s) = <<>> /\ Unsent(s) = 0
  BY ViewUnused
<1> QED  BY <1>1 DEF Moved, WellBuffer

(* The two kinds of buffer, as the queue sees them.                        *)
LEMMA WellCases ==
  ASSUME NEW b, WellBuffer(b)
  PROVE  /\ IsBuffer(b) /\ b.overflow \in BOOLEAN
         /\ \/ Unused(b) /\ Ids(b) = <<>> /\ Len(Ids(b)) = 0 /\ Unsent(b) = 0
            \/ \E c, len, n, m, q : /\ Exact(b, c, len, n, m, q)
                                    /\ n \in Nat /\ n > 0 /\ q \in 0..n
                                    /\ Len(Ids(b)) = n /\ Unsent(b) = n - q
<1>1. IsBuffer(b) /\ b.overflow \in BOOLEAN
  BY DEF WellBuffer
<1>2. ASSUME Unused(b)
      PROVE  Ids(b) = <<>> /\ Len(Ids(b)) = 0 /\ Unsent(b) = 0
  BY <1>1, <1>2, ViewUnused
<1>3. ASSUME NEW c, NEW len, NEW n, NEW m, NEW q, Exact(b, c, len, n, m, q)
      PROVE  n \in Nat /\ n > 0 /\ q \in 0..n /\ Len(Ids(b)) = n /\ Unsent(b) = n - q
  BY <1>3, ExactFacts, ViewIs, ViewLen
<1> QED  BY <1>1, <1>2, <1>3 DEF WellBuffer

(* The transmission starts over.                                           *)
LEMMA RewindWell ==
  ASSUME NEW b, WellBuffer(b)
  PROVE  Moved(b, Rewind(b), Len(Ids(b)), TRUE)
<1>1. IsBuffer(b) /\ Rewind(b) = WithNext(b, b.oldest, TRUE)
  BY WellCases DEF Rewind, WithNext
<1>2. ASSUME Unused(b), Len(Ids(b)) = 0
      PROVE  Moved(b, Rewind(b), Len(Ids(b)), TRUE)
  <2>1. PICK s : s = WithNext(b, b.oldest, TRUE)
    OBVIOUS
  <2>2. /\ IsBuffer(s) /\ s.oldest = b.oldest /\ s.last = b.last /\ s.next = b.oldest
        /\ s.count = b.count /\ s.overflow = TRUE
    <3>1. PICK x, o : x = b.oldest /\ o = TRUE
      OBVIOUS
    <3>2. PICK t : t = WithNext(b, x, o)
      OBVIOUS
    <3>3. /\ IsBuffer(t) /\ t.oldest = b.oldest /\ t.last = b.last /\ t.next = x
          /\ t.count = b.count /\ t.overflow = o
      BY <1>1, <3>2, WithNextIs
    <3>4. s = t
      BY <2>1, <3>1, <3>2
    <3> QED  BY <3>1, <3>3, <3>4
  <2>3. Empty(s) /\ s.next = NULL /\ s.count = 0
    BY <1>2, <2>2 DEF Unused, Empty
  <2> QED  BY <1>1, <1>2, <2>1, <2>2, <2>3, UnusedMoved DEF Unused
<1>3. ASSUME NEW c, NEW len, NEW n, NEW m, NEW q, Exact(b, c, len, n, m, q),
             n \in Nat, n > 0, Len(Ids(b)) = n
      PROVE  Moved(b, Rewind(b), Len(Ids(b)), TRUE)
  <2>1. b.oldest = Cursor(c, n, 0)
    BY <1>3 DEF Exact, Holds, Links, Cursor
  <2>2. 0 \in 0..n /\ n - 0 = n
    BY <1>3
  <2>3. Moved(b, WithNext(b, Cursor(c, n, 0), TRUE), n - 0, TRUE)
    BY <1>1, <1>3, <2>2, MovedWell
  <2> QED  BY <1>1, <1>3, <2>1, <2>2, <2>3
<1> QED  BY <1>2, <1>3, WellCases

(* Only the overflow flag is set.                                          *)
LEMMA OverflowWell ==
  ASSUME NEW b, WellBuffer(b)
  PROVE  Moved(b, [b EXCEPT !.overflow = TRUE], Unsent(b), TRUE)
<1>1. IsBuffer(b)
  BY WellCases
<1>2. PICK s : s = [b EXCEPT !.overflow = TRUE]
  OBVIOUS
<1>3. s = WithNext(b, b.next, TRUE)
  BY <1>1, <1>2, OverflowIs DEF WithNext
<1>4. ASSUME Unused(b), Unsent(b) = 0
      PROVE  Moved(b, s, Unsent(b), TRUE)
  <2>1. /\ IsBuffer(s) /\ s.oldest = b.oldest /\ s.last = b.last /\ s.next = b.next
        /\ s.count = b.count /\ s.overflow = TRUE
    <3>1. PICK x, o : x = b.next /\ o = TRUE
      OBVIOUS
    <3>2. PICK t : t = WithNext(b, x, o)
      OBVIOUS
    <3>3. /\ IsBuffer(t) /\ t.oldest = b.oldest /\ t.last = b.last /\ t.next = x
          /\ t.count = b.count /\ t.overflow = o
      BY <1>1, <3>2, WithNextIs
    <3>4. s = t
      BY <1>3, <3>1, <3>2
    <3> QED  BY <3>1, <3>3, <3>4
  <2>2. Empty(s) /\ s.next = NULL /\ s.count = 0
    BY <1>4, <2>1 DEF Unused, Empty
  <2> QED  BY <1>1, <1>4, <2>1, <2>2, UnusedMoved DEF Unused
<1>5. ASSUME NEW c, NEW len, NEW n, NEW m, NEW q, Exact(b, c, len, n, m, q),
             n \in Nat, n > 0, q \in 0..n, Unsent(b) = n - q
      PROVE  Moved(b, s, Unsent(b), TRUE)
  <2>1. b.next = Cursor(c, n, q)
    BY <1>5 DEF Exact
  <2>2. Moved(b, WithNext(b, Cursor(c, n, q), TRUE), n - q, TRUE)
    BY <1>1, <1>5, MovedWell
  <2> QED  BY <1>3, <1>5, <2>1, <2>2
<1>6. Moved(b, s, Unsent(b), TRUE)
  BY <1>4, <1>5, WellCases
<1> QED  BY <1>2, <1>6

(* The next report is transmitted.                                         *)
LEMMA TransmittedWell ==
  ASSUME NEW b, WellBuffer(b), b.next # NULL
  PROVE  Unsent(b) > 0 /\ Moved(b, Transmitted(b, TRUE), Unsent(b) - 1, FALSE)
<1>1. IsBuffer(b)
  BY WellCases
<1>2. Transmitted(b, TRUE) = WithNext(b, b.mem[b.next].next, FALSE)
  BY <1>1, RewritesNext DEF WithNext
<1>3. ~Unused(b)
  BY DEF Unused
<1>4. PICK c, len, n, m, q : /\ Exact(b, c, len, n, m, q)
                             /\ n \in Nat /\ n > 0 /\ q \in 0..n
                             /\ Len(Ids(b)) = n /\ Unsent(b) = n - q
  BY <1>3, WellCases
<1>5. q \in 0..(n-1) /\ b.next = c[q]
  BY <1>4 DEF Exact, Cursor
<1>6. q + 1 \in 0..n /\ b.mem[c[q]].next = Cursor(c, n, q + 1)
  BY <1>4, <1>5, NextLink
<1>7. PICK q2 \in 0..n : q2 = q + 1
  BY <1>6
<1>8. Moved(b, WithNext(b, Cursor(c, n, q2), FALSE), n - q2, FALSE)
  BY <1>1, <1>4, MovedWell
<1>9. n - q2 = Unsent(b) - 1 /\ Unsent(b) > 0
  BY <1>4, <1>5, <1>7
<1> QED  BY <1>2, <1>5, <1>6, <1>7, <1>8, <1>9

(* The transmission resumes after one of the reports.                      *)
LEMMA ResumedWell ==
  ASSUME NEW b, WellBuffer(b), NEW id, Holding(b, id) # {}
  PROVE  \E k \in 1..Len(Ids(b)) : Moved(b, ResumeAfter(b, id), Len(Ids(b)) - k, FALSE)
<1>1. IsBuffer(b)
  BY WellCases
<1>2. PICK p : p = CHOOSE x \in Holding(b, id) : TRUE
  OBVIOUS
<1>3. p \in Chain(b)
  BY <1>2 DEF Holding
<1>4. ResumeAfter(b, id) = WithNext(b, b.mem[p].next, FALSE)
  BY <1>2 DEF ResumeAfter, WithNext
<1>5. ~Unused(b)
  BY <1>1, <1>3, EmptyChain DEF Unused
<1>6. PICK c, len, n, m, q : /\ Exact(b, c, len, n, m, q)
                             /\ n \in Nat /\ n > 0 /\ q \in 0..n
                             /\ Len(Ids(b)) = n /\ Unsent(b) = n - q
  BY <1>5, WellCases
<1>7. Chain(b) = {c[j] : j \in 0..(n-1)}
  BY <1>6, ExactFacts
<1>8. PICK j \in 0..(n-1) : p = c[j]
  BY <1>3, <1>7
<1>9. j + 1 \in 0..n /\ b.mem[c[j]].next = Cursor(c, n, j + 1)
  BY <1>6, NextLink
<1>10. PICK k \in 0..n : k = j + 1
  BY <1>9
<1>11. Moved(b, WithNext(b, Cursor(c, n, k), FALSE), n - k, FALSE)
  BY <1>1, <1>6, MovedWell
<1>12. k \in 1..n
  BY <1>6, <1>10
<1>13. Moved(b, ResumeAfter(b, id), n - k, FALSE)
  BY <1>4, <1>8, <1>9, <1>10, <1>11
<1> QED  BY <1>6, <1>12, <1>13

(* All reports are given up.                                               *)
LEMMA PurgedWell ==
  ASSUME NEW b, WellBuffer(b)
  PROVE  /\ WellBuffer(Purge(b)) /\ Purge(b).next = NULL
         /\ Ids(Purge(b)) = <<>> /\ Unsent(Purge(b)) = 0 /\ Purge(b).overflow = b.overflow
<1>1. IsBuffer(b) /\ b.overflow \in BOOLEAN
  BY WellCases
<1>2. /\ IsBuffer(Purge(b)) /\ Unused(Purge(b)) /\ Purge(b).overflow = b.overflow
  BY <1>1, Purged DEF Unused
<1>3. Ids(Purge(b)) = <<>> /\ Unsent(Purge(b)) = 0
  BY <1>2, ViewUnused
<1> QED  BY <1>1, <1>2, <1>3 DEF WellBuffer, Unused

(* Where no interrogation is in the buffer, removing them changes nothing  *)
(* that the queue sees.                                                    *)
LEMMA RemovedWell ==
  ASSUME NEW b, WellBuffer(b), \A p \in Chain(b) : b.mem[p].kind # "gi"
  PROVE  Moved(b, RemoveGI(b), Unsent(b), b.overflow)
<1>1. IsBuffer(b) /\ b.overflow \in BOOLEAN
  BY WellCases
<1>2. PICK r : r = RemoveGI(b)
  OBVIOUS
<1>3. ASSUME Unused(b), Unsent(b) = 0
      PROVE  Moved(b, r, Unsent(b), b.overflow)
  <2>1. IsBuffer(r) /\ Unused(r) /\ r.overflow = b.overflow
    BY <1>1, <1>2, <1>3, RemoveGIEmpty DEF Unused
  <2> QED  BY <1>1, <1>3, <2>1, UnusedMoved
<1>4. ASSUME NEW c, NEW len, NEW n, NEW m, NEW q, Exact(b, c, len, n, m, q),
             n \in Nat, n > 0, q \in 0..n, Unsent(b) = n - q
      PROVE  Moved(b, r, Unsent(b), b.overflow)
  <2>1. Chain(b) = {c[j] : j \in 0..(n-1)}
    BY <1>4, ExactFacts
  <2>2. \A j \in 0..(n-1) : b.mem[c[j]].kind # "gi"
    BY <2>1
  <2>3. b.next = NULL \/ \E j \in 0..(n-1) : b.next = c[j]
    BY <1>4 DEF Exact, Cursor
  <2>4. Holds(b, c, len, n, n - 1, m) /\ b.count = n /\ b.next = Cursor(c, n, q)
    BY <1>4 DEF Exact
  <2>5. /\ Holds(r, c, len, n, n - 1, m) /\ IsBuffer(r)
        /\ r.next = b.next /\ r.count = b.count /\ r.overflow = b.overflow
        /\ \A k \in 0..(n-1) : r.mem[c[k]].id = b.mem[c[k]].id
    <3> DEFINE t == RemoveGI(b)
    <3>1. n - 1 = n - 1 /\ Holds(b, c, len, n, n - 1, m)
      BY <2>4
    <3>2. /\ Holds(t, c, len, n, n - 1, m) /\ IsBuffer(t)
          /\ t.next = b.next /\ t.count = b.count /\ t.overflow = b.overflow
          /\ \A k \in 0..(n-1) : t.mem[c[k]].id = b.mem[c[k]].id
      BY <1>1, <2>2, <2>3, <3>1, RemoveNoGI
    <3>3. r = t
      BY <1>2
    <3> HIDE DEF t
    <3> QED  BY <3>2, <3>3
  <2>6. Exact(r, c, len, n, m, q)
    BY <1>4, <2>4, <2>5 DEF Exact
  <2>7. Ids(r) = [k \in 1..n |-> r.mem[c[k-1]].id] /\ Unsent(r) = n - q
    BY <2>6, ViewIs
  <2>8. Ids(b) = [k \in 1..n |-> b.mem[c[k-1]].id]
    BY <1>4, ViewIs
  <2>9. \A k \in 1..n : r.mem[c[k-1]].id = b.mem[c[k-1]].id
    <3> SUFFICES ASSUME NEW k \in 1..n
                 PROVE  r.mem[c[k-1]].id = b.mem[c[k-1]].id
      OBVIOUS
    <3>1. k - 1 \in 0..(n-1)
      BY <1>4
    <3> QED  BY <2>5, <3>1
  <2>10. Ids(r) = Ids(b)
    BY <2>7, <2>8, <2>9
  <2> QED  BY <1>1, <1>4, <2>5, <2>6, <2>7, <2>10 DEF Moved, WellBuffer
<1>5. Moved(b, r, Unsent(b), b.overflow)
  BY <1>3, <1>4, WellCases
<1> QED  BY <1>2, <1>5

-----------------------------------------------------------------------------
(* The theorems.                                                           *)

(* No earlier interrogation is in the buffer when one is reported. *)
NoGI == \A p \in Chain(buf) : buf.mem[p].kind # "gi"

(* Behaviours in which that is so of every interrogation report.           *)
NoneReplaced == [][ReportGI => NoGI]_vars

(* The inductive invariant: the buffer is exact, and who is about to       *)
(* transmit has a report.                                                  *)
BufferExact == WellBuffer(buf) /\ (sending => buf.next # NULL)

(* Making a report.                                                        *)
LEMMA StoredStep ==
  ASSUME Inv, WellBuffer(buf), Enqueues, ReportGI => NoGI
  PROVE  /\ WellBuffer(buf')
         /\ \/ UNCHANGED <<buf, lastEntryId>>
            \/ /\ lastEntryId' = lastEntryId + 1
               /\ \E k \in 0..Len(Ids(buf)) : Stored(buf, buf', lastEntryId + 1, k)
<1>1. PICK b : b = buf
  OBVIOUS
<1>2. PICK b2 : b2 = buf'
  OBVIOUS
<1>3. PICK id : id = lastEntryId + 1
  OBVIOUS
<1>4. WellBuffer(b) /\ b.overflow \in BOOLEAN
  BY <1>1, WellCases
<1>5. PICK kind : (\E S \in SUBSET Members : EnqueueReport(kind, S)) /\ (kind = "gi" => ReportGI)
  BY DEF Enqueues
<1>6. PICK S \in SUBSET Members : EnqueueReport(kind, S)
  BY <1>5
<1>7. PICK entry : entry = Entry(lastEntryId + 1, EntrySize(S), kind, S)
  OBVIOUS
<1>8. PICK base : base = IF kind = "gi" THEN RemoveGI(buf) ELSE buf
  OBVIOUS
<1>9. \/ UNCHANGED <<buf, lastEntryId>>
      \/ /\ EntrySize(S) \in 1..Block
         /\ buf' = Store(base, entry) /\ lastEntryId' = lastEntryId + 1
  BY <1>6, <1>7, <1>8, EnqueuedIs
<1>10. IsEntry(entry) /\ entry.next = NULL /\ entry.len = EntrySize(S) /\ entry.id = id
  BY <1>3, <1>7, EntryIs
<1>11. Moved(b, base, Unsent(b), b.overflow)
  <2>1. CASE kind = "gi"
    <3>1. \A p \in Chain(b) : b.mem[p].kind # "gi"
      BY <1>1, <1>5, <2>1 DEF NoGI
    <3>2. base = RemoveGI(b)
      BY <1>1, <1>8, <2>1
    <3> QED  BY <1>4, <3>1, <3>2, RemovedWell
  <2>2. CASE kind # "gi"
    <3>1. base = b
      BY <1>1, <1>8, <2>2
    <3> QED  BY <1>4, <3>1 DEF Moved
  <2> QED  BY <2>1, <2>2
<1>12. WellBuffer(base) /\ Ids(base) = Ids(b) /\ Unsent(base) = Unsent(b)
       /\ base.overflow = b.overflow
  BY <1>11 DEF Moved
<1>13. ASSUME entry.len \in 1..Block, b2 = Store(base, entry)
       PROVE  WellBuffer(b2) /\ \E k \in 0..Len(Ids(b)) : Stored(b, b2, id, k)
  <2>1. WellBuffer(b2) /\ \E k \in 0..Len(Ids(base)) : Stored(base, b2, id, k)
    BY <1>10, <1>12, <1>13, StoreWell
  <2>2. PICK k \in 0..Len(Ids(b)) : Stored(base, b2, id, k)
    BY <1>12, <2>1
  <2>3. Stored(b, b2, id, k)
    BY <1>12, <2>2 DEF Stored
  <2> QED  BY <2>1, <2>3
<1>14. CASE UNCHANGED <<buf, lastEntryId>>
  BY <1>1, <1>4, <1>14
<1>15. CASE EntrySize(S) \in 1..Block /\ buf' = Store(base, entry) /\ lastEntryId' = lastEntryId + 1
  <2>1. WellBuffer(b2) /\ \E k \in 0..Len(Ids(b)) : Stored(b, b2, id, k)
    BY <1>2, <1>10, <1>13, <1>15
  <2>2. \E k \in 0..Len(Ids(buf)) : Stored(buf, buf', lastEntryId + 1, k)
    BY <1>1, <1>2, <1>3, <2>1
  <2> QED  BY <1>2, <1>15, <2>1, <2>2
<1> QED  BY <1>9, <1>14, <1>15

(* Writing an attribute.                                                   *)
LEMMA RewrittenStep ==
  ASSUME WellBuffer(buf), Rewrites
  PROVE  /\ lastEntryId' = lastEntryId
         /\ \/ Moved(buf, buf', Len(Ids(buf)), TRUE)
            \/ Moved(buf, buf', Unsent(buf), TRUE)
            \/ WellBuffer(buf') /\ Ids(buf') = <<>> /\ Unsent(buf') = 0
               /\ buf'.overflow = buf.overflow
            \/ \E k \in 1..Len(Ids(buf)) : Moved(buf, buf', Len(Ids(buf)) - k, FALSE)
<1>1. PICK b : b = buf
  OBVIOUS
<1>2. PICK b2 : b2 = buf'
  OBVIOUS
<1>3. WellBuffer(b)
  BY <1>1
<1>4. ASSUME buf' = Rewind(buf)
      PROVE  Moved(b, b2, Len(Ids(b)), TRUE)
  BY <1>1, <1>2, <1>3, <1>4, RewindWell
<1>5. ASSUME buf' = [buf EXCEPT !.overflow = TRUE]
      PROVE  Moved(b, b2, Unsent(b), TRUE)
  <2>1. b2 = [b EXCEPT !.overflow = TRUE]
    BY <1>1, <1>2, <1>5
  <2> QED  BY <1>3, <2>1, OverflowWell
<1>6. ASSUME buf' = Purge(buf)
      PROVE  WellBuffer(b2) /\ Ids(b2) = <<>> /\ Unsent(b2) = 0 /\ b2.overflow = b.overflow
  <2>1. b2 = Purge(b)
    BY <1>1, <1>2, <1>6
  <2> QED  BY <1>3, <2>1, PurgedWell
<1>7. ASSUME NEW id \in Nat, Holding(buf, id) # {}, buf' = ResumeAfter(buf, id)
      PROVE  \E k \in 1..Len(Ids(b)) : Moved(b, b2, Len(Ids(b)) - k, FALSE)
  <2>1. Holding(b, id) # {} /\ b2 = ResumeAfter(b, id)
    BY <1>1, <1>2, <1>7
  <2> QED  BY <1>3, <2>1, ResumedWell
<1>8. \/ Moved(b, b2, Len(Ids(b)), TRUE)
      \/ Moved(b, b2, Unsent(b), TRUE)
      \/ WellBuffer(b2) /\ Ids(b2) = <<>> /\ Unsent(b2) = 0 /\ b2.overflow = b.overflow
      \/ \E k \in 1..Len(Ids(b)) : Moved(b, b2, Len(Ids(b)) - k, FALSE)
  BY <1>4, <1>5, <1>6, <1>7 DEF Rewrites
<1> QED  BY <1>1, <1>2, <1>8 DEF Rewrites

(* Transmitting a report.                                                  *)
LEMMA TransmittedStep ==
  ASSUME BufferExact, Transmits
  PROVE  /\ lastEntryId' = lastEntryId
         /\ Unsent(buf) > 0 /\ Moved(buf, buf', Unsent(buf) - 1, FALSE)
<1>1. PICK b : b = buf
  OBVIOUS
<1>2. PICK b2 : b2 = buf'
  OBVIOUS
<1>3. WellBuffer(b) /\ b.next # NULL
  BY <1>1 DEF BufferExact, Transmits
<1>4. b2 = Transmitted(b, TRUE)
  BY <1>1, <1>2 DEF Transmits
<1>5. Unsent(b) > 0 /\ Moved(b, b2, Unsent(b) - 1, FALSE)
  BY <1>3, <1>4, TransmittedWell
<1> QED  BY <1>1, <1>2, <1>5 DEF Transmits

(* Every step that replaces no interrogation keeps the buffer exact.       *)
LEMMA NextExact ==
  ASSUME Inv, BufferExact, [Next]_vars, ReportGI => NoGI
  PROVE  BufferExact'
<1>1. /\ UNCHANGED <<buf, lastEntryId>> \/ Enqueues \/ Transmits \/ Rewrites
      /\ sending' => buf' = buf /\ (sending \/ buf.next # NULL)
  BY BufferSteps
<1>2. WellBuffer(buf)
  BY DEF BufferExact
<1>3. WellBuffer(buf')
  <2>1. CASE UNCHANGED <<buf, lastEntryId>>
    BY <1>2, <2>1
  <2>2. CASE Enqueues
    BY <1>2, <2>2, StoredStep
  <2>3. CASE Transmits
    BY <2>3, TransmittedStep DEF Moved
  <2>4. CASE Rewrites
    BY <1>2, <2>4, RewrittenStep DEF Moved
  <2> QED  BY <1>1, <2>1, <2>2, <2>3, <2>4
<1>4. sending' => buf'.next # NULL
  BY <1>1 DEF BufferExact
<1> QED  BY <1>3, <1>4 DEF BufferExact

(* Every step of the behaviours of NoneReplaced does.                      *)
LEMMA StaysExact ==
  ASSUME Inv, BufferExact, [Next]_vars, [ReportGI => NoGI]_vars
  PROVE  BufferExact'
<1>1. CASE UNCHANGED vars
  BY <1>1 DEF vars, BufferExact
<1>2. CASE ReportGI => NoGI
  BY <1>2, NextExact
<1> QED  BY <1>1, <1>2

(* The invariant holds at first. *)
LEMMA InitExact ==
  ASSUME Init
  PROVE  BufferExact
<1>1. PICK b : b = buf
  OBVIOUS
<1>2. PICK e : e = <<>>
  OBVIOUS
<1>3. b = [mem |-> e, oldest |-> NULL, last |-> NULL, next |-> NULL, count |-> 0,
           overflow |-> TRUE]
  BY <1>1, <1>2 DEF Init, NewBuffer
<1>4. DOMAIN e = {}
  BY <1>2
<1>5. /\ b.mem = e /\ b.oldest = NULL /\ b.last = NULL /\ b.next = NULL /\ b.count = 0
      /\ b.overflow = TRUE
  BY <1>3
<1>6. IsBuffer(b) /\ Unused(b) /\ b.overflow \in BOOLEAN
  BY <1>3, <1>4, <1>5 DEF IsBuffer, Unused, Empty
<1>7. WellBuffer(buf)
  BY <1>1, <1>6 DEF WellBuffer
<1> QED  BY <1>7 DEF BufferExact, Init

(* Links, pointers and count of the buffer agree as long as no general     *)
(* interrogation replaces an earlier one.                                  *)
THEOREM LinksAgree == Spec /\ NoneReplaced => []BufferLinked
<1>1. Inv /\ BufferExact /\ [Next]_vars /\ [ReportGI => NoGI]_vars => BufferExact'
  BY StaysExact
<1>2. BufferExact => BufferLinked
  BY WellIsLinked DEF BufferExact, BufferLinked
<1> QED  BY InitInv, NextInv, InitExact, <1>1, <1>2, PTL DEF Spec, NoneReplaced

(* Every step of the block is a step of the queue of reports, or none.     *)
LEMMA StepOfQueue ==
  ASSUME Inv, BufferExact, [Next]_vars, ReportGI => NoGI
  PROVE  Queue!Next \/ UNCHANGED Queue!vars
<1>0. PICK b : b = buf
  OBVIOUS
<1>00. PICK b2 : b2 = buf'
  OBVIOUS
<1>1. /\ Ids(buf) = Ids(b) /\ Unsent(buf) = Unsent(b) /\ buf.overflow = b.overflow
      /\ Ids(buf)' = Ids(b2) /\ Unsent(buf)' = Unsent(b2) /\ (buf.overflow)' = b2.overflow
  BY <1>0, <1>00
<1>2. /\ UNCHANGED <<buf, lastEntryId>> \/ Enqueues \/ Transmits \/ Rewrites
      /\ WellBuffer(buf)
  BY BufferSteps DEF BufferExact
<1>3. CASE UNCHANGED <<buf, lastEntryId>>
  BY <1>3 DEF Queue!vars
<1>4. CASE Enqueues
  <2>1. \/ UNCHANGED <<buf, lastEntryId>>
        \/ /\ lastEntryId' = lastEntryId + 1
           /\ \E k \in 0..Len(Ids(buf)) : Stored(buf, buf', lastEntryId + 1, k)
    BY <1>2, <1>4, StoredStep
  <2>2. ASSUME NEW k \in 0..Len(Ids(buf)), Stored(buf, buf', lastEntryId + 1, k),
               lastEntryId' = lastEntryId + 1
        PROVE  Queue!Next
    <3>1. Stored(b, b2, lastEntryId + 1, k)
      BY <1>0, <1>00, <2>2
    <3>2. lastEntryId + 1 > lastEntryId
      BY DEF Inv, Flags
    <3>3. Queue!Store(lastEntryId + 1, k)
      BY <1>1, <2>2, <3>1, <3>2 DEF Stored, Queue!Store
    <3> QED  BY <2>2, <3>3 DEF Queue!Next
  <2> QED  BY <1>3, <2>1, <2>2
<1>5. CASE Transmits
  <2>1. /\ lastEntryId' = lastEntryId
        /\ Unsent(buf) > 0 /\ Moved(buf, buf', Unsent(buf) - 1, FALSE)
    BY <1>5, TransmittedStep
  <2>2. Moved(b, b2, Unsent(b) - 1, FALSE)
    BY <1>0, <1>00, <2>1
  <2>3. Queue!Transmit
    BY <1>1, <2>1, <2>2 DEF Moved, Queue!Transmit
  <2> QED  BY <2>3 DEF Queue!Next
<1>6. CASE Rewrites
  <2>1. /\ lastEntryId' = lastEntryId
        /\ \/ Moved(b, b2, Len(Ids(b)), TRUE)
           \/ Moved(b, b2, Unsent(b), TRUE)
           \/ WellBuffer(b2) /\ Ids(b2) = <<>> /\ Unsent(b2) = 0 /\ b2.overflow = b.overflow
           \/ \E k \in 1..Len(Ids(b)) : Moved(b, b2, Len(Ids(b)) - k, FALSE)
    BY <1>0, <1>00, <1>2, <1>6, RewrittenStep
  <2>2. CASE Moved(b, b2, Len(Ids(b)), TRUE)
    <3>1. Queue!Rewind
      BY <1>1, <2>1, <2>2 DEF Moved, Queue!Rewind
    <3> QED  BY <3>1 DEF Queue!Next
  <2>3. CASE Moved(b, b2, Unsent(b), TRUE)
    <3>1. Queue!Overflow
      BY <1>1, <2>1, <2>3 DEF Moved, Queue!Overflow
    <3> QED  BY <3>1 DEF Queue!Next
  <2>4. CASE WellBuffer(b2) /\ Ids(b2) = <<>> /\ Unsent(b2) = 0 /\ b2.overflow = b.overflow
    <3>1. Queue!Purge
      BY <1>1, <2>1, <2>4 DEF Queue!Purge
    <3> QED  BY <3>1 DEF Queue!Next
  <2>5. ASSUME NEW k \in 1..Len(Ids(b)), Moved(b, b2, Len(Ids(b)) - k, FALSE)
        PROVE  Queue!Next
    <3>1. Queue!ResumeAfter(k)
      BY <1>1, <2>1, <2>5 DEF Moved, Queue!ResumeAfter
    <3>2. k \in 1..Len(Ids(buf))
      BY <1>1, <2>5
    <3> QED  BY <3>1, <3>2 DEF Queue!Next
  <2> QED  BY <2>1, <2>2, <2>3, <2>4, <2>5
<1> QED  BY <1>2, <1>3, <1>4, <1>5, <1>6

(* The block implements the queue of reports as long as no general         *)
(* interrogation replaces an earlier one.                                  *)
THEOREM QueueImplemented == Spec /\ NoneReplaced => ImplementsQueue
<1>1. Inv /\ BufferExact /\ [Next]_vars /\ [ReportGI => NoGI]_vars
        => BufferExact' /\ [Queue!Next]_(Queue!vars)
  <2> SUFFICES ASSUME Inv, BufferExact, [Next]_vars, [ReportGI => NoGI]_vars
               PROVE  BufferExact' /\ [Queue!Next]_(Queue!vars)
    OBVIOUS
  <2>1. BufferExact'
    BY StaysExact
  <2>2. CASE UNCHANGED vars
    <3>1. UNCHANGED Queue!vars
      BY <2>2 DEF vars, Queue!vars
    <3> QED  BY <2>1, <3>1
  <2>3. CASE ReportGI => NoGI
    BY <2>1, <2>3, StepOfQueue
  <2> QED  BY <2>2, <2>3
<1>2. Init => Queue!Init
  <2> SUFFICES ASSUME Init
               PROVE  Queue!Init
    OBVIOUS
  <2>1. PICK b : b = buf
    OBVIOUS
  <2>2. PICK e : e = <<>>
    OBVIOUS
  <2>3. b = [mem |-> e, oldest |-> NULL, last |-> NULL, next |-> NULL, count |-> 0,
             overflow |-> TRUE]
    BY <2>1, <2>2 DEF Init, NewBuffer
  <2>4. b.next = NULL /\ b.oldest = NULL /\ b.overflow = TRUE
    BY <2>3
  <2>5. WellBuffer(b)
    BY <2>1, InitExact DEF BufferExact
  <2>6. ~(\E c, len, n, m, q : Exact(b, c, len, n, m, q))
    <3> SUFFICES ASSUME NEW c, NEW len, NEW n, NEW m, NEW q, Exact(b, c, len, n, m, q)
                 PROVE  FALSE
      OBVIOUS
    <3>1. n \in Nat /\ n > 0 /\ \A k \in 0..(n-1) : c[k] \in Nat
      BY ExactFacts
    <3>2. b.oldest = c[0]
      BY <3>1 DEF Exact, Holds, Links
    <3>3. c[0] \in Nat
      BY <3>1
    <3> QED  BY <2>4, <3>2, <3>3 DEF NULL
  <2>7. Ids(b) = <<>> /\ Unsent(b) = 0
    BY <2>5, <2>6, WellCases
  <2>8. lastEntryId = 0
    BY DEF Init
  <2> QED  BY <2>1, <2>4, <2>7, <2>8 DEF Queue!Init
<1> QED  BY InitInv, NextInv, InitExact, <1>1, <1>2, PTL
         DEF Spec, NoneReplaced, ImplementsQueue, Queue!Spec

(* With an exact count the only entry counts as one. *)
LEMMA WellNeverAborts ==
  ASSUME NEW b, WellBuffer(b)
  PROVE  ~StoreAborts(b)
<1>1. CASE Unused(b)
  BY <1>1 DEF Unused, Empty, StoreAborts
<1>2. ASSUME NEW c, NEW len, NEW n, NEW m, NEW q, Exact(b, c, len, n, m, q)
      PROVE  ~StoreAborts(b)
  <2>1. Holds(b, c, len, n, n - 1, m) /\ b.count = n
    BY <1>2 DEF Exact
  <2>2. b.last = b.oldest => n = 1
    BY <2>1, LastIsOldest
  <2> QED  BY <2>1, <2>2 DEF StoreAborts
<1> QED  BY <1>1, <1>2 DEF WellBuffer

(* Making a report stops at no assertion.                                  *)
LEMMA EnqueuedAsserts ==
  ASSUME WellBuffer(buf), NEW kind, NEW S, EnqueueReport(kind, S), kind = "gi" => NoGI
  PROVE  holder' = holder
<1>1. PICK base : base = IF kind = "gi" THEN RemoveGI(buf) ELSE buf
  OBVIOUS
<1>2. WellBuffer(base)
  <2>1. CASE kind = "gi"
    <3>1. base = RemoveGI(buf)
      BY <1>1, <2>1
    <3>2. PICK b : b = buf
      OBVIOUS
    <3>3. \A p \in Chain(b) : b.mem[p].kind # "gi"
      BY <2>1, <3>2 DEF NoGI
    <3>4. Moved(b, RemoveGI(b), Unsent(b), b.overflow)
      BY <3>2, <3>3, RemovedWell
    <3> QED  BY <3>1, <3>2, <3>4 DEF Moved
  <2>2. CASE kind # "gi"
    BY <1>1, <2>2
  <2> QED  BY <2>1, <2>2
<1>3. ~StoreAborts(base)
  BY <1>2, WellNeverAborts
<1>4. CASE EntrySize(S) > Block
  BY <1>4 DEF EnqueueReport
<1>5. CASE ~(EntrySize(S) > Block)
  BY <1>1, <1>3, <1>5 DEF EnqueueReport
<1> QED  BY <1>4, <1>5

(* The assertions of enqueueReport hold as long as no general              *)
(* interrogation replaces an earlier one; the run report_gi shows that     *)
(* they fail when one does.                                                *)
THEOREM AssertionsHoldUnreplaced == Spec /\ NoneReplaced => []AssertionsHold
<1>1. Inv /\ BufferExact /\ [Next]_vars /\ [ReportGI => NoGI]_vars => BufferExact'
  BY StaysExact
<1>2. ASSUME BufferExact, AssertionsHold, [Next]_vars, [ReportGI => NoGI]_vars
      PROVE  AssertionsHold'
  <2>0. WellBuffer(buf)
    BY <1>2 DEF BufferExact
  <2>1. CASE MakesReport
    <3>1. CASE UNCHANGED vars
      BY <1>2, <3>1 DEF vars, AssertionsHold
    <3>2. CASE ReportGI => NoGI
      <4>1. ASSUME NEW kind, NEW S, EnqueueReport(kind, S), kind = "gi" => NoGI
            PROVE  holder' = holder
        BY <2>0, <4>1, EnqueuedAsserts
      <4>2. "event" # "gi" /\ "integrity" # "gi"
        OBVIOUS
      <4>3. holder' = holder
        BY <2>1, <3>2, <4>1, <4>2 DEF MakesReport
      <4> QED  BY <1>2, <4>3 DEF AssertionsHold
    <3> QED  BY <1>2, <3>1, <3>2
  <2>2. CASE LoadsDataSet
    BY <1>2, <2>2 DEF LoadsDataSet, AssertionsHold
  <2>3. CASE SetsFlag
    BY <1>2, <2>3 DEF SetsFlag, AssertionsHold
  <2>4. CASE KeepsFlags
    BY <1>2, <2>4, HoldersApart DEF KeepsFlags, AssertionsHold
  <2>5. CASE Unlocks
    BY <2>5 DEF Unlocks, Unlock, AssertionsHold
  <2> QED  BY <1>2, <2>1, <2>2, <2>3, <2>4, <2>5, StepKinds
<1>3. Init => AssertionsHold
  BY DEF Init, AssertionsHold
<1> QED  BY InitInv, NextInv, InitExact, <1>1, <1>2, <1>3, PTL DEF Spec, NoneReplaced
=============================================================================
