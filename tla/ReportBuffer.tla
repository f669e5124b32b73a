---------------------------- MODULE ReportBuffer ----------------------------
(***************************************************************************)
(* The memory block in which a buffered report control block keeps its     *)
(* reports (struct ReportBuffer of reporting.h and the functions on it in  *)
(* reporting.c): entries of different lengths, linked from the oldest to   *)
(* the newest, that wrap around in a block of Block units and push out the *)
(* oldest ones when the space runs out.                                    *)
(*                                                                         *)
(* A unit stands for the pointer size to which entries are rounded up.     *)
(* mem maps the positions of the entries in use to their headers, as far   *)
(* as these are intact; the pointers are positions, NULL is -1, as an      *)
(* address below every other.  count is reportsCount.                      *)
(***************************************************************************)
EXTENDS Integers, FiniteSets, Sequences

CONSTANT Block      \* size of the memory block, in units

ASSUME BlockAssumption == Block \in Nat \ {0}

NULL == -1

Positions == 0 .. (Block - 1)

Entry(id, len, kind, members) ==
  [id |-> id, len |-> len, kind |-> kind, members |-> members, next |-> NULL]

NewBuffer ==
  [mem |-> <<>>, oldest |-> NULL, last |-> NULL, next |-> NULL, count |-> 0, overflow |-> TRUE]

NextOf(b, p) == IF p \in DOMAIN b.mem THEN b.mem[p].next ELSE NULL

(* The k-th entry from the oldest on. *)
Walk(b) ==
  LET w[k \in 0..Block] ==
        IF k = 0 THEN b.oldest ELSE NextOf(b, w[k-1])
  IN  w

(* The entries that can be reached, and their identifiers in order. *)
Chain(b) == LET w == Walk(b) IN {w[k] : k \in 0..Block} \ {NULL}

Length(b) == LET w == Walk(b) IN Cardinality({k \in 0..Block : w[k] # NULL})

Ids(b) == LET w == Walk(b) IN [k \in 1..Length(b) |-> b.mem[w[k-1]].id]

(* How many of the stored reports are still to be transmitted. *)
Unsent(b) ==
  LET w == Walk(b)
  IN  Cardinality({k \in 0..Block : w[k] # NULL /\ \E j \in 0..k : w[j] = b.next})

Purge(b) == [b EXCEPT !.mem = <<>>, !.oldest = NULL, !.last = NULL, !.next = NULL, !.count = 0]

-----------------------------------------------------------------------------
(* Where the next entry goes: behind the last one, or at the start.        *)

End(b) == b.last + b.mem[b.last].len

\* A variant in which only the header has to fit.
FitsHeader(b, size) == End(b) < Block

Fits(b, size) == End(b) + size <= Block

Position(b, size) == IF b.last # NULL /\ Fits(b, size) THEN End(b) ELSE 0

Least(S) == CHOOSE k \in S : \A j \in S : k <= j

(* Enough of the oldest entries to make room from the start of the block. *)
ClearedFromStart(b, size) ==
  LET w == Walk(b) IN Least({k \in 0..Block : w[k] = NULL \/ w[k] >= size})

(* The entries are already wrapped and so is the new one: those of the     *)
(* upper part go first, then those that the new one would overwrite.       *)
ClearedUpper(b, size) ==
  LET w     == Walk(b)
      upper == Least({k \in 0..Block : w[k] <= 0})
  IN  Least({k \in upper..Block : w[k] = NULL \/ w[k] >= size})

(* The entries are wrapped and the new one fits below the oldest or pushes *)
(* it out; the entry at the start of the block is never reached.           *)
ClearedAhead(b, size) ==
  LET w == Walk(b)
  IN  Least({k \in 0..Block : w[k] = NULL \/ w[k] = 0 \/ w[k] >= End(b) + size})

Cleared(b, size) ==
  IF b.last > b.oldest THEN IF Fits(b, size) THEN 0 ELSE ClearedFromStart(b, size)
  ELSE IF Fits(b, size) THEN ClearedAhead(b, size) ELSE ClearedUpper(b, size)

\* A variant that does not tell of a report that was not transmitted.
DropOldestSilently(b, k) ==
  LET w == Walk(b)
  IN  [b EXCEPT !.oldest = w[k],
                !.next   = IF \E j \in 0..(k-1) : w[j] = @ THEN w[k] ELSE @,
                !.count  = @ - k]

\* A variant that leaves the count as it was.
DropOldestUncounted(b, k) ==
  LET w    == Walk(b)
      lost == b.next # NULL /\ \E j \in 0..(k-1) : w[j] = b.next
  IN  [b EXCEPT !.oldest = w[k], !.next = IF lost THEN w[k] ELSE @, !.overflow = @ \/ lost]

(* Dropping entries moves the transmission on; that is an overflow. *)
DropOldest(b, k) ==
  LET w    == Walk(b)
      lost == b.next # NULL /\ \E j \in 0..(k-1) : w[j] = b.next
  IN  [b EXCEPT !.oldest   = w[k],
                !.next     = IF lost THEN w[k] ELSE @,
                !.overflow = @ \/ lost,
                !.count    = @ - k]

MakeRoom(b, size) ==
  IF b.last = NULL THEN b
  ELSE IF b.last # b.oldest THEN DropOldest(b, Cleared(b, size))
  ELSE IF Fits(b, size) THEN b
  ELSE [b EXCEPT !.count = 0, !.oldest = 0, !.next = NULL]

(* Writing len units at pos destroys the headers of what was there. *)
Overwritten(mem, pos, len) == {p \in DOMAIN mem : p < pos + len /\ pos < p + mem[p].len}

Written(mem, pos, entry) ==
  [p \in (DOMAIN mem \ Overwritten(mem, pos, entry.len)) \cup {pos} |->
     IF p = pos THEN entry ELSE mem[p]]

Link(mem, last, pos) == IF last \in DOMAIN mem THEN [mem EXCEPT ![last].next = pos] ELSE mem

(* The entries that the links lead to, from the oldest one and from the    *)
(* next one to transmit, and the last one.                                 *)
Used(b) == Chain(b) \cup Chain([b EXCEPT !.oldest = b.next]) \cup {b.last}

(* Headers that no pointer and no link leads to are forgotten. *)
WithoutGarbage(b) == [b EXCEPT !.mem = [p \in Used(b) \cap DOMAIN @ |-> @[p]]]

Store(b, entry) ==
  LET pos  == Position(b, entry.len)
      room == MakeRoom(b, entry.len)
  IN  WithoutGarbage([mem      |-> Written(Link(b.mem, b.last, pos), pos, entry),
                      oldest   |-> IF room.oldest = NULL THEN pos ELSE room.oldest,
                      last     |-> pos,
                      next     |-> IF b.last = NULL \/ room.next = NULL THEN pos ELSE room.next,
                      count    |-> room.count + 1,
                      overflow |-> room.overflow])

(* The assertion on the number of entries when there seems to be one. *)
StoreAborts(b) == b.last # NULL /\ b.last = b.oldest /\ b.count # 1

-----------------------------------------------------------------------------
(* A general interrogation replaces the ones before it: their entries are  *)
(* unlinked; neither the count nor, while entries are left, the pointer to *)
(* the last one is brought up to date.                                     *)
RemoveGI(b) ==
  LET w       == Walk(b)
      n       == Length(b)
      chain   == Chain(b)
      Kept(j) == j < n /\ b.mem[w[j]].kind # "gi"
      From(j) == IF \E i \in j..(n-1) : Kept(i)
                 THEN w[Least({i \in j..(n-1) : Kept(i)})] ELSE NULL
      At(p)   == CHOOSE j \in 0..(n-1) : w[j] = p
  IN  [b EXCEPT !.mem = [p \in DOMAIN @ |->
                           IF p \in chain /\ Kept(At(p))
                           THEN [@[p] EXCEPT !.next = From(At(p) + 1)] ELSE @[p]],
                !.oldest = From(0),
                !.next   = IF @ \in chain THEN From(At(@)) ELSE @,
                !.last   = IF From(0) = NULL THEN NULL ELSE @]

-----------------------------------------------------------------------------
(* Transmission. *)

Rewind(b) == [b EXCEPT !.next = b.oldest, !.overflow = TRUE]

(* The entries a client can resume after. *)
Holding(b, id) == {p \in Chain(b) : b.mem[p].id = id}

ResumeAfter(b, id) ==
  [b EXCEPT !.next = b.mem[CHOOSE p \in Holding(b, id) : TRUE].next, !.overflow = FALSE]

Transmitted(b, announced) ==
  [b EXCEPT !.next = b.mem[b.next].next, !.overflow = @ /\ ~announced]

-----------------------------------------------------------------------------
(* What a well-formed buffer looks like. *)

Extent(b, p) == p .. (p + b.mem[p].len - 1)

WellLinked(b) ==
  /\ (b.oldest = NULL) <=> (b.last = NULL)
  /\ b.oldest # NULL => /\ Chain(b) \subseteq DOMAIN b.mem
                        /\ Walk(b)[Length(b) - 1] = b.last
                        /\ Cardinality(Chain(b)) = Length(b)
  /\ b.count = Length(b)
  /\ b.next # NULL => b.next \in Chain(b)

EntriesApart(b) ==
  LET chain == Chain(b)
  IN  \A p \in chain :
        /\ Extent(b, p) \subseteq Positions
        /\ \A q \in chain \ {p} : Extent(b, p) \cap Extent(b, q) = {}
=============================================================================
