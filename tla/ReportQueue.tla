----------------------------- MODULE ReportQueue -----------------------------
(***************************************************************************)
(* What a buffered report control block promises its clients: a queue of   *)
(* reports in the order of their identifiers, transmitted from a cursor    *)
(* on.  Old reports may be given up for new ones; when one of them was not *)
(* transmitted yet, the next report says so (bufOvfl).  A client that      *)
(* takes over starts with the oldest report or after one that it names.    *)
(*                                                                         *)
(* Nothing of memory, threads or data sets is left here.                   *)
(***************************************************************************)
EXTENDS Integers, Sequences

VARIABLES queue,      \* identifiers of the stored reports, oldest first
          unsent,     \* how many of them, at the end, are to be transmitted
          overflow,   \* reports may be missing before the next one
          lastId      \* the newest identifier given out

vars == <<queue, unsent, overflow, lastId>>

Init ==
  /\ queue = <<>>
  /\ unsent = 0
  /\ overflow = TRUE
  /\ lastId = 0

(* The newest report goes in, the k oldest ones go out.  A lone report     *)
(* that is given up is not announced.                                      *)
Store(id, k) ==
  LET left == Len(queue) - k
  IN  /\ id > lastId
      /\ queue' = Append(SubSeq(queue, k + 1, Len(queue)), id)
      /\ unsent' = (IF unsent > left THEN left ELSE unsent) + 1
      /\ overflow' = (overflow \/ (unsent > left /\ Len(queue) > 1))
      /\ lastId' = id

Transmit ==
  /\ unsent > 0
  /\ unsent' = unsent - 1
  /\ overflow' = FALSE
  /\ UNCHANGED <<queue, lastId>>

Rewind ==
  /\ unsent' = Len(queue)
  /\ overflow' = TRUE
  /\ UNCHANGED <<queue, lastId>>

ResumeAfter(k) ==
  /\ unsent' = Len(queue) - k
  /\ overflow' = FALSE
  /\ UNCHANGED <<queue, lastId>>

Overflow ==
  /\ overflow' = TRUE
  /\ UNCHANGED <<queue, unsent, lastId>>

Purge ==
  /\ queue' = <<>>
  /\ unsent' = 0
  /\ UNCHANGED <<overflow, lastId>>

Next ==
  \/ \E k \in 0..Len(queue) : Store(lastId + 1, k)
  \/ Transmit
  \/ Rewind
  \/ \E k \in 1..Len(queue) : ResumeAfter(k)
  \/ Overflow
  \/ Purge

Spec == Init /\ [][Next]_vars
=============================================================================
