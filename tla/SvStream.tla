------------------------------ MODULE SvStream ------------------------------
(***************************************************************************)
(* What a sampled-values publisher promises, with no byte in sight: a list *)
(* of ASDUs, each with a sample counter and a row of values; a setup that  *)
(* fixes which of them are sent; afterwards setting one value changes that *)
(* value and nothing else, and a published frame is a snapshot of all      *)
(* counters and values of that moment.                                     *)
(*                                                                         *)
(* Until a value has been set after a setup its content is unspecified:    *)
(* the code leaves the data bytes of the buffer as they are (the comment   *)
(* "data has to inserted by user before sending message").                 *)
(***************************************************************************)
EXTENDS Integers, Sequences

CONSTANTS Value,     \* what a value can be set to
          Unset,     \* unspecified content
          CounterSize  \* the sample counter counts modulo this

VARIABLES cnt,    \* sample counter of each ASDU
          vals,   \* the values of each ASDU
          laid,   \* how many ASDUs the last setup put into the frame
          sent    \* the frame the last step published, else <<>>

vars == <<cnt, vals, laid, sent>>

Content == Value \cup {Unset}

\* The frame a receiver gets.
Snapshot == [i \in 1 .. laid |-> [smpCnt |-> cnt[i], vals |-> vals[i]]]

Init == cnt = <<>> /\ vals = <<>> /\ laid = 0 /\ sent = <<>>

AddASDU ==
  /\ cnt' = Append(cnt, 0)
  /\ vals' = Append(vals, <<>>)
  /\ sent' = <<>>
  /\ UNCHANGED <<laid>>

AddValue(i) ==
  /\ \E x \in Content : vals' = [vals EXCEPT ![i] = Append(@, x)]
  /\ sent' = <<>>
  /\ UNCHANGED <<cnt, laid>>

ResetBuffer(i) ==
  /\ vals' = [vals EXCEPT ![i] = <<>>]
  /\ sent' = <<>>
  /\ UNCHANGED <<cnt, laid>>

SetupComplete ==
  /\ laid' = Len(cnt)
  /\ DOMAIN vals' = DOMAIN vals
  /\ \A i \in DOMAIN vals : Len(vals'[i]) = Len(vals[i])
  /\ \A i \in DOMAIN vals : \A j \in DOMAIN vals[i] : vals'[i][j] \in Content
  /\ sent' = <<>>
  /\ UNCHANGED <<cnt>>

SetValue(i, j, v) ==
  /\ vals' = [vals EXCEPT ![i][j] = v]
  /\ sent' = <<>>
  /\ UNCHANGED <<cnt, laid>>

SetSmpCnt(i, n) ==
  /\ cnt' = [cnt EXCEPT ![i] = n]
  /\ sent' = <<>>
  /\ UNCHANGED <<vals, laid>>

Publish ==
  /\ sent' = Snapshot
  /\ UNCHANGED <<cnt, vals, laid>>

Next ==
  \/ AddASDU
  \/ SetupComplete
  \/ Publish
  \/ \E i \in DOMAIN cnt :
       \/ AddValue(i)
       \/ ResetBuffer(i)
       \/ \E j \in DOMAIN vals[i], v \in Value : SetValue(i, j, v)
       \/ \E n \in 0 .. CounterSize - 1 : SetSmpCnt(i, n)

Spec == Init /\ [][Next]_vars
=============================================================================
