----------------------------- MODULE SendClock -----------------------------
(***************************************************************************)
(* The delta between broadcasts that a TIMESTAMP value is meant to carry:  *)
(* time.hpp reads only the nanoseconds within the current second, and      *)
(* main.cpp compensates when they have wrapped since the last reading.     *)
(*                                                                         *)
(* SvServer shows that writing such a value ends the program; this module  *)
(* is about the number the program computes just before.                   *)
(***************************************************************************)
EXTENDS Integers

CONSTANTS Nanos,     \* nanoseconds in a second (10^9)
          LastMoment \* bound: the moments looked at, of the monotonic clock

ASSUME NanosAssumption == Nanos \in Nat \ {0} /\ LastMoment \in Nat

\* Time::get_curr_nanosec: tv_nsec, without the seconds.
get_curr_nanosec(t) == t % Nanos

Delta(curr, last) == IF curr < last THEN (Nanos - last) + curr ELSE curr - last

-----------------------------------------------------------------------------
\* publisher.hpp: TIMESTAMP is the "delta time (nanoseconds) between
\* broadcasts".  It is, wherever in its second the last reading was taken and
\* however the nanoseconds have wrapped since, as long as less than a second
\* has passed.
DeltaWithinASecond ==
  \A last \in 0 .. LastMoment : \A now \in last .. LastMoment :
    now - last < Nanos => Delta(get_curr_nanosec(now), get_curr_nanosec(last)) = now - last
=============================================================================
