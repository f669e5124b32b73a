-------------------------- MODULE SendClockProofs --------------------------
(***************************************************************************)
(* The compensation of main.cpp is right for every second-long clock and   *)
(* every delay below a second.                                             *)
(***************************************************************************)
EXTENDS SendClock, TLAPS

\* A residue is determined by its range.
LEMMA Residue ==
  ASSUME NEW t \in Int, NEW q \in Int, NEW e \in Int,
         t = q * Nanos + e, 0 <= e, e < Nanos
  PROVE  t % Nanos = e
<1>1. Nanos \in Nat /\ Nanos > 0
  BY NanosAssumption
<1>2. QED BY <1>1, Z3

\* Two moments less than a second apart differ by the compensated difference
\* of their residues.
LEMMA DeltaOfResidues ==
  ASSUME NEW s \in Nat, NEW t \in Nat, s <= t, t - s < Nanos
  PROVE  Delta(get_curr_nanosec(t), get_curr_nanosec(s)) = t - s
<1>1. Nanos \in Nat /\ Nanos > 0
  BY NanosAssumption
<1>2. PICK q \in Int, r \in Int : s = q * Nanos + r /\ 0 <= r /\ r < Nanos
  <2>1. s = (s \div Nanos) * Nanos + (s % Nanos) /\ 0 <= s % Nanos /\ s % Nanos < Nanos
    BY <1>1, Z3
  <2>2. s \div Nanos \in Int /\ s % Nanos \in Int
    BY <1>1, Z3
  <2>3. QED BY <2>1, <2>2
<1>3. s % Nanos = r
  BY <1>1, <1>2, Z3
<1>4. CASE r + (t - s) < Nanos
  <2>1. t = q * Nanos + (r + (t - s))
    BY <1>1, <1>2, Z3
  <2>2. t % Nanos = r + (t - s)
    <3>1. t \in Int /\ r + (t - s) \in Int /\ 0 <= r + (t - s)
      BY <1>2
    <3>2. QED BY <1>2, <1>4, <2>1, <3>1, Residue
  <2>3. QED BY <1>1, <1>2, <1>3, <2>2 DEF Delta, get_curr_nanosec
<1>5. CASE r + (t - s) >= Nanos
  <2>1. t = (q + 1) * Nanos + (r + (t - s) - Nanos)
    BY <1>1, <1>2, Z3
  <2>2. t % Nanos = r + (t - s) - Nanos
    <3>1. q + 1 \in Int /\ r + (t - s) - Nanos \in Int
      BY <1>1, <1>2
    <3>2. 0 <= r + (t - s) - Nanos /\ r + (t - s) - Nanos < Nanos
      BY <1>1, <1>2, <1>5
    <3>3. QED BY <2>1, <3>1, <3>2, Residue
  <2>3. QED BY <1>1, <1>2, <1>3, <1>5, <2>2 DEF Delta, get_curr_nanosec
<1>6. QED BY <1>1, <1>2, <1>4, <1>5

\* For a second of any length and any clock: less than a second after the
\* last reading the number computed is the time since that reading.
THEOREM DeltaIsElapsed == DeltaWithinASecond
<1> SUFFICES ASSUME NEW last \in 0 .. LastMoment, NEW now \in last .. LastMoment,
                    now - last < Nanos
             PROVE  Delta(get_curr_nanosec(now), get_curr_nanosec(last)) = now - last
  BY DEF DeltaWithinASecond
<1>1. last \in Nat /\ now \in Nat /\ last <= now
  BY NanosAssumption
<1> QED  BY <1>1, DeltaOfResidues
=============================================================================
