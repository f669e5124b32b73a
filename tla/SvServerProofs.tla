--------------------------- MODULE SvServerProofs ---------------------------
(***************************************************************************)
(* For any number of channels and values, added and removed in any order,  *)
(* any settings and any number of starts and stops: the records of the GUI *)
(* own disjoint slots, nothing is written through an unset pointer, the    *)
(* counters of the live channels agree, a frame carries what the panes     *)
(* show, and no sample is skipped between two frames.                      *)
(***************************************************************************)
EXTENDS SvServer, SequenceTheorems, TLAPS

-----------------------------------------------------------------------------
(* The inductive invariant.  What is stored in a slot does not matter to   *)
(* it: a row is a sequence over its own elements.                          *)

Row(d)   == Len(d) \in Nat /\ d \in Seq({d[s] : s \in 1 .. Len(d)})
Entry(a) == a = [smpCnt |-> a.smpCnt, laid |-> a.laid, data |-> a.data] /\ Row(a.data)
List(as) == Row(as) /\ \A k \in 1 .. Len(as) : Entry(as[k])

Chosen  == Configs \cup {"MANUAL"}
ValueRecord == [id : Nat, config : Chosen]
Pane    == [asdu : Nat, values : Seq(ValueRecord)]

\* The panes point into the list, in increasing order: a record added later
\* points behind those that are there, and removing keeps the order.
Increasing(vs, n) ==
  \A j \in 1 .. Len(vs) :
    /\ vs[j].id \in 1 .. n
    /\ \A h \in 1 .. Len(vs) : j < h => vs[j].id < vs[h].id

Points(cs, as) ==
  /\ cs \in Seq(Pane)
  /\ \A i \in 1 .. Len(cs) : cs[i].asdu \in 1 .. Len(as)
  /\ \A i, j \in 1 .. Len(cs) : i < j => cs[i].asdu < cs[j].asdu
  /\ \A i \in 1 .. Len(cs) : Increasing(cs[i].values, Len(as[cs[i].asdu].data))

AllLaid(as) == \A k \in 1 .. Len(as) : as[k].laid = Len(as[k].data)
Fresh(as)   == \A k \in 1 .. Len(as) : as[k].smpCnt = 0
LiveIn(cs)  == {cs[i].asdu : i \in 1 .. Len(cs)}

Counts(cs, as) ==
  /\ \A k, l \in LiveIn(cs) : as[k].smpCnt = as[l].smpCnt
  /\ \A k \in (1 .. Len(as)) \ LiveIn(cs) : as[k].smpCnt = 0

\* Only a stopped server changes the panes, and a stopped server has counted
\* nothing; so the slots are laid out and the counters agree while it runs.
IInv ==
  /\ setup_completed \in BOOLEAN /\ running = setup_completed
  /\ List(asdus)
  /\ Points(channels, asdus)
  /\ setup_completed => AllLaid(asdus) /\ Counts(channels, asdus)
  /\ ~setup_completed => Fresh(asdus)

-----------------------------------------------------------------------------
(* Rows. *)

\* A function on 1..n is a row of n elements.
LEMMA RowOfFunction ==
  ASSUME NEW n \in Nat, NEW f, f = [s \in 1 .. n |-> f[s]]
  PROVE  Row(f) /\ Len(f) = n /\ DOMAIN f = 1 .. n
<1> DEFINE S == {f[s] : s \in 1 .. n}
<1>1. f \in [1 .. n -> S]
  <2>1. \A s \in 1 .. n : f[s] \in S
    OBVIOUS
  <2>2. QED BY <2>1
<1>2. f \in Seq(S) /\ Len(f) = n
  BY <1>1
<1>3. QED BY <1>2 DEF Row

\* Appending makes a row longer by one and keeps what is there.
LEMMA RowAppend ==
  ASSUME NEW d, Row(d), NEW x
  PROVE  /\ Row(Append(d, x)) /\ Len(Append(d, x)) = Len(d) + 1
         /\ \A s \in 1 .. Len(d) : Append(d, x)[s] = d[s]
         /\ Append(d, x)[Len(d) + 1] = x
<1> DEFINE S == {d[s] : s \in 1 .. Len(d)} \cup {x}
<1>1. d \in Seq(S)
  BY SeqMonotonic DEF Row
<1>2. /\ Append(d, x) \in Seq(S) /\ Len(Append(d, x)) = Len(d) + 1
      /\ \A s \in 1 .. Len(d) : Append(d, x)[s] = d[s]
      /\ Append(d, x)[Len(d) + 1] = x
  BY <1>1, AppendProperties
<1>3. Append(d, x) = [s \in 1 .. Len(d) + 1 |-> Append(d, x)[s]]
  <2>1. Append(d, x) \in [1 .. Len(d) + 1 -> S]
    BY <1>2, LenProperties
  <2>2. QED BY <2>1
<1>4. QED BY <1>2, <1>3, RowOfFunction DEF Row

\* The domain of a row.
LEMMA RowDomain ==
  ASSUME NEW d, Row(d)
  PROVE  Len(d) \in Nat /\ DOMAIN d = 1 .. Len(d)
BY DEF Row

-----------------------------------------------------------------------------
(* Writing values, setting up and counting leave the shape of the list.    *)

SameSlots(as, bs) ==
  /\ List(bs) /\ Len(bs) = Len(as)
  /\ \A k \in 1 .. Len(as) : Len(bs[k].data) = Len(as[k].data)

SameShape(as, bs) ==
  /\ SameSlots(as, bs)
  /\ \A k \in 1 .. Len(as) : bs[k].smpCnt = as[k].smpCnt /\ bs[k].laid = as[k].laid

\* Channel::set_value changes the content of slots only.
LEMMA WrittenShape ==
  ASSUME List(asdus), NEW typed
  PROVE  SameShape(asdus, Written(typed))
<1> DEFINE bs == Written(typed)
<1>1. Len(asdus) \in Nat /\ DOMAIN asdus = 1 .. Len(asdus)
  BY RowDomain DEF List
<1>2. bs = [k \in 1 .. Len(asdus) |-> bs[k]]
  BY <1>1 DEF Written
<1>3. Row(bs) /\ Len(bs) = Len(asdus)
  <2> HIDE DEF bs
  <2>1. QED BY <1>1, <1>2, RowOfFunction
<1>4. ASSUME NEW k \in 1 .. Len(asdus)
      PROVE  /\ Entry(bs[k]) /\ Len(bs[k].data) = Len(asdus[k].data)
             /\ bs[k].smpCnt = asdus[k].smpCnt /\ bs[k].laid = asdus[k].laid
  <2>1. /\ Entry(asdus[k]) /\ Len(asdus[k].data) \in Nat
        /\ DOMAIN asdus[k].data = 1 .. Len(asdus[k].data)
    BY RowDomain DEF List, Entry
  <2>2. PICK f : /\ f = [s \in 1 .. Len(asdus[k].data) |-> f[s]]
                 /\ bs[k] = [asdus[k] EXCEPT !.data = f]
    <3> DEFINE f == [s \in DOMAIN asdus[k].data |->
                       LET at == {p \in Shown : SlotOf(p) = <<k, s>>}
                       IN  IF at = {} THEN asdus[k].data[s]
                           ELSE ShownContent(CHOOSE p \in at : TRUE, typed)]
    <3>1. bs[k] = [asdus[k] EXCEPT !.data = f]
      BY <1>1, <2>1 DEF Written, Entry
    <3>2. f = [s \in 1 .. Len(asdus[k].data) |-> f[s]]
      BY <2>1
    <3>3. QED BY <3>1, <3>2
  <2>3. Row(f) /\ Len(f) = Len(asdus[k].data)
    BY <2>1, <2>2, RowOfFunction
  <2>4. bs[k] = [smpCnt |-> asdus[k].smpCnt, laid |-> asdus[k].laid, data |-> f]
    BY <2>1, <2>2 DEF Entry
  <2> HIDE DEF bs
  <2>5. QED BY <2>3, <2>4 DEF Entry
<1>5. SameShape(asdus, bs)
  <2> HIDE DEF bs
  <2>1. QED BY <1>3, <1>4 DEF SameShape, SameSlots, List
<1>6. QED BY <1>5

\* Nothing written, nothing changed.
LEMMA SameShapeItself ==
  ASSUME NEW as, List(as)
  PROVE  SameShape(as, as)
BY DEF SameShape, SameSlots

\* setupComplete lays out every slot there is.
LEMMA SetupShape ==
  ASSUME NEW as, List(as)
  PROVE  /\ SameSlots(as, SetupComplete(as)) /\ AllLaid(SetupComplete(as))
         /\ \A k \in 1 .. Len(as) : SetupComplete(as)[k].smpCnt = as[k].smpCnt
<1> DEFINE bs == SetupComplete(as)
<1>1. Len(as) \in Nat /\ DOMAIN as = 1 .. Len(as)
  BY RowDomain DEF List
<1>2. bs = [k \in 1 .. Len(as) |-> bs[k]]
  BY <1>1 DEF SetupComplete
<1>3. Row(bs) /\ Len(bs) = Len(as)
  <2> HIDE DEF bs
  <2>1. QED BY <1>1, <1>2, RowOfFunction
<1>4. ASSUME NEW k \in 1 .. Len(as)
      PROVE  bs[k] = [smpCnt |-> as[k].smpCnt, laid |-> Len(as[k].data), data |-> as[k].data]
             /\ Row(as[k].data)
  <2>1. Entry(as[k])
    BY DEF List
  <2>2. bs[k] = [as[k] EXCEPT !.laid = Len(as[k].data)]
    BY <1>1 DEF SetupComplete
  <2> HIDE DEF bs
  <2>3. QED BY <2>1, <2>2 DEF Entry
<1>5. /\ SameSlots(as, bs) /\ AllLaid(bs)
      /\ \A k \in 1 .. Len(as) : bs[k].smpCnt = as[k].smpCnt
  <2> HIDE DEF bs
  <2>1. ASSUME NEW k \in 1 .. Len(as)
        PROVE  /\ Entry(bs[k]) /\ bs[k].data = as[k].data
               /\ bs[k].laid = Len(bs[k].data) /\ bs[k].smpCnt = as[k].smpCnt
    <3> DEFINE r == bs[k]
    <3>1. /\ r = [smpCnt |-> as[k].smpCnt, laid |-> Len(as[k].data), data |-> as[k].data]
          /\ Row(as[k].data)
      BY <1>4
    <3> HIDE DEF r
    <3>2. Entry(r) /\ r.data = as[k].data /\ r.laid = Len(r.data) /\ r.smpCnt = as[k].smpCnt
      BY <3>1 DEF Entry
    <3>3. QED BY <3>2 DEF r
  <2>2. QED BY <1>3, <2>1 DEF SameSlots, List, AllLaid
<1>6. QED BY <1>5

\* broadcast counts the live ASDUs, all from the same number.
LEMMA CountedShape ==
  ASSUME List(asdus)
  PROVE  /\ SameSlots(asdus, Counted)
         /\ \A k \in 1 .. Len(asdus) :
              /\ Counted[k].laid = asdus[k].laid
              /\ Counted[k].smpCnt = IF k \in Live THEN (asdus[k].smpCnt + 1) % CounterSize
                                     ELSE asdus[k].smpCnt
<1> DEFINE bs == Counted
<1>1. Len(asdus) \in Nat /\ DOMAIN asdus = 1 .. Len(asdus)
  BY RowDomain DEF List
<1>2. bs = [k \in 1 .. Len(asdus) |-> bs[k]]
  BY <1>1 DEF Counted
<1>3. Row(bs) /\ Len(bs) = Len(asdus)
  <2> HIDE DEF bs
  <2>1. QED BY <1>1, <1>2, RowOfFunction
<1>4. ASSUME NEW k \in 1 .. Len(asdus)
      PROVE  /\ Row(asdus[k].data)
             /\ bs[k] = [smpCnt |-> IF k \in Live THEN (asdus[k].smpCnt + 1) % CounterSize
                                    ELSE asdus[k].smpCnt,
                         laid |-> asdus[k].laid, data |-> asdus[k].data]
  <2>1. Entry(asdus[k])
    BY DEF List
  <2>2. bs[k] = IF k \in Live THEN [asdus[k] EXCEPT !.smpCnt = (@ + 1) % CounterSize]
                ELSE asdus[k]
    BY <1>1 DEF Counted
  <2>3. CASE k \in Live
    <3>1. bs[k] = [asdus[k] EXCEPT !.smpCnt = (@ + 1) % CounterSize]
      BY <2>2, <2>3
    <3> HIDE DEF bs
    <3>2. QED BY <2>1, <2>3, <3>1 DEF Entry
  <2>4. CASE k \notin Live
    <3> HIDE DEF bs
    <3>1. QED BY <2>1, <2>2, <2>4 DEF Entry
  <2>5. QED BY <2>3, <2>4
<1>5. /\ SameSlots(asdus, bs)
      /\ \A k \in 1 .. Len(asdus) :
           /\ bs[k].laid = asdus[k].laid
           /\ bs[k].smpCnt = IF k \in Live THEN (asdus[k].smpCnt + 1) % CounterSize
                             ELSE asdus[k].smpCnt
  <2> HIDE DEF bs
  <2>1. ASSUME NEW k \in 1 .. Len(asdus)
        PROVE  /\ Entry(bs[k]) /\ bs[k].data = asdus[k].data
               /\ bs[k].laid = asdus[k].laid
               /\ bs[k].smpCnt = IF k \in Live THEN (asdus[k].smpCnt + 1) % CounterSize
                                 ELSE asdus[k].smpCnt
    <3> DEFINE r == bs[k]
               n == IF k \in Live THEN (asdus[k].smpCnt + 1) % CounterSize
                    ELSE asdus[k].smpCnt
    <3>1. /\ r = [smpCnt |-> n, laid |-> asdus[k].laid, data |-> asdus[k].data]
          /\ Row(asdus[k].data)
      BY <1>4
    <3> HIDE DEF r, n
    <3>2. Entry(r) /\ r.data = asdus[k].data /\ r.laid = asdus[k].laid /\ r.smpCnt = n
      BY <3>1 DEF Entry
    <3>3. QED BY <3>2 DEF r, n
  <2>2. QED BY <1>3, <2>1 DEF SameSlots, List
<1>6. QED BY <1>5

-----------------------------------------------------------------------------
(* Panes over a changed list, and changed panes over a list.               *)

\* Panes keep pointing into a list with the same slots.
LEMMA PointsAgain ==
  ASSUME NEW cs, NEW as, NEW bs, Points(cs, as), SameSlots(as, bs)
  PROVE  Points(cs, bs)
<1>1. ASSUME NEW i \in 1 .. Len(cs)
      PROVE  /\ cs[i].asdu \in 1 .. Len(bs)
             /\ Increasing(cs[i].values, Len(bs[cs[i].asdu].data))
  BY DEF Points, SameSlots
<1>2. QED BY <1>1 DEF Points

\* A pane whose values were replaced by others in increasing slots.
LEMMA ReplacedValues ==
  ASSUME NEW cs, NEW as, Points(cs, as), NEW i \in 1 .. Len(cs),
         NEW vs \in Seq(ValueRecord), Increasing(vs, Len(as[cs[i].asdu].data))
  PROVE  Points([cs EXCEPT ![i].values = vs], as)
<1> DEFINE pane == [cs[i] EXCEPT !.values = vs]
           ds   == [cs EXCEPT ![i] = pane]
<1>1. cs \in Seq(Pane) /\ cs[i] \in Pane /\ Len(cs) \in Nat
  BY DEF Points
<1>2. pane \in Pane /\ pane.asdu = cs[i].asdu /\ pane.values = vs
  BY <1>1 DEF Pane
<1>3. ds = [cs EXCEPT ![i].values = vs]
  BY <1>1
<1> HIDE DEF pane
<1>4. /\ ds \in Seq(Pane) /\ Len(ds) = Len(cs)
      /\ \A j \in 1 .. Len(cs) : ds[j] = IF j = i THEN pane ELSE cs[j]
  BY <1>1, <1>2, ExceptSeq
<1> HIDE DEF ds
<1>5. \A j \in 1 .. Len(cs) : ds[j].asdu = cs[j].asdu
  BY <1>2, <1>4
<1>6. \A j \in 1 .. Len(cs) : Increasing(ds[j].values, Len(as[ds[j].asdu].data))
  BY <1>2, <1>4, <1>5 DEF Points
<1>7. Points(ds, as)
  BY <1>4, <1>5, <1>6 DEF Points
<1>8. QED BY <1>3, <1>7

\* A stopped server that has counted nothing needs only its pointers in order.
LEMMA StoppedIInv ==
  ASSUME IInv, setup_completed' = FALSE, running' = FALSE,
         List(asdus'), Points(channels', asdus'), Fresh(asdus')
  PROVE  IInv'
BY DEF IInv

\* While panes and flags stay, a list of the same shape keeps the invariant.
LEMMA ShapeIInv ==
  ASSUME IInv, SameShape(asdus, asdus'), UNCHANGED <<channels, running, setup_completed>>
  PROVE  IInv'
<1>1. List(asdus') /\ Points(channels', asdus')
  BY PointsAgain DEF IInv, SameShape, SameSlots
<1>2. Len(asdus') = Len(asdus)
      /\ \A k \in 1 .. Len(asdus) : /\ asdus'[k].smpCnt = asdus[k].smpCnt
                                  /\ asdus'[k].laid = asdus[k].laid
                                  /\ Len(asdus'[k].data) = Len(asdus[k].data)
  BY DEF SameShape, SameSlots
<1>3. LiveIn(channels) \subseteq 1 .. Len(asdus)
  BY DEF LiveIn, IInv, Points
<1>4. setup_completed' => AllLaid(asdus') /\ Counts(channels', asdus')
  BY <1>2, <1>3 DEF IInv, AllLaid, Counts
<1>5. ~setup_completed' => Fresh(asdus')
  BY <1>2 DEF IInv, Fresh
<1>6. QED BY <1>1, <1>4, <1>5 DEF IInv

\* A pass over the panes without a button writes values at most.
LEMMA PassShape ==
  ASSUME IInv, NEW cs, NEW typed, Panes(cs, typed, Same)
  PROVE  /\ SameShape(asdus, asdus') /\ channels' = cs
         /\ UNCHANGED <<running, setup_completed>>
<1>1. List(asdus)
  BY DEF IInv
<1>2. asdus' = asdus \/ asdus' = Written(typed)
  BY DEF Panes, Same
<1>3. QED BY <1>1, <1>2, WrittenShape, SameShapeItself DEF Panes

\* A stopped server writes nothing in its panes.
LEMMA StoppedPass ==
  ASSUME IInv, ~running, NEW cs, NEW typed, Panes(cs, typed, Same)
  PROVE  asdus' = asdus
BY DEF IInv, Panes, AssertionFails, Same

-----------------------------------------------------------------------------
(* The actions. *)

\* The default channel and its value.
LEMMA InitIInv == Init => IInv
<1> SUFFICES ASSUME Init PROVE IInv
  OBVIOUS
<1> DEFINE v == [id |-> 1, config |-> "MANUAL"]
           a == [smpCnt |-> 0, laid |-> NotLaid, data |-> <<Raw>>]
<1>1. asdus = <<a>> /\ channels = <<[asdu |-> 1, values |-> <<v>>]>>
  BY DEF Init, AddFLOAT, NewASDU, CreatedValue
<1>2. v \in ValueRecord /\ v.id = 1
  BY DEF ValueRecord, Chosen
<1>3. Row(<<Raw>>) /\ Len(<<Raw>>) = 1 /\ a.data = <<Raw>> /\ Entry(a)
  BY DEF Row, Entry
<1> HIDE DEF a, v
<1>4. List(asdus) /\ Len(asdus) = 1 /\ asdus[1] = a
  BY <1>1, <1>3 DEF List, Row
<1>5. Points(channels, asdus)
  BY <1>1, <1>2, <1>3, <1>4 DEF Points, Pane, Increasing
<1>6. Fresh(asdus)
  BY <1>4 DEF Fresh, a
<1>7. QED BY <1>4, <1>5, <1>6 DEF Init, IInv

\* START lays out the list, or only goes on.
LEMMA StartIInv ==
  ASSUME IInv, Start
  PROVE  IInv'
<1>1. running' = TRUE /\ setup_completed' = TRUE /\ channels' = channels
  BY DEF Start
<1>2. CASE setup_completed
  <2>1. asdus' = asdus
    BY <1>2 DEF Start
  <2>2. QED BY <1>1, <1>2, <2>1 DEF IInv
<1>3. CASE ~setup_completed
  <2>1. asdus' = SetupComplete(asdus)
    BY <1>3 DEF Start
  <2>2. /\ SameSlots(asdus, asdus') /\ AllLaid(asdus')
        /\ \A k \in 1 .. Len(asdus) : asdus'[k].smpCnt = 0
    BY <1>3, <2>1, SetupShape DEF IInv, Fresh
  <2>3. List(asdus') /\ Points(channels', asdus')
    BY <1>1, <2>2, PointsAgain DEF IInv, SameSlots
  <2>4. LiveIn(channels) \subseteq 1 .. Len(asdus)
    BY DEF LiveIn, IInv, Points
  <2>5. Counts(channels', asdus')
    BY <1>1, <2>2, <2>4 DEF Counts, SameSlots
  <2>6. QED BY <1>1, <2>2, <2>3, <2>5 DEF IInv
<1>4. QED BY <1>2, <1>3 DEF IInv

\* STOP and NETWORK begin with no channel at all.
LEMMA NewPublisherIInv ==
  ASSUME IInv, NewPublisher
  PROVE  IInv'
<1>1. List(<<>>) /\ Points(<<>>, <<>>) /\ Fresh(<<>>)
  BY DEF List, Row, Points, Fresh
<1>2. QED BY <1>1, StoppedIInv DEF NewPublisher

\* An option is changed in a record and in no slot.
LEMMA SelectOptionIInv ==
  ASSUME IInv, NEW p \in Shown, NEW c \in Configs, SelectOption(p, c)
  PROVE  IInv'
<1> DEFINE i  == p[1]
           j  == p[2]
           vs == channels[i].values
           v  == [vs[j] EXCEPT !.config = c]
           ws == [vs EXCEPT ![j] = v]
<1>1. i \in 1 .. Len(channels) /\ channels \in Seq(Pane) /\ channels[i] \in Pane
      /\ vs \in Seq(ValueRecord) /\ j \in 1 .. Len(vs) /\ vs[j] \in ValueRecord
  <2>1. PICK h \in DOMAIN channels : \E g \in DOMAIN channels[h].values : p = <<h, g>>
    BY DEF Shown
  <2>2. channels \in Seq(Pane)
    BY DEF IInv, Points
  <2>3. i \in 1 .. Len(channels) /\ channels[i] \in Pane /\ j \in DOMAIN vs
    BY <2>1, <2>2
  <2>4. vs \in Seq(ValueRecord)
    BY <2>3 DEF Pane
  <2>5. j \in 1 .. Len(vs) /\ vs[j] \in ValueRecord
    BY <2>3, <2>4
  <2>6. QED BY <2>2, <2>3, <2>4, <2>5
<1>2. v \in ValueRecord /\ v.id = vs[j].id
  BY <1>1 DEF ValueRecord, Chosen
<1> DEFINE cs == [channels EXCEPT ![i].values = ws]
<1>3. Panes([channels EXCEPT ![p[1]].values[p[2]].config = c], values, Same)
  BY DEF SelectOption
<1>4. [channels EXCEPT ![p[1]].values[p[2]].config = c] = cs
  BY <1>1
<1> HIDE DEF v
<1>5. ws \in Seq(ValueRecord) /\ Len(ws) = Len(vs)
      /\ \A h \in 1 .. Len(vs) : ws[h] = IF h = j THEN v ELSE vs[h]
  BY <1>1, <1>2, ExceptSeq
<1>6. Increasing(ws, Len(asdus[channels[i].asdu].data))
  <2>1. Increasing(vs, Len(asdus[channels[i].asdu].data))
    BY <1>1 DEF IInv, Points
  <2>2. \A h \in 1 .. Len(vs) : ws[h].id = vs[h].id
    BY <1>2, <1>5
  <2> HIDE DEF ws, vs
  <2>3. QED BY <1>5, <2>1, <2>2 DEF Increasing
<1> HIDE DEF ws
<1>7. Points(cs, asdus)
  BY <1>1, <1>5, <1>6, ReplacedValues DEF IInv
<1>8. /\ SameShape(asdus, asdus') /\ channels' = cs
      /\ UNCHANGED <<running, setup_completed>>
  BY <1>3, <1>4, PassShape
<1>9. Len(cs) = Len(channels) /\ \A h \in 1 .. Len(channels) : cs[h].asdu = channels[h].asdu
  BY <1>1 DEF Pane
<1> HIDE DEF cs, i
<1>10. LiveIn(cs) = LiveIn(channels) /\ LiveIn(channels) \subseteq 1 .. Len(asdus)
  BY <1>9 DEF LiveIn, IInv, Points
<1>11. List(asdus') /\ Points(channels', asdus')
  BY <1>7, <1>8, PointsAgain DEF SameShape, SameSlots
<1>12. Len(asdus') = Len(asdus)
      /\ \A k \in 1 .. Len(asdus) : /\ asdus'[k].smpCnt = asdus[k].smpCnt
                                  /\ asdus'[k].laid = asdus[k].laid
                                  /\ Len(asdus'[k].data) = Len(asdus[k].data)
  BY <1>8 DEF SameShape, SameSlots
<1>13. setup_completed' => AllLaid(asdus') /\ Counts(channels', asdus')
  BY <1>8, <1>10, <1>12 DEF IInv, AllLaid, Counts
<1>14. ~setup_completed' => Fresh(asdus')
  BY <1>8, <1>12 DEF IInv, Fresh
<1>15. QED BY <1>8, <1>11, <1>13, <1>14 DEF IInv

\* What is left of a sequence without its last element.
LEMMA Popped ==
  ASSUME NEW S, NEW s \in Seq(S), s # <<>>
  PROVE  /\ Pop(s) \in Seq(S) /\ Len(Pop(s)) = Len(s) - 1
         /\ \A h \in 1 .. Len(s) - 1 : Pop(s)[h] = s[h]
<1>1. Len(s) \in Nat /\ Len(s) >= 1
  BY EmptySeq
<1>2. Pop(s) = SubSeq(s, 1, Len(s) - 1)
  BY DEF Pop
<1>3. Len(s) - 1 \in Int /\ \A h \in 1 .. Len(s) - 1 : s[h] \in S
  BY <1>1, ElementOfSeq
<1>4. /\ SubSeq(s, 1, Len(s) - 1) \in Seq(S)
      /\ Len(SubSeq(s, 1, Len(s) - 1)) = Len(s) - 1
      /\ \A h \in 1 .. Len(s) - 1 : SubSeq(s, 1, Len(s) - 1)[h] = s[h]
  <2> DEFINE t == SubSeq(s, 1, Len(s) - 1)
  <2>1. /\ t \in Seq(S)
        /\ Len(t) = IF 1 <= Len(s) - 1 THEN (Len(s) - 1) - 1 + 1 ELSE 0
        /\ \A h \in 1 .. (Len(s) - 1) - 1 + 1 : t[h] = s[1 + h - 1]
    BY <1>3, SubSeqProperties
  <2> HIDE DEF t
  <2>2. \A n \in Nat : n >= 1 => /\ (IF 1 <= n - 1 THEN (n - 1) - 1 + 1 ELSE 0) = n - 1
                               /\ \A h \in 1 .. n - 1 : h \in 1 .. (n - 1) - 1 + 1
                                                       /\ 1 + h - 1 = h
    OBVIOUS
  <2>3. /\ Len(t) = Len(s) - 1
        /\ \A h \in 1 .. Len(s) - 1 : h \in 1 .. (Len(s) - 1) - 1 + 1 /\ 1 + h - 1 = h
    <3>1. (IF 1 <= Len(s) - 1 THEN (Len(s) - 1) - 1 + 1 ELSE 0) = Len(s) - 1
      BY <1>1, <2>2
    <3>2. Len(t) = Len(s) - 1
      BY <2>1, <3>1
    <3>3. QED BY <1>1, <2>2, <3>2
  <2>4. \A h \in 1 .. Len(s) - 1 : t[h] = s[h]
    BY <2>1, <2>3
  <2>5. QED BY <2>1, <2>3, <2>4 DEF t
<1>5. QED BY <1>2, <1>4

\* Popping a channel leaves the pointers of the others.
LEMMA RemoveChannelIInv ==
  ASSUME IInv, RemoveChannel
  PROVE  IInv'
<1>1. channels \in Seq(Pane) /\ channels # <<>> /\ ~setup_completed
  BY DEF IInv, Points, RemoveChannel
<1>2. /\ channels' \in Seq(Pane) /\ Len(channels') = Len(channels) - 1
      /\ \A h \in 1 .. Len(channels) - 1 : channels'[h] = channels[h]
  BY <1>1, Popped DEF RemoveChannel
<1>3. Points(channels', asdus)
  BY <1>1, <1>2 DEF IInv, Points
<1>4. QED BY <1>1, <1>3, StoppedIInv DEF RemoveChannel, IInv

\* Popping a value leaves the slots of the others.
LEMMA RemoveValueIInv ==
  ASSUME IInv, NEW i \in DOMAIN channels, RemoveValue(i)
  PROVE  IInv'
<1> DEFINE vs == channels[i].values
           cs == [channels EXCEPT ![i].values = Pop(vs)]
<1>1. i \in 1 .. Len(channels) /\ vs \in Seq(ValueRecord) /\ vs # <<>> /\ ~running
  <2>1. channels \in Seq(Pane) /\ ~running /\ vs # <<>>
    BY DEF IInv, Points, RemoveValue
  <2>2. i \in 1 .. Len(channels) /\ channels[i] \in Pane
    BY <2>1
  <2>3. QED BY <2>1, <2>2 DEF Pane
<1>2. Panes(cs, values, Same)
  BY DEF RemoveValue
<1>3. /\ Pop(vs) \in Seq(ValueRecord) /\ Len(Pop(vs)) = Len(vs) - 1
      /\ \A h \in 1 .. Len(vs) - 1 : Pop(vs)[h] = vs[h]
  BY <1>1, Popped
<1>4. Increasing(vs, Len(asdus[channels[i].asdu].data))
  BY <1>1 DEF IInv, Points
<1>5. Increasing(Pop(vs), Len(asdus[channels[i].asdu].data))
  <2> HIDE DEF vs
  <2>1. Len(vs) \in Nat
    BY <1>1
  <2>2. QED BY <1>3, <1>4, <2>1 DEF Increasing
<1>6. Points(cs, asdus)
  BY <1>1, <1>3, <1>5, ReplacedValues DEF IInv
<1>7. asdus' = asdus /\ channels' = cs /\ UNCHANGED <<running, setup_completed>>
  BY <1>1, <1>2, StoppedPass, PassShape
<1>8. QED BY <1>1, <1>6, <1>7, StoppedIInv DEF IInv

\* A new channel gets the new ASDU at the end of the list.
LEMMA NewChannelIInv ==
  ASSUME IInv, NewChannel
  PROVE  IInv'
<1> DEFINE pane == [asdu |-> Len(asdus) + 1, values |-> <<>>]
<1>1. /\ ~running /\ ~setup_completed /\ List(asdus) /\ Row(asdus) /\ Len(asdus) \in Nat
      /\ channels \in Seq(Pane)
  BY DEF IInv, NewChannel, List, Row, Points
<1>2. ~AssertionFails
  BY <1>1 DEF AssertionFails
<1>3. CASE Len(channels) <= MAX_NUM_CHANNELS
  <2>1. /\ asdus' = Append(asdus, NewASDU) /\ channels' = channels \o <<pane>>
        /\ UNCHANGED <<running, setup_completed>>
    BY <1>1, <1>2, <1>3 DEF NewChannel, Panes
  <2>2. pane \in Pane /\ pane.asdu = Len(asdus) + 1 /\ pane.values = <<>>
    BY <1>1 DEF Pane
  <2> HIDE DEF pane
  <2>3. /\ channels' \in Seq(Pane) /\ Len(channels') = Len(channels) + 1
        /\ \A h \in 1 .. Len(channels) : channels'[h] = channels[h]
        /\ channels'[Len(channels) + 1] = pane
    BY <1>1, <2>1, <2>2, AppendIsConcat, AppendProperties
  <2>4. /\ Row(asdus') /\ Len(asdus') = Len(asdus) + 1
        /\ \A k \in 1 .. Len(asdus) : asdus'[k] = asdus[k]
        /\ asdus'[Len(asdus) + 1] = NewASDU
    BY <1>1, <2>1, RowAppend
  <2>5. Entry(NewASDU) /\ NewASDU.smpCnt = 0
    BY DEF Entry, NewASDU, Row
  <2>6. List(asdus') /\ Fresh(asdus')
    BY <1>1, <2>4, <2>5 DEF List, IInv, Fresh
  <2>7. Points(channels', asdus')
    <3>1. Increasing(pane.values, Len(NewASDU.data))
      BY <2>2 DEF Increasing
    <3>2. Len(channels) \in Nat
      BY <1>1
    <3>3. ASSUME NEW h \in 1 .. Len(channels')
          PROVE  /\ channels'[h].asdu \in 1 .. Len(asdus')
                 /\ Increasing(channels'[h].values, Len(asdus'[channels'[h].asdu].data))
      <4>1. CASE h \in 1 .. Len(channels)
        BY <1>1, <2>3, <2>4, <4>1 DEF IInv, Points
      <4>2. CASE h = Len(channels) + 1
        BY <1>1, <2>2, <2>3, <2>4, <3>1, <4>2
      <4>3. QED BY <2>3, <3>2, <4>1, <4>2
    <3>4. ASSUME NEW h \in 1 .. Len(channels'), NEW g \in 1 .. Len(channels'), h < g
          PROVE  channels'[h].asdu < channels'[g].asdu
      BY <1>1, <2>2, <2>3, <3>2, <3>4 DEF IInv, Points
    <3>5. QED BY <2>3, <3>3, <3>4 DEF Points
  <2>8. QED BY <1>1, <2>1, <2>6, <2>7, StoppedIInv DEF IInv
<1>4. CASE ~(Len(channels) <= MAX_NUM_CHANNELS)
  <2>1. /\ asdus' = asdus /\ channels' = channels \o <<>>
        /\ UNCHANGED <<running, setup_completed>>
    BY <1>1, <1>2, <1>4 DEF NewChannel, Panes
  <2>2. channels' = channels
    BY <1>1, <2>1, ConcatEmptySeq
  <2>3. QED BY <1>1, <2>1, <2>2 DEF IInv
<1>5. QED BY <1>3, <1>4

\* A new value gets the new slot at the end of its channel's ASDU, which is
\* no other channel's.
LEMMA NewValueIInv ==
  ASSUME IInv, NEW i \in DOMAIN channels, NewValue(i)
  PROVE  IInv'
<1> DEFINE k    == channels[i].asdu
           d    == asdus[k].data
           vs   == channels[i].values
           v    == CreatedValue(asdus, k)
           ws   == Append(vs, v)
           e    == [asdus[k] EXCEPT !.data = Append(d, Raw)]
           pane == [channels[i] EXCEPT !.values = ws]
<1>1. /\ ~running /\ ~setup_completed
      /\ channels \in Seq(Pane) /\ i \in 1 .. Len(channels) /\ channels[i] \in Pane
      /\ List(asdus) /\ Row(asdus) /\ k \in 1 .. Len(asdus) /\ Entry(asdus[k]) /\ Row(d)
      /\ Len(d) \in Nat /\ Len(asdus) \in Nat /\ DOMAIN asdus = 1 .. Len(asdus)
  <2>1. /\ ~running /\ ~setup_completed /\ List(asdus) /\ channels \in Seq(Pane)
        /\ Points(channels, asdus)
    BY DEF IInv, NewValue, Points
  <2>2. i \in 1 .. Len(channels) /\ channels[i] \in Pane
    BY <2>1
  <2>3. k \in 1 .. Len(asdus)
    BY <2>1, <2>2 DEF Points
  <2>4. QED BY <2>1, <2>2, <2>3, RowDomain DEF List, Entry
<1>2. /\ asdus' = AddFLOAT(asdus, k) /\ channels' = [channels EXCEPT ![i].values = ws]
      /\ UNCHANGED <<running, setup_completed>>
  <2>1. ~AssertionFails
    BY <1>1 DEF AssertionFails
  <2>2. QED BY <1>1, <2>1 DEF NewValue, Panes
<1>3. v \in ValueRecord /\ v.id = Len(d) + 1 /\ vs \in Seq(ValueRecord)
  BY <1>1 DEF CreatedValue, ValueRecord, Chosen, Pane
<1>4. /\ Row(Append(d, Raw)) /\ Len(Append(d, Raw)) = Len(d) + 1
      /\ Entry(e) /\ Len(e.data) = Len(d) + 1 /\ e.smpCnt = asdus[k].smpCnt
  <2>1. Row(Append(d, Raw)) /\ Len(Append(d, Raw)) = Len(d) + 1
    BY <1>1, RowAppend
  <2> DEFINE f == Append(d, Raw)
  <2> DEFINE a == asdus[k]
  <2>2. a = [smpCnt |-> a.smpCnt, laid |-> a.laid, data |-> a.data]
    BY <1>1 DEF Entry
  <2>3. e = [a EXCEPT !.data = f]
    OBVIOUS
  <2> HIDE DEF e, f, d, a
  <2>4. e = [smpCnt |-> a.smpCnt, laid |-> a.laid, data |-> f]
    BY <2>2, <2>3
  <2>5. Row(f)
    BY <2>1 DEF f
  <2>6. Entry(e) /\ e.data = f /\ e.smpCnt = a.smpCnt
    BY <2>4, <2>5 DEF Entry
  <2>7. QED BY <2>1, <2>6 DEF f, a
<1>5. asdus' = [asdus EXCEPT ![k] = e]
  BY <1>1, <1>2 DEF AddFLOAT
<1> HIDE DEF v, e
<1>6. /\ Row(asdus') /\ Len(asdus') = Len(asdus)
      /\ \A h \in 1 .. Len(asdus) : asdus'[h] = IF h = k THEN e ELSE asdus[h]
  <2>1. asdus' = [h \in 1 .. Len(asdus) |-> asdus'[h]]
    BY <1>1, <1>5
  <2>2. \A h \in 1 .. Len(asdus) : asdus'[h] = IF h = k THEN e ELSE asdus[h]
    BY <1>1, <1>5
  <2>3. QED BY <1>1, <2>1, <2>2, RowOfFunction
<1>7. List(asdus') /\ Fresh(asdus')
  BY <1>1, <1>4, <1>6 DEF List, IInv, Fresh
<1>8. /\ ws \in Seq(ValueRecord) /\ Len(ws) = Len(vs) + 1
      /\ \A h \in 1 .. Len(vs) : ws[h] = vs[h]
      /\ ws[Len(vs) + 1] = v
  BY <1>3, AppendProperties
<1>9. Increasing(ws, Len(d) + 1)
  <2>1. Increasing(vs, Len(d)) /\ Len(vs) \in Nat
    BY <1>1, <1>3 DEF IInv, Points
  <2> HIDE DEF ws, vs, d
  <2>2. ASSUME NEW j \in 1 .. Len(ws)
        PROVE  ws[j].id \in 1 .. Len(d) + 1
    <3>1. CASE j \in 1 .. Len(vs)
      BY <1>1, <1>8, <2>1, <3>1 DEF Increasing
    <3>2. CASE j = Len(vs) + 1
      BY <1>1, <1>3, <1>8, <3>2
    <3>3. QED BY <1>8, <2>1, <3>1, <3>2
  <2>3. ASSUME NEW j \in 1 .. Len(ws), NEW h \in 1 .. Len(ws), j < h
        PROVE  ws[j].id < ws[h].id
    <3>1. j \in 1 .. Len(vs)
      BY <1>8, <2>1, <2>3
    <3>2. vs[j].id \in 1 .. Len(d) /\ ws[j] = vs[j]
      BY <1>8, <2>1, <3>1 DEF Increasing
    <3>3. CASE h \in 1 .. Len(vs)
      BY <1>8, <2>1, <2>3, <3>1, <3>2, <3>3 DEF Increasing
    <3>4. CASE h = Len(vs) + 1
      BY <1>1, <1>3, <1>8, <3>2, <3>4
    <3>5. QED BY <1>8, <2>1, <3>3, <3>4
  <2>4. QED BY <2>2, <2>3 DEF Increasing
<1>10. pane \in Pane /\ pane.asdu = k /\ pane.values = ws
  BY <1>1, <1>8 DEF Pane
<1>11. /\ channels' \in Seq(Pane) /\ Len(channels') = Len(channels)
       /\ \A h \in 1 .. Len(channels) : channels'[h] = IF h = i THEN pane ELSE channels[h]
  <2>1. channels' = [channels EXCEPT ![i] = pane]
    BY <1>1, <1>2
  <2> HIDE DEF pane
  <2>2. QED BY <1>1, <1>10, <2>1, ExceptSeq
<1> HIDE DEF pane, ws, d
<1>12. \A h \in 1 .. Len(channels) : channels'[h].asdu = channels[h].asdu
  BY <1>10, <1>11
<1>13. ASSUME NEW h \in 1 .. Len(channels)
       PROVE  Increasing(channels'[h].values, Len(asdus'[channels'[h].asdu].data))
  <2>1. CASE h = i
    BY <1>1, <1>4, <1>6, <1>9, <1>10, <1>11, <2>1
  <2>2. CASE h # i
    <3>1. channels'[h] = channels[h]
      BY <1>11, <2>2
    <3>2. channels[h].asdu # k /\ channels[h].asdu \in 1 .. Len(asdus)
      BY <1>1, <2>2 DEF IInv, Points
    <3>3. asdus'[channels[h].asdu] = asdus[channels[h].asdu]
      BY <1>6, <3>2
    <3>4. QED BY <3>1, <3>3 DEF IInv, Points
  <2>3. QED BY <2>1, <2>2
<1>14. Points(channels', asdus')
  BY <1>6, <1>11, <1>12, <1>13 DEF IInv, Points
<1>15. QED BY <1>1, <1>2, <1>7, <1>14, StoppedIInv DEF IInv

\* A broadcast counts all live channels by one, and no other ASDU.
LEMMA FinishIterationIInv ==
  ASSUME IInv, FinishIteration
  PROVE  IInv'
<1>1. UNCHANGED <<channels, running, setup_completed>>
  BY DEF FinishIteration
<1>2. CASE asdus' = asdus
  BY <1>1, <1>2 DEF IInv
<1>3. CASE asdus' = Counted /\ setup_completed
  <2>1. /\ SameSlots(asdus, asdus')
        /\ \A k \in 1 .. Len(asdus) :
             /\ asdus'[k].laid = asdus[k].laid
             /\ asdus'[k].smpCnt = IF k \in Live THEN (asdus[k].smpCnt + 1) % CounterSize
                                   ELSE asdus[k].smpCnt
    BY <1>3, CountedShape DEF IInv
  <2>2. Live = LiveIn(channels) /\ LiveIn(channels) \subseteq 1 .. Len(asdus)
    BY DEF Live, LiveIn, IInv, Points
  <2>3. List(asdus') /\ Points(channels', asdus')
    BY <1>1, <2>1, PointsAgain DEF IInv, SameSlots
  <2>4. AllLaid(asdus')
    BY <1>3, <2>1 DEF IInv, AllLaid, SameSlots
  <2>5. Counts(channels', asdus')
    BY <1>1, <1>3, <2>1, <2>2 DEF IInv, Counts, SameSlots
  <2>6. QED BY <1>1, <1>3, <2>3, <2>4, <2>5 DEF IInv
<1>4. QED BY <1>2, <1>3 DEF FinishIteration, Broadcast

LEMMA NextIInv == IInv /\ [Next]_vars => IInv'
<1> SUFFICES ASSUME IInv, [Next]_vars PROVE IInv'
  OBVIOUS
<1>1. CASE UNCHANGED <<channels, asdus, running, setup_completed>>
  BY <1>1 DEF IInv
<1>2. CASE Quit
  BY <1>1, <1>2 DEF Quit, publisher
<1>3. CASE DrawMenu
  BY <1>1, <1>3 DEF DrawMenu, publisher
<1>4. CASE Start
  BY <1>4, StartIInv
<1>5. CASE Stop
  BY <1>5, NewPublisherIInv DEF Stop
<1>6. CASE SelectInterface
  BY <1>1, <1>6, NewPublisherIInv DEF SelectInterface, publisher
<1>7. ASSUME NEW r \in Rates, EditSampleRate(r) PROVE IInv'
  BY <1>1, <1>7 DEF EditSampleRate, publisher
<1>8. CASE DrawPanes
  BY <1>8, PassShape, ShapeIInv DEF DrawPanes
<1>9. ASSUME NEW p \in Shown, NEW v \in Manual, EditValue(p, v) PROVE IInv'
  BY <1>9, PassShape, ShapeIInv DEF EditValue
<1>10. ASSUME NEW h \in Hertzes, EditHertz(h) PROVE IInv'
  BY <1>10, PassShape, ShapeIInv DEF EditHertz
<1>11. ASSUME NEW p \in Shown, NEW c \in Configs, SelectOption(p, c) PROVE IInv'
  BY <1>11, SelectOptionIInv
<1>12. CASE RemoveChannel
  BY <1>12, RemoveChannelIInv
<1>13. ASSUME NEW i \in DOMAIN channels, RemoveValue(i) PROVE IInv'
  BY <1>13, RemoveValueIInv
<1>14. ASSUME NEW i \in DOMAIN channels, NewValue(i) PROVE IInv'
  BY <1>14, NewValueIInv
<1>15. CASE NewChannel
  BY <1>15, NewChannelIInv
<1>16. CASE FinishIteration
  BY <1>16, FinishIterationIInv
<1>17. CASE UNCHANGED vars
  BY <1>1, <1>17 DEF vars, publisher
<1>18. QED
  BY <1>2, <1>3, <1>4, <1>5, <1>6, <1>7, <1>8, <1>9, <1>10, <1>11, <1>12, <1>13, <1>14,
     <1>15, <1>16, <1>17 DEF Next

-----------------------------------------------------------------------------
LEMMA SpecIInv == Spec => []IInv
BY InitIInv, NextIInv, PTL DEF Spec

\* A shown value's place, from the invariant.
LEMMA ShownPlace ==
  ASSUME IInv, NEW p \in Shown
  PROVE  /\ p[1] \in 1 .. Len(channels) /\ p[2] \in 1 .. Len(channels[p[1]].values)
         /\ p = <<p[1], p[2]>>
         /\ SlotOf(p)[1] = channels[p[1]].asdu
         /\ SlotOf(p)[2] = channels[p[1]].values[p[2]].id
         /\ SlotOf(p)[1] \in 1 .. Len(asdus)
         /\ SlotOf(p)[2] \in 1 .. Len(asdus[SlotOf(p)[1]].data)
<1>1. PICK h \in DOMAIN channels : \E g \in DOMAIN channels[h].values : p = <<h, g>>
  BY DEF Shown
<1>2. channels \in Seq(Pane)
  BY DEF IInv, Points
<1>3. h \in 1 .. Len(channels) /\ channels[h] \in Pane /\ p[1] = h
      /\ p = <<p[1], p[2]>> /\ p[2] \in DOMAIN channels[h].values
  BY <1>1, <1>2
<1>4. channels[h].values \in Seq(ValueRecord)
  BY <1>3 DEF Pane
<1>5. p[2] \in 1 .. Len(channels[h].values)
  BY <1>3, <1>4
<1>6. /\ channels[h].asdu \in 1 .. Len(asdus)
      /\ Increasing(channels[h].values, Len(asdus[channels[h].asdu].data))
  BY <1>3 DEF IInv, Points
<1>7. QED BY <1>3, <1>5, <1>6 DEF SlotOf, Increasing

\* Channel::set_value and increment_sample_count never go through an unset
\* pointer, however channels and values were added and removed before START.
THEOREM LaidOut == Spec => []LaidOutBeforeUse
<1>1. ASSUME IInv PROVE LaidOutBeforeUse
  <2>1. SUFFICES ASSUME setup_completed
        PROVE  /\ \A k \in Live : asdus[k].laid # NotLaid
               /\ \A p \in Shown : SlotOf(p)[2] <= asdus[SlotOf(p)[1]].laid
    BY DEF LaidOutBeforeUse
  <2>2. \A k \in 1 .. Len(asdus) : asdus[k].laid = Len(asdus[k].data)
                                 /\ Len(asdus[k].data) \in Nat
    BY <1>1, <2>1, RowDomain DEF IInv, AllLaid, List, Entry
  <2>3. Live \subseteq 1 .. Len(asdus)
    BY <1>1 DEF Live, IInv, Points
  <2>4. \A k \in Live : asdus[k].laid # NotLaid
    BY <2>2, <2>3 DEF NotLaid
  <2>5. \A p \in Shown : SlotOf(p)[2] <= asdus[SlotOf(p)[1]].laid
    BY <1>1, <2>2, ShownPlace
  <2>6. QED BY <2>4, <2>5
<1>2. QED BY <1>1, SpecIInv, PTL

\* The slots of two values shown are two slots of the list.
LEMMA OwnedSlots ==
  ASSUME IInv
  PROVE  SlotsOwned
<1>1. \A p \in Shown : /\ SlotOf(p)[1] \in DOMAIN asdus
                       /\ SlotOf(p)[2] \in DOMAIN asdus[SlotOf(p)[1]].data
  BY ShownPlace, RowDomain DEF IInv, List, Entry
<1>2. ASSUME NEW p \in Shown, NEW q \in Shown, SlotOf(p) = SlotOf(q) PROVE p = q
  <2>1. channels[p[1]].asdu = channels[q[1]].asdu
        /\ channels[p[1]].values[p[2]].id = channels[q[1]].values[q[2]].id
    BY <1>2, ShownPlace
  <2>2. p[1] = q[1]
    <3>1. p[1] \in 1 .. Len(channels) /\ q[1] \in 1 .. Len(channels)
      BY ShownPlace
    <3>2. \A h \in 1 .. Len(channels) : channels[h].asdu \in Nat
      BY DEF IInv, Points, Pane
    <3>3. ~(p[1] < q[1]) /\ ~(q[1] < p[1])
      BY <2>1, <3>1, <3>2 DEF IInv, Points
    <3>4. QED BY <3>1, <3>3
  <2>3. Increasing(channels[p[1]].values, Len(asdus[channels[p[1]].asdu].data))
        /\ p[2] \in 1 .. Len(channels[p[1]].values)
        /\ q[2] \in 1 .. Len(channels[p[1]].values)
    BY <2>2, ShownPlace DEF IInv, Points
  <2>4. p[2] = q[2]
    <3> DEFINE vs == channels[p[1]].values
               j  == p[2]
               h  == q[2]
               n  == Len(asdus[channels[p[1]].asdu].data)
    <3>1. vs[j].id = vs[h].id
      BY <2>1, <2>2
    <3>2. Increasing(vs, n) /\ j \in 1 .. Len(vs) /\ h \in 1 .. Len(vs)
      BY <2>3
    <3> HIDE DEF vs, j, h, n
    <3>3. vs[j].id \in Int /\ vs[h].id \in Int
      BY <3>2 DEF Increasing
    <3>4. ~(j < h) /\ ~(h < j)
      BY <3>1, <3>2, <3>3 DEF Increasing
    <3>5. j = h
      BY <3>2, <3>4
    <3>6. QED BY <3>5 DEF j, h
  <2>5. QED BY <2>2, <2>4, ShownPlace
<1>3. \A i, j \in DOMAIN channels : i < j => channels[i].asdu < channels[j].asdu
  BY DEF IInv, Points
<1>4. QED BY <1>1, <1>2, <1>3 DEF SlotsOwned

\* No two values shown write the same slot, and all of them point into the
\* current handle.
THEOREM SlotsAreOwned == Spec => []SlotsOwned
BY OwnedSlots, SpecIInv, PTL

\* All live channels carry the same sample count, and an ASDU whose channel
\* was removed carries none.
THEOREM CountersAgree == Spec => []LiveCountersAgree
<1>1. ASSUME IInv PROVE LiveCountersAgree
  <2>1. Live = LiveIn(channels) /\ DOMAIN asdus = 1 .. Len(asdus)
        /\ LiveIn(channels) \subseteq 1 .. Len(asdus)
    BY <1>1, RowDomain DEF Live, LiveIn, IInv, List, Points
  <2>2. CASE setup_completed
    BY <1>1, <2>1, <2>2 DEF IInv, Counts, LiveCountersAgree
  <2>3. CASE ~setup_completed
    BY <1>1, <2>1, <2>3 DEF IInv, Fresh, LiveCountersAgree
  <2>4. QED BY <1>1, <2>2, <2>3 DEF IInv
<1>2. QED BY <1>1, SpecIInv, PTL

-----------------------------------------------------------------------------
(* What is in the slots and in the last frame.                             *)

\* A value shown writes this slot.
Drawn(k, s) == \E p \in Shown : SlotOf(p) = <<k, s>>

\* The content is of this iteration.
Now(c) == c[1] = "sine" => c = <<"sine", sine_value>>

\* Only slots of values shown are ever written, only after setup, and every
\* one of them in every iteration: what a frame carries is of one iteration.
Slots ==
  \A k \in 1 .. Len(asdus) : \A s \in 1 .. Len(asdus[k].data) :
    /\ asdus[k].data[s] = Raw \/ (setup_completed /\ Drawn(k, s))
    /\ pc = "tail" /\ setup_completed => Now(asdus[k].data[s])

\* Without a click they hold what the panes show.
PanesWritten ==
  pc = "tail" /\ setup_completed /\ ~clicked =>
    \A p \in Shown : asdus[SlotOf(p)[1]].data[SlotOf(p)[2]] = ShownContent(p, values)

\* The next step of the wave is the one after the last, or the first.
WaveSteps ==
  /\ sample_rate \in Rates /\ old_sample_rate \in Rates
  /\ sine_value \in Nat /\ loops \in {0, sine_value + 1}
  /\ sine_value < old_sample_rate /\ loops < old_sample_rate

Follows(n, x) == n \in {0, x[2] + 1}

\* A frame was sent by the server that runs now, with the counters it has now
\* and the wave one step ago.
LastFrame ==
  IsFrame(wire) /\ pc # "aborted" =>
    /\ running
    /\ DOMAIN wire = DOMAIN asdus
    /\ \A k \in DOMAIN wire : wire[k].smpCnt = asdus[k].smpCnt
    /\ \A x \in SineSteps(wire) : Follows(sine_value, x)

Carried == Slots /\ PanesWritten /\ WaveSteps /\ LastFrame

\* Writing the panes.
LEMMA WrittenContent ==
  ASSUME IInv, NEW typed, NEW k \in 1 .. Len(asdus), NEW s \in 1 .. Len(asdus[k].data)
  PROVE  /\ ~Drawn(k, s) => Written(typed)[k].data[s] = asdus[k].data[s]
         /\ \A p \in Shown : SlotOf(p) = <<k, s>> =>
              Written(typed)[k].data[s] = ShownContent(p, typed)
<1>1. /\ DOMAIN asdus = 1 .. Len(asdus) /\ Entry(asdus[k])
      /\ DOMAIN asdus[k].data = 1 .. Len(asdus[k].data)
  BY RowDomain DEF IInv, List, Entry
<1>2. PICK d : d = asdus[k].data
  OBVIOUS
<1> DEFINE at == {p \in Shown : SlotOf(p) = <<k, s>>}
<1>3. Written(typed)[k].data[s] = IF at = {} THEN d[s]
                                  ELSE ShownContent(CHOOSE p \in at : TRUE, typed)
  <2> DEFINE f == [h \in DOMAIN d |->
                     LET on == {p \in Shown : SlotOf(p) = <<k, h>>}
                     IN  IF on = {} THEN d[h] ELSE ShownContent(CHOOSE p \in on : TRUE, typed)]
  <2>1. Written(typed)[k] = [asdus[k] EXCEPT !.data = f]
    BY <1>1, <1>2 DEF Written, Entry
  <2>2. f[s] = IF at = {} THEN d[s] ELSE ShownContent(CHOOSE p \in at : TRUE, typed)
    BY <1>1, <1>2
  <2> HIDE DEF f
  <2>3. [asdus[k] EXCEPT !.data = f].data = f
    BY <1>1 DEF Entry
  <2> HIDE DEF at
  <2>4. QED BY <2>1, <2>2, <2>3
<1>4. ~Drawn(k, s) => at = {}
  BY DEF Drawn
<1>5. ASSUME NEW p \in Shown, SlotOf(p) = <<k, s>>
      PROVE  at # {} /\ (CHOOSE q \in at : TRUE) = p
  <2>1. p \in at
    BY <1>5
  <2>2. \A q \in at : q = p
    BY <1>5, OwnedSlots DEF SlotsOwned
  <2> HIDE DEF at
  <2>3. QED BY <2>1, <2>2
<1> HIDE DEF at
<1>6. QED BY <1>2, <1>3, <1>4, <1>5

\* Changing one option leaves the slots the panes write.
LEMMA OptionSlots ==
  ASSUME IInv, NEW p \in Shown, NEW c,
         channels' = [channels EXCEPT ![p[1]].values[p[2]].config = c]
  PROVE  Shown' = Shown /\ \A q \in Shown : SlotOf(q)' = SlotOf(q)
<1>1. PICK i, j : i = p[1] /\ j = p[2]
  OBVIOUS
<1>2. PICK vs : vs = channels[i].values
  OBVIOUS
<1>3. /\ channels \in Seq(Pane) /\ i \in DOMAIN channels /\ channels[i] \in Pane
      /\ vs \in Seq(ValueRecord) /\ j \in DOMAIN vs /\ vs[j] \in ValueRecord
  <2>1. channels \in Seq(Pane)
    BY DEF IInv, Points
  <2>2. i \in 1 .. Len(channels) /\ j \in 1 .. Len(vs)
    BY <1>1, <1>2, ShownPlace
  <2>3. i \in DOMAIN channels /\ channels[i] \in Pane
    BY <2>1, <2>2
  <2>4. vs \in Seq(ValueRecord)
    BY <1>2, <2>3 DEF Pane
  <2>5. QED BY <2>1, <2>2, <2>3, <2>4
<1>4. PICK v : v = [vs[j] EXCEPT !.config = c]
  OBVIOUS
<1>5. v.id = vs[j].id
  BY <1>3, <1>4 DEF ValueRecord
<1>6. PICK ws : ws = [vs EXCEPT ![j] = v]
  OBVIOUS
<1>7. DOMAIN ws = DOMAIN vs /\ \A h \in DOMAIN vs : ws[h].id = vs[h].id
  BY <1>3, <1>5, <1>6
<1>8. PICK pane : pane = [channels[i] EXCEPT !.values = ws]
  OBVIOUS
<1>9. pane.asdu = channels[i].asdu /\ pane.values = ws
  BY <1>3, <1>8 DEF Pane
<1>10. channels' = [channels EXCEPT ![i] = pane]
  BY <1>1, <1>2, <1>3, <1>4, <1>6, <1>8
<1>11. /\ DOMAIN channels' = DOMAIN channels
       /\ \A h \in DOMAIN channels :
            /\ channels'[h].asdu = channels[h].asdu
            /\ DOMAIN channels'[h].values = DOMAIN channels[h].values
            /\ \A g \in DOMAIN channels[h].values :
                 channels'[h].values[g].id = channels[h].values[g].id
  BY <1>2, <1>3, <1>7, <1>9, <1>10
<1>12. Shown' = Shown
  <2>1. \A x : x \in Shown' <=> \E h \in DOMAIN channels' :
                                 \E g \in DOMAIN channels'[h].values : x = <<h, g>>
    BY DEF Shown
  <2>2. \A x : x \in Shown <=> \E h \in DOMAIN channels :
                                \E g \in DOMAIN channels[h].values : x = <<h, g>>
    BY DEF Shown
  <2>3. \A x : x \in Shown' <=> x \in Shown
    BY <1>11, <2>1, <2>2
  <2>4. QED BY <2>3
<1>13. ASSUME NEW q \in Shown PROVE SlotOf(q)' = SlotOf(q)
  <2>1. PICK h \in DOMAIN channels : \E g \in DOMAIN channels[h].values : q = <<h, g>>
    BY DEF Shown
  <2>2. PICK g \in DOMAIN channels[h].values : q = <<h, g>>
    BY <2>1
  <2>3. q[1] = h /\ q[2] = g
    BY <2>2
  <2>4. QED BY <1>11, <2>3 DEF SlotOf
<1>14. QED BY <1>12, <1>13

AllRaw(as) == \A k \in 1 .. Len(as) : \A s \in 1 .. Len(as[k].data) : as[k].data[s] = Raw

\* As long as nothing was set up, nothing was written and nothing sent.
LEMMA NothingYet ==
  ASSUME IInv, Carried, pc # "aborted", ~setup_completed
  PROVE  AllRaw(asdus) /\ ~running /\ ~IsFrame(wire)
BY DEF IInv, Carried, Slots, AllRaw, LastFrame

\* It stays so while channels and values come and go.
LEMMA StillNothing ==
  ASSUME Carried, ~setup_completed', AllRaw(asdus'), ~IsFrame(wire'),
         UNCHANGED <<sample_rate, old_sample_rate, loops, sine_value>>
  PROVE  Carried'
BY DEF Carried, Slots, PanesWritten, WaveSteps, LastFrame, IsFrame, AllRaw

\* Steps in which the panes are not drawn and nothing is sent.
LEMMA NothingDrawn ==
  ASSUME Carried, pc # "aborted", pc' # "tail", sample_rate' \in Rates,
         UNCHANGED <<channels, asdus, running, setup_completed, old_sample_rate, loops,
                     sine_value, wire>>
  PROVE  Carried'
<1>1. Slots'
  BY DEF Carried, Slots, Drawn, Shown, SlotOf
<1>2. PanesWritten'
  BY DEF PanesWritten
<1>3. WaveSteps'
  BY DEF Carried, WaveSteps
<1>4. LastFrame'
  BY DEF Carried, LastFrame, IsFrame, SineSteps, Follows
<1>5. QED BY <1>1, <1>2, <1>3, <1>4 DEF Carried

\* The last frame, when lists with the same counters follow each other.
LEMMA SameLastFrame ==
  ASSUME Carried, IInv, pc # "aborted", SameShape(asdus, asdus'),
         UNCHANGED <<running, sine_value, wire>>
  PROVE  LastFrame'
<1>1. SUFFICES ASSUME IsFrame(wire)
               PROVE  /\ running
                      /\ DOMAIN wire = DOMAIN asdus'
                      /\ \A k \in DOMAIN wire : wire[k].smpCnt = asdus'[k].smpCnt
                      /\ \A x \in SineSteps(wire) : Follows(sine_value, x)
  BY DEF LastFrame, IsFrame, SineSteps, Follows
<1>2. /\ running /\ DOMAIN wire = DOMAIN asdus
      /\ \A k \in DOMAIN wire : wire[k].smpCnt = asdus[k].smpCnt
      /\ \A x \in SineSteps(wire) : Follows(sine_value, x)
  BY <1>1 DEF Carried, LastFrame
<1>3. /\ DOMAIN asdus = 1 .. Len(asdus) /\ DOMAIN asdus' = 1 .. Len(asdus)
      /\ \A k \in 1 .. Len(asdus) : asdus'[k].smpCnt = asdus[k].smpCnt
  BY RowDomain DEF IInv, List, SameShape, SameSlots
<1>4. QED BY <1>2, <1>3

\* A pass over the panes of a server that was set up: all of them are written.
LEMMA PassCarried ==
  ASSUME IInv, Carried, setup_completed, NEW cs, NEW typed, Panes(cs, typed, Same),
         Shown' = Shown, \A q \in Shown : SlotOf(q)' = SlotOf(q),
         UNCHANGED <<sample_rate, old_sample_rate, loops, sine_value>>,
         \/ clicked'
         \/ typed = values /\ cs = channels
  PROVE  Carried'
<1>1. /\ pc = "panes" /\ channels' = cs /\ values' = typed
      /\ UNCHANGED <<running, setup_completed, wire>>
  BY DEF Panes
<1>2. SameShape(asdus, asdus')
  BY PassShape
<1>3. PICK n : n = Len(asdus)
  OBVIOUS
<1>4. Len(asdus') = n /\ \A k \in 1 .. n : Len(asdus'[k].data) = Len(asdus[k].data)
  BY <1>2, <1>3 DEF SameShape, SameSlots
<1>5. \A k, s : Drawn(k, s) => Drawn(k, s)'
  BY DEF Drawn
<1>6. asdus' = asdus \/ asdus' = Written(typed)
  BY DEF Panes, Same
<1>7. pc' = "tail" => asdus' = Written(typed) \/ Shown = {}
  BY DEF Panes, Same
<1>8. ASSUME NEW k \in 1 .. n, NEW s \in 1 .. Len(asdus[k].data)
      PROVE  /\ asdus'[k].data[s] = Raw \/ Drawn(k, s)
             /\ pc' = "tail" => Now(asdus'[k].data[s])
  <2>1. asdus[k].data[s] = Raw \/ Drawn(k, s)
    BY <1>3, <1>8 DEF Carried, Slots
  <2>2. ~Drawn(k, s) => asdus'[k].data[s] = Raw
    BY <1>3, <1>6, <1>8, <2>1, WrittenContent
  <2>3. CASE ~Drawn(k, s)
    BY <2>2, <2>3 DEF Now, Raw
  <2>4. CASE Drawn(k, s)
    <3>1. PICK p \in Shown : SlotOf(p) = <<k, s>>
      BY <2>4 DEF Drawn
    <3>2. pc' = "tail" => asdus'[k].data[s] = ShownContent(p, typed)
      BY <1>3, <1>7, <1>8, <3>1, WrittenContent
    <3>3. Now(ShownContent(p, typed))
      BY DEF ShownContent, Now
    <3>4. QED BY <2>4, <3>2, <3>3
  <2>5. QED BY <2>3, <2>4
<1>9. Slots'
  <2>1. SUFFICES ASSUME NEW k \in 1 .. n, NEW s \in 1 .. Len(asdus[k].data)
                 PROVE  /\ asdus'[k].data[s] = Raw \/ (setup_completed' /\ Drawn(k, s)')
                        /\ pc' = "tail" /\ setup_completed' => Now(asdus[k].data[s])'
    BY <1>4 DEF Slots
  <2>2. Now(asdus[k].data[s])' <=> Now(asdus'[k].data[s])
    BY DEF Now
  <2>3. QED BY <1>1, <1>5, <1>8, <2>2
<1>10. PanesWritten'
  <2>1. SUFFICES ASSUME pc' = "tail", ~clicked', NEW p \in Shown
                 PROVE  (asdus[SlotOf(p)[1]].data[SlotOf(p)[2]])' = ShownContent(p, values)'
    BY DEF PanesWritten
  <2>2. typed = values /\ cs = channels
    BY <2>1
  <2>3. asdus' = Written(typed)
    BY <1>7, <2>1
  <2>4. PICK k, s : k = SlotOf(p)[1] /\ s = SlotOf(p)[2]
    OBVIOUS
  <2>5. k \in 1 .. Len(asdus) /\ s \in 1 .. Len(asdus[k].data) /\ SlotOf(p) = <<k, s>>
    BY <2>4, ShownPlace DEF SlotOf
  <2>6. Written(typed)[k].data[s] = ShownContent(p, typed)
    BY <2>5, WrittenContent
  <2>7. SlotOf(p)' = SlotOf(p)
    OBVIOUS
  <2>8. ShownContent(p, values)' = ShownContent(p, typed)
    BY <1>1, <2>2 DEF ShownContent, ConfigOf
  <2>9. QED BY <2>3, <2>4, <2>6, <2>7, <2>8
<1>11. WaveSteps'
  BY DEF Carried, WaveSteps
<1>12. LastFrame'
  BY <1>1, <1>2, SameLastFrame
<1>13. QED BY <1>9, <1>10, <1>11, <1>12 DEF Carried

\* A pass over the panes of a server that was not set up writes nothing.
LEMMA UnsetPass ==
  ASSUME IInv, Carried, ~setup_completed, NEW cs, NEW typed, Panes(cs, typed, Same),
         UNCHANGED <<sample_rate, old_sample_rate, loops, sine_value>>
  PROVE  Carried'
<1>1. pc # "aborted" /\ asdus' = asdus /\ UNCHANGED <<setup_completed, wire>>
  BY DEF Panes, AssertionFails, Same
<1>2. AllRaw(asdus') /\ ~IsFrame(wire') /\ ~setup_completed'
  BY <1>1, NothingYet
<1>3. QED BY <1>2, StillNothing

\* main starts with one value that nobody wrote.
LEMMA InitCarried == Init => Carried
<1> SUFFICES ASSUME Init PROVE Carried
  OBVIOUS
<1>1. AllRaw(asdus)
  <2>1. asdus = <<[smpCnt |-> 0, laid |-> NotLaid, data |-> <<Raw>>]>>
    BY DEF Init, AddFLOAT, NewASDU
  <2>2. PICK a : a = [smpCnt |-> 0, laid |-> NotLaid, data |-> <<Raw>>]
    OBVIOUS
  <2>3. asdus = <<a>> /\ a.data = <<Raw>>
    BY <2>1, <2>2
  <2>4. Len(asdus) = 1 /\ asdus[1] = a /\ Len(a.data) = 1 /\ a.data[1] = Raw
    BY <2>3
  <2>5. QED BY <2>4 DEF AllRaw
<1>2. Slots
  BY <1>1 DEF Slots, AllRaw, Init
<1>3. WaveSteps
  BY RateAssumption DEF Init, WaveSteps
<1>4. QED BY <1>2, <1>3 DEF Carried, Init, PanesWritten, LastFrame, IsFrame

\* START lays out what is there and writes none of it.
LEMMA StartCarried ==
  ASSUME IInv, Carried, Start
  PROVE  Carried'
<1>1. /\ pc = "menu" /\ pc' # "tail" /\ setup_completed' /\ running'
      /\ UNCHANGED <<channels, wire, values, wave>>
  BY DEF Start, Click, Continue
<1>2. CASE setup_completed
  <2>1. asdus' = asdus /\ running' = running /\ setup_completed' = setup_completed
    BY <1>2 DEF Start, IInv
  <2>2. QED BY <1>1, <2>1, NothingDrawn DEF wave, Carried, WaveSteps
<1>3. CASE ~setup_completed
  <2>1. asdus' = SetupComplete(asdus)
    BY <1>3 DEF Start
  <2>2. AllRaw(asdus) /\ ~IsFrame(wire)
    BY <1>1, <1>3, NothingYet
  <2>3. DOMAIN asdus = 1 .. Len(asdus) /\ \A k \in 1 .. Len(asdus) : Entry(asdus[k])
    BY RowDomain DEF IInv, List
  <2>4. Len(asdus') = Len(asdus)
    BY <2>1, SetupShape DEF IInv, SameSlots
  <2>5. \A k \in 1 .. Len(asdus) : asdus'[k].data = asdus[k].data
    BY <2>1, <2>3 DEF SetupComplete, Entry
  <2>6. AllRaw(asdus')
    BY <2>2, <2>4, <2>5 DEF AllRaw
  <2>7. Slots'
    BY <1>1, <2>6 DEF Slots, AllRaw
  <2>8. PanesWritten'
    BY <1>1 DEF PanesWritten
  <2>9. WaveSteps'
    BY <1>1 DEF Carried, WaveSteps, wave
  <2>10. LastFrame'
    BY <1>1, <2>2 DEF LastFrame, IsFrame
  <2>11. QED BY <2>7, <2>8, <2>9, <2>10 DEF Carried
<1>4. QED BY <1>2, <1>3

\* The slots of a new handle, of a longer list, of a longer row.
LEMMA NewPublisherCarried ==
  ASSUME IInv, Carried, NewPublisher, UNCHANGED <<wave>>
  PROVE  Carried'
<1>1. asdus' = <<>> /\ wire' = <<>> /\ ~setup_completed'
  BY DEF NewPublisher
<1>2. AllRaw(asdus') /\ ~IsFrame(wire')
  BY <1>1 DEF AllRaw, IsFrame
<1>3. QED BY <1>1, <1>2, StillNothing DEF wave

LEMMA NewChannelCarried ==
  ASSUME IInv, Carried, NewChannel
  PROVE  Carried'
<1>1. /\ ~setup_completed /\ pc # "aborted" /\ Row(asdus) /\ Len(asdus) \in Nat
      /\ UNCHANGED <<setup_completed, wire, wave>>
  BY DEF NewChannel, Panes, IInv, List, Row
<1>2. AllRaw(asdus) /\ ~IsFrame(wire)
  BY <1>1, NothingYet
<1>3. asdus' = asdus \/ asdus' = Append(asdus, NewASDU)
  BY <1>1 DEF NewChannel, Panes, AssertionFails
<1>4. AllRaw(asdus')
  <2>1. CASE asdus' = asdus
    BY <1>2, <2>1
  <2>2. CASE asdus' = Append(asdus, NewASDU)
    <3>1. /\ Len(asdus') = Len(asdus) + 1
          /\ \A k \in 1 .. Len(asdus) : asdus'[k] = asdus[k]
          /\ asdus'[Len(asdus) + 1] = NewASDU
      BY <1>1, <2>2, RowAppend
    <3>2. Len(NewASDU.data) = 0
      BY DEF NewASDU
    <3>3. ASSUME NEW k \in 1 .. Len(asdus') PROVE k \in 1 .. Len(asdus) \/ k = Len(asdus) + 1
      BY <1>1, <3>1
    <3>4. QED BY <1>2, <3>1, <3>2, <3>3 DEF AllRaw
  <2>3. QED BY <1>3, <2>1, <2>2
<1>5. QED BY <1>1, <1>2, <1>4, StillNothing DEF wave

LEMMA NewValueCarried ==
  ASSUME IInv, Carried, NEW i \in DOMAIN channels, NewValue(i)
  PROVE  Carried'
<1>1. /\ ~setup_completed /\ pc # "aborted"
      /\ UNCHANGED <<setup_completed, wire, wave>>
  BY DEF NewValue, Panes, IInv
<1>2. AllRaw(asdus) /\ ~IsFrame(wire)
  BY <1>1, NothingYet
<1>3. PICK k : k = channels[i].asdu
  OBVIOUS
<1>4. k \in 1 .. Len(asdus) /\ Entry(asdus[k]) /\ DOMAIN asdus = 1 .. Len(asdus)
      /\ Len(asdus) \in Nat /\ Row(asdus)
  <2>1. channels \in Seq(Pane) /\ List(asdus) /\ Points(channels, asdus)
    BY DEF IInv, Points
  <2>2. i \in 1 .. Len(channels)
    BY <2>1
  <2>3. k \in 1 .. Len(asdus)
    BY <1>3, <2>1, <2>2 DEF Points
  <2>4. QED BY <2>1, <2>3, RowDomain DEF List
<1>5. asdus' = AddFLOAT(asdus, k)
  BY <1>1, <1>3 DEF NewValue, Panes, AssertionFails
<1>6. PICK a, d : a = asdus[k] /\ d = a.data
  OBVIOUS
<1>7. PICK e : e = [a EXCEPT !.data = Append(d, Raw)]
  OBVIOUS
<1>8. e.data = Append(d, Raw) /\ asdus' = [asdus EXCEPT ![k] = e]
  <2>1. e.data = Append(d, Raw)
    BY <1>4, <1>6, <1>7 DEF Entry
  <2>2. asdus' = [asdus EXCEPT ![k] = e]
    BY <1>4, <1>5, <1>6, <1>7 DEF AddFLOAT
  <2>3. QED BY <2>1, <2>2
<1>9. /\ Row(d) /\ Len(d) \in Nat /\ Len(Append(d, Raw)) = Len(d) + 1
      /\ \A s \in 1 .. Len(d) : Append(d, Raw)[s] = d[s]
      /\ Append(d, Raw)[Len(d) + 1] = Raw
  BY <1>4, <1>6, RowAppend DEF Entry, Row
<1>10. \A s \in 1 .. Len(e.data) : e.data[s] = Raw
  <2>1. PICK l \in Nat : l = Len(d)
    BY <1>9
  <2>2. \A s \in 1 .. l : d[s] = Raw
    BY <1>2, <1>4, <1>6, <2>1 DEF AllRaw
  <2>3. Len(e.data) = l + 1
    BY <1>8, <1>9, <2>1
  <2>4. \A s \in 1 .. l + 1 : s \in 1 .. l \/ s = l + 1
    BY <2>1
  <2>5. QED BY <1>8, <1>9, <2>1, <2>2, <2>3, <2>4
<1>11. Len(asdus') = Len(asdus) /\ \A h \in 1 .. Len(asdus) : asdus'[h] = IF h = k THEN e ELSE asdus[h]
  <2>1. \A h \in 1 .. Len(asdus) : asdus'[h] = IF h = k THEN e ELSE asdus[h]
    BY <1>4, <1>8
  <2>2. asdus' = [h \in 1 .. Len(asdus) |-> asdus'[h]]
    BY <1>4, <1>8
  <2>3. QED BY <1>4, <2>1, <2>2, RowOfFunction
<1>12. AllRaw(asdus')
  BY <1>2, <1>10, <1>11 DEF AllRaw
<1>13. QED BY <1>1, <1>2, <1>12, StillNothing DEF wave

\* A removed channel or value leaves its slots as they are.
LEMMA RemoveChannelCarried ==
  ASSUME IInv, Carried, RemoveChannel
  PROVE  Carried'
<1>1. /\ ~setup_completed /\ pc # "aborted" /\ asdus' = asdus
      /\ UNCHANGED <<setup_completed, wire, wave>>
  BY DEF RemoveChannel, IInv
<1>2. AllRaw(asdus') /\ ~IsFrame(wire')
  BY <1>1, NothingYet
<1>3. QED BY <1>1, <1>2, StillNothing DEF wave

LEMMA RemoveValueCarried ==
  ASSUME IInv, Carried, NEW i \in DOMAIN channels, RemoveValue(i)
  PROVE  Carried'
BY UnsetPass DEF RemoveValue, IInv, wave

LEMMA DrawPanesCarried ==
  ASSUME IInv, Carried, DrawPanes
  PROVE  Carried'
<1>1. /\ Panes(channels, values, Same) /\ UNCHANGED <<channels, wave>>
  BY DEF DrawPanes, Panes
<1>2. Shown' = Shown /\ \A q \in Shown : SlotOf(q)' = SlotOf(q)
  BY <1>1 DEF Shown, SlotOf
<1>3. CASE setup_completed
  BY <1>1, <1>2, <1>3, PassCarried DEF wave
<1>4. CASE ~setup_completed
  BY <1>1, <1>4, UnsetPass DEF wave
<1>5. QED BY <1>3, <1>4

\* What a user changes in a pane, the panes of that pass are still written.
LEMMA EditCarried ==
  ASSUME IInv, Carried, NEW typed, Panes(channels, typed, Same), clicked',
         UNCHANGED <<sample_rate, old_sample_rate, loops, sine_value>>
  PROVE  Carried'
<1>1. channels' = channels
  BY DEF Panes
<1>2. Shown' = Shown /\ \A q \in Shown : SlotOf(q)' = SlotOf(q)
  BY <1>1 DEF Shown, SlotOf
<1>3. CASE setup_completed
  BY <1>2, <1>3, PassCarried
<1>4. CASE ~setup_completed
  BY <1>4, UnsetPass
<1>5. QED BY <1>3, <1>4

LEMMA SelectOptionCarried ==
  ASSUME IInv, Carried, NEW p \in Shown, NEW c \in Configs, SelectOption(p, c)
  PROVE  Carried'
<1>1. PICK cs : cs = [channels EXCEPT ![p[1]].values[p[2]].config = c]
  OBVIOUS
<1>2. /\ Panes(cs, values, Same) /\ clicked' /\ UNCHANGED wave
  BY <1>1 DEF SelectOption, PaneClick
<1>3. channels' = [channels EXCEPT ![p[1]].values[p[2]].config = c]
  BY <1>1, <1>2 DEF Panes
<1>4. Shown' = Shown /\ \A q \in Shown : SlotOf(q)' = SlotOf(q)
  BY <1>3, OptionSlots
<1>5. CASE setup_completed
  BY <1>2, <1>4, <1>5, PassCarried DEF wave
<1>6. CASE ~setup_completed
  BY <1>2, <1>6, UnsetPass DEF wave
<1>7. QED BY <1>5, <1>6

\* The frame of a broadcast: all rows as they are, with the counters counted.
LEMMA FrameRows ==
  ASSUME IInv, setup_completed
  PROVE  /\ DOMAIN Frame(Counted) = 1 .. Len(asdus)
         /\ \A k \in 1 .. Len(asdus) :
              /\ Frame(Counted)[k].smpCnt = Counted[k].smpCnt
              /\ Counted[k].data = asdus[k].data
              /\ DOMAIN Frame(Counted)[k].data = 1 .. Len(asdus[k].data)
              /\ \A s \in 1 .. Len(asdus[k].data) :
                   Frame(Counted)[k].data[s] = asdus[k].data[s]
<1>1. DOMAIN asdus = 1 .. Len(asdus)
  BY RowDomain DEF IInv, List
<1>2. DOMAIN Frame(Counted) = 1 .. Len(asdus)
  BY <1>1 DEF Frame, Counted
<1>3. ASSUME NEW k \in 1 .. Len(asdus)
      PROVE  /\ Frame(Counted)[k].smpCnt = Counted[k].smpCnt
             /\ Counted[k].data = asdus[k].data
             /\ DOMAIN Frame(Counted)[k].data = 1 .. Len(asdus[k].data)
             /\ \A s \in 1 .. Len(asdus[k].data) :
                  Frame(Counted)[k].data[s] = asdus[k].data[s]
  <2>1. Entry(asdus[k]) /\ asdus[k].laid = Len(asdus[k].data)
    BY DEF IInv, List, AllLaid
  <2>2. Counted[k].laid = asdus[k].laid
    BY CountedShape DEF IInv
  <2>3. Counted[k].data = asdus[k].data
    BY <1>1, <2>1 DEF Counted, Entry
  <2>4. PICK d, l : d = asdus[k].data /\ l = Len(d)
    OBVIOUS
  <2>5. l \in Nat /\ DOMAIN d = 1 .. l
    BY <2>1, <2>4, RowDomain DEF Entry
  <2>6. Frame(Counted)[k] = [smpCnt |-> Counted[k].smpCnt, data |-> SubSeq(d, 1, l)]
    <3>1. DOMAIN Counted = 1 .. Len(asdus)
      BY <1>1 DEF Counted
    <3>2. QED BY <2>1, <2>2, <2>3, <2>4, <3>1 DEF Frame
  <2>7. DOMAIN SubSeq(d, 1, l) = 1 .. l /\ \A s \in 1 .. l : SubSeq(d, 1, l)[s] = d[s]
    BY <2>5
  <2>8. QED BY <2>3, <2>4, <2>6, <2>7
<1>4. QED BY <1>2, <1>3

\* The steps of the wave in that frame are of this iteration.
LEMMA FrameSteps ==
  ASSUME IInv, Carried, setup_completed, pc = "tail", NEW x \in SineSteps(Frame(Counted))
  PROVE  x[2] = sine_value
<1>1. PICK w : w = Frame(Counted)
  OBVIOUS
<1>2. PICK k \in DOMAIN w : \E s \in DOMAIN w[k].data : x = w[k].data[s]
  BY <1>1 DEF SineSteps
<1>3. PICK s \in DOMAIN w[k].data : x = w[k].data[s]
  BY <1>2
<1>4. k \in 1 .. Len(asdus) /\ s \in 1 .. Len(asdus[k].data) /\ x = asdus[k].data[s]
  BY <1>1, <1>2, <1>3, FrameRows
<1>5. Now(x) /\ x[1] = "sine"
  BY <1>4 DEF Carried, Slots, SineSteps
<1>6. QED BY <1>5 DEF Now

\* The wave goes one step on or starts anew.
LEMMA WaveGoesOn ==
  ASSUME WaveSteps, StepWave
  PROVE  WaveSteps' /\ sine_value' \in {0, sine_value + 1}
<1>1. PICK step : step = IF Restarts THEN 0 ELSE loops
  OBVIOUS
<1>2. /\ sine_value' = step /\ loops' = (step + 1) % sample_rate
      /\ old_sample_rate' = sample_rate /\ sample_rate' = sample_rate
  BY <1>1 DEF StepWave
<1>3. sample_rate \in Nat /\ sample_rate > 0 /\ sample_rate \in Rates
  BY RateAssumption DEF WaveSteps
<1>4. step \in Nat /\ step \in {0, sine_value + 1} /\ step < sample_rate
  BY <1>1, <1>3 DEF WaveSteps, Restarts
<1>5. (step + 1) % sample_rate \in {0, step + 1} /\ (step + 1) % sample_rate < sample_rate
  <2>1. CASE step + 1 < sample_rate
    BY <1>3, <1>4, <2>1
  <2>2. CASE step + 1 = sample_rate
    BY <1>3, <1>4, <2>2
  <2>3. QED BY <1>3, <1>4, <2>1, <2>2
<1>6. QED BY <1>2, <1>3, <1>4, <1>5 DEF WaveSteps

LEMMA FinishIterationCarried ==
  ASSUME IInv, Carried, FinishIteration
  PROVE  Carried'
<1>1. /\ pc = "tail" /\ pc' # "tail" /\ StepWave /\ Broadcast
      /\ UNCHANGED <<running, setup_completed, channels>>
  BY DEF FinishIteration, Broadcast, Continue
<1>2. WaveSteps' /\ sine_value' \in {0, sine_value + 1}
  BY <1>1, WaveGoesOn DEF Carried
<1>3. PanesWritten'
  BY <1>1 DEF PanesWritten
<1>4. /\ Len(asdus') = Len(asdus)
      /\ \A k \in 1 .. Len(asdus) : asdus'[k].data = asdus[k].data
  <2>1. CASE asdus' = asdus
    BY <2>1
  <2>2. CASE asdus' = Counted /\ setup_completed
    BY <2>2, CountedShape, FrameRows DEF IInv, SameSlots
  <2>3. QED BY <1>1, <2>1, <2>2 DEF Broadcast
<1>5. Slots'
  <2>1. \A k, s : Drawn(k, s)' <=> Drawn(k, s)
    BY <1>1 DEF Drawn, Shown, SlotOf
  <2>2. \A k \in 1 .. Len(asdus) : \A s \in 1 .. Len(asdus[k].data) :
          asdus[k].data[s] = Raw \/ (setup_completed /\ Drawn(k, s))
    BY DEF Carried, Slots
  <2>3. QED BY <1>1, <1>4, <2>1, <2>2 DEF Slots
<1>6. LastFrame'
  <2>1. SUFFICES ASSUME IsFrame(wire'), pc' # "aborted"
                 PROVE  /\ running
                        /\ DOMAIN wire' = DOMAIN asdus'
                        /\ \A k \in DOMAIN wire' : wire'[k].smpCnt = asdus'[k].smpCnt
                        /\ \A x \in SineSteps(wire') : Follows(sine_value, x)'
    BY <1>1 DEF LastFrame, IsFrame, SineSteps
  <2>2. CASE ~running \/ ~setup_completed
    <3>1. wire' = wire
      BY <1>1, <2>2 DEF Broadcast
    <3>2. ~IsFrame(wire)
      BY <1>1, <2>2 DEF Carried, LastFrame, IInv
    <3>3. QED BY <2>1, <3>1, <3>2
  <2>3. CASE running /\ setup_completed
    <3>1. asdus' = Counted /\ wire' = Frame(Counted)
      BY <1>1, <2>1, <2>3 DEF Broadcast, IsFrame
    <3>2. DOMAIN asdus' = 1 .. Len(asdus)
      BY <3>1, RowDomain DEF IInv, List, Counted
    <3>3. \A x \in SineSteps(wire') : x[2] = sine_value
      BY <1>1, <2>3, <3>1, FrameSteps
    <3>4. QED BY <1>2, <2>3, <3>1, <3>2, <3>3, FrameRows DEF Follows
  <2>4. QED BY <2>2, <2>3
<1>7. QED BY <1>2, <1>3, <1>5, <1>6 DEF Carried

LEMMA NextCarried == IInv /\ Carried /\ [Next]_vars => Carried'
<1> SUFFICES ASSUME IInv, Carried, [Next]_vars PROVE Carried'
  OBVIOUS
<1>1. sample_rate \in Rates
  BY DEF Carried, WaveSteps
<1>2. CASE Quit
  BY <1>1, <1>2, NothingDrawn DEF Quit, publisher, wave
<1>3. CASE DrawMenu
  BY <1>1, <1>3, NothingDrawn DEF DrawMenu, publisher, wave
<1>4. CASE Start
  BY <1>4, StartCarried
<1>5. CASE Stop
  BY <1>5, NewPublisherCarried DEF Stop
<1>6. CASE SelectInterface
  BY <1>1, <1>6, NewPublisherCarried, NothingDrawn DEF SelectInterface, publisher, wave, Click
<1>7. ASSUME NEW r \in Rates, EditSampleRate(r) PROVE Carried'
  BY <1>7, NothingDrawn DEF EditSampleRate, publisher, Click
<1>8. CASE DrawPanes
  BY <1>8, DrawPanesCarried
<1>9. ASSUME NEW p \in Shown, NEW v \in Manual, EditValue(p, v) PROVE Carried'
  BY <1>9, EditCarried DEF EditValue, PaneClick, wave
<1>10. ASSUME NEW h \in Hertzes, EditHertz(h) PROVE Carried'
  BY <1>10, EditCarried DEF EditHertz, PaneClick
<1>11. ASSUME NEW p \in Shown, NEW c \in Configs, SelectOption(p, c) PROVE Carried'
  BY <1>11, SelectOptionCarried
<1>12. CASE RemoveChannel
  BY <1>12, RemoveChannelCarried
<1>13. ASSUME NEW i \in DOMAIN channels, RemoveValue(i) PROVE Carried'
  BY <1>13, RemoveValueCarried
<1>14. ASSUME NEW i \in DOMAIN channels, NewValue(i) PROVE Carried'
  BY <1>14, NewValueCarried
<1>15. CASE NewChannel
  BY <1>15, NewChannelCarried
<1>16. CASE FinishIteration
  BY <1>16, FinishIterationCarried
<1>17. CASE UNCHANGED vars
  <2>1. UNCHANGED <<pc, clicked, running, setup_completed, channels, asdus, values, sample_rate,
                    old_sample_rate, loops, sine_value, wire>>
    BY <1>17 DEF vars, publisher, wave
  <2>2. Shown' = Shown
    BY <2>1 DEF Shown
  <2>3. /\ \A p : SlotOf(p)' = SlotOf(p) /\ ShownContent(p, values)' = ShownContent(p, values)
        /\ \A x : Now(x)' <=> Now(x)
    BY <2>1 DEF SlotOf, ShownContent, ConfigOf, Now
  <2>4. \A k, s : Drawn(k, s)' <=> Drawn(k, s)
    BY <2>2, <2>3 DEF Drawn
  <2>5. Slots'
    BY <2>1, <2>3, <2>4 DEF Carried, Slots
  <2>6. PanesWritten'
    BY <2>1, <2>2, <2>3 DEF Carried, PanesWritten
  <2>7. WaveSteps'
    BY <2>1 DEF Carried, WaveSteps
  <2>8. LastFrame'
    BY <2>1 DEF Carried, LastFrame, IsFrame, SineSteps, Follows
  <2>9. QED BY <2>5, <2>6, <2>7, <2>8 DEF Carried
<1>18. QED
  BY <1>2, <1>3, <1>4, <1>5, <1>6, <1>7, <1>8, <1>9, <1>10, <1>11, <1>12, <1>13, <1>14,
     <1>15, <1>16, <1>17 DEF Next

LEMMA SpecCarried == Spec => [](IInv /\ Carried)
BY InitIInv, NextIInv, InitCarried, NextCarried, PTL DEF Spec

\* Only a broadcast sends, and only what the list holds.
LEMMA WhoSends ==
  ASSUME IInv, [Next]_vars, Sends, IsFrame(wire')
  PROVE  /\ FinishIteration /\ pc = "tail" /\ running /\ setup_completed
         /\ wire' = Frame(Counted)
<1>1. wire' # wire /\ wire' # <<>>
  BY DEF Sends
<1>2. FinishIteration
  BY <1>1 DEF Next, vars, Quit, DrawMenu, Start, Stop, SelectInterface, NewPublisher,
              EditSampleRate, DrawPanes, EditValue, EditHertz, SelectOption, RemoveChannel,
              RemoveValue, NewValue, NewChannel, Panes, publisher
<1>3. QED BY <1>1, <1>2 DEF FinishIteration, Broadcast, IsFrame

\* A frame sent in an iteration without a click carries what the panes show,
\* for any panes, values and settings.
THEOREM FramesCarryPanes == Spec => FrameShowsPanes
<1>1. ASSUME IInv, Carried, [Next]_vars, Sends, IsFrame(wire'), ~clicked, NEW p \in Shown
      PROVE  wire'[SlotOf(p)[1]].data[SlotOf(p)[2]] = ShownContent(p, values)
  <2>1. pc = "tail" /\ setup_completed /\ wire' = Frame(Counted)
    BY <1>1, WhoSends
  <2>2. PICK k, s : k = SlotOf(p)[1] /\ s = SlotOf(p)[2]
    OBVIOUS
  <2>3. k \in 1 .. Len(asdus) /\ s \in 1 .. Len(asdus[k].data)
    BY <1>1, <2>2, ShownPlace
  <2>4. asdus[k].data[s] = ShownContent(p, values)
    BY <1>1, <2>1, <2>2 DEF Carried, PanesWritten
  <2>5. QED BY <1>1, <2>1, <2>2, <2>3, <2>4, FrameRows
<1>2. IInv /\ Carried /\ [Next]_vars =>
        (Sends /\ IsFrame(wire') /\ ~clicked =>
           \A p \in Shown :
             wire'[SlotOf(p)[1]].data[SlotOf(p)[2]] = ShownContent(p, values))
  BY <1>1
<1>3. QED BY <1>2, SpecCarried, PTL DEF Spec, FrameShowsPanes

\* From frame to frame every live counter goes up by one and the wave one step
\* on, unless it starts anew - whatever is edited between the two.
THEOREM StreamIsGapless == Spec => StreamAdvances
<1>1. ASSUME IInv, Carried, [Next]_vars, Sends, IsFrame(wire), IsFrame(wire')
      PROVE  /\ \A k \in Live : wire'[k].smpCnt = (wire[k].smpCnt + 1) % CounterSize
             /\ \A x \in SineSteps(wire), y \in SineSteps(wire') : y[2] \in {0, x[2] + 1}
  <2>1. pc = "tail" /\ setup_completed /\ wire' = Frame(Counted)
    BY <1>1, WhoSends
  <2>2. /\ DOMAIN wire = DOMAIN asdus
        /\ \A k \in DOMAIN wire : wire[k].smpCnt = asdus[k].smpCnt
        /\ \A x \in SineSteps(wire) : Follows(sine_value, x)
    BY <1>1, <2>1 DEF Carried, LastFrame
  <2>3. ASSUME NEW k \in Live PROVE wire'[k].smpCnt = (wire[k].smpCnt + 1) % CounterSize
    <3>1. k \in 1 .. Len(asdus) /\ DOMAIN asdus = 1 .. Len(asdus)
      BY <1>1, <2>3, RowDomain DEF Live, IInv, List, Points
    <3>2. wire'[k].smpCnt = Counted[k].smpCnt
      BY <1>1, <2>1, <3>1, FrameRows
    <3>3. Counted[k].smpCnt = (asdus[k].smpCnt + 1) % CounterSize
      BY <1>1, <2>3, <3>1, CountedShape DEF IInv
    <3>4. QED BY <2>2, <3>1, <3>2, <3>3
  <2>4. ASSUME NEW x \in SineSteps(wire), NEW y \in SineSteps(wire')
        PROVE  y[2] \in {0, x[2] + 1}
    <3>1. y[2] = sine_value
      BY <1>1, <2>1, <2>4, FrameSteps
    <3>2. QED BY <2>2, <2>4, <3>1 DEF Follows
  <2>5. QED BY <2>3, <2>4
<1>2. IInv /\ Carried /\ [Next]_vars =>
        (Sends /\ IsFrame(wire) /\ IsFrame(wire') =>
           /\ \A k \in Live : wire'[k].smpCnt = (wire[k].smpCnt + 1) % CounterSize
           /\ \A x \in SineSteps(wire), y \in SineSteps(wire') : y[2] \in {0, x[2] + 1})
  BY <1>1
<1>3. QED BY <1>2, SpecCarried, PTL DEF Spec, StreamAdvances
=============================================================================
