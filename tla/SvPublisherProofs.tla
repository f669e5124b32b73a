------------------------- MODULE SvPublisherProofs -------------------------
(***************************************************************************)
(* For every ASDU, about the two length computations of sv_publisher.c:    *)
(* when they agree, by how much they can differ, and where the counter and *)
(* the data lie inside the ASDU.                                           *)
(*                                                                         *)
(* For every handle, however many ASDUs and values a caller adds: the      *)
(* types of the handle; that neither the values of an ASDU nor the areas   *)
(* of a frame share a byte; which frames a reader can walk; and, while the *)
(* frame fits the buffer, that a counter in the buffer is the counter of   *)
(* the record, and that the handle implements SvStream.  Last, which       *)
(* callers' frames fit and can be read, this program's among them.         *)
(***************************************************************************)
EXTENDS SvPublisher, SequenceTheorems, WellFoundedInduction, TLAPS

-----------------------------------------------------------------------------
(* The lengths of an ASDU. *)

\* What the lengths depend on: the fields that an ASDU record and the frame's
\* entry for an ASDU share.
IsElement(a) ==
  /\ a.svID \in Nat
  /\ a.datset \in Nat \cup {NoDatSet}
  /\ a.dataSize \in Nat
  /\ a.hasRefrTm \in BOOLEAN
  /\ a.hasSmpMod \in BOOLEAN

\* All content lengths fit the one-byte form that getEncodedSize assumes.
ShortForm(a) ==
  /\ a.svID < 128
  /\ a.datset = NoDatSet \/ a.datset < 128
  /\ a.dataSize < 128

\* A length field takes one to three bytes, one exactly below 128.
LEMMA LengthSizeRange ==
  ASSUME NEW n \in Nat
  PROVE  LengthSize(n) \in 1 .. 3 /\ (LengthSize(n) = 1 <=> n < 128)
BY DEF LengthSize

\* The declared content length is a natural number, so its own length field
\* has one to three bytes whatever the ASDU holds.
LEMMA EncodedSizeNat ==
  ASSUME NEW a, IsElement(a)
  PROVE  EncodedSize(a) \in Nat
<1>1. /\ a.svID \in Nat /\ a.dataSize \in Nat
      /\ a.datset = NoDatSet \/ a.datset \in Nat
  BY DEF IsElement
<1>2. QED BY <1>1 DEF EncodedSize, NoDatSet

\* What encodeToBuffer writes exceeds what getEncodedSize declares by the
\* second and third bytes of long length fields and by two bytes for smpMod.
THEOREM DeclaredSizeError ==
  ASSUME NEW a, IsElement(a)
  PROVE  WrittenSize(a) - DeclaredSize(a)
           = (LengthSize(a.svID) - 1)
             + (IF a.datset = NoDatSet THEN 0 ELSE LengthSize(a.datset) - 1)
             + (LengthSize(a.dataSize) - 1)
             + (IF a.hasSmpMod THEN 2 ELSE 0)
<1>1. /\ a.svID \in Nat /\ a.dataSize \in Nat
      /\ a.datset = NoDatSet \/ a.datset \in Nat
      /\ a.hasRefrTm \in BOOLEAN /\ a.hasSmpMod \in BOOLEAN
  BY DEF IsElement
<1>2. /\ LengthSize(a.svID) \in 1 .. 3 /\ LengthSize(a.dataSize) \in 1 .. 3
      /\ a.datset # NoDatSet => LengthSize(a.datset) \in 1 .. 3
      /\ LengthSize(EncodedSize(a)) \in 1 .. 3
  BY <1>1, EncodedSizeNat, LengthSizeRange
<1>3. LengthSize(2) = 1 /\ LengthSize(4) = 1 /\ LengthSize(8) = 1 /\ LengthSize(1) = 1
  BY DEF LengthSize
<1> DEFINE refrTm == IF a.hasRefrTm THEN 10 ELSE 0
           datset == IF a.datset = NoDatSet THEN 0 ELSE 2 + a.datset
           long   == IF a.datset = NoDatSet THEN 0 ELSE LengthSize(a.datset) - 1
           smpMod == IF a.hasSmpMod THEN 4 ELSE 0
           twice  == IF a.hasSmpMod THEN 2 ELSE 0
<1>4. /\ refrTm \in Nat /\ datset \in Nat /\ long \in Nat
      /\ smpMod \in Nat /\ twice \in Nat
  BY <1>1, <1>2
<1>5. DeclaredSize(a) = 1 + LengthSize(EncodedSize(a)) + EncodedSize(a)
  BY DEF DeclaredSize, TLVSize, TLSize
<1>6. EncodedSize(a) = 17 + a.svID + a.dataSize + datset + refrTm + smpMod
  BY <1>1, <1>4 DEF EncodedSize
<1>7. WrittenSize(a) =
        16 + LengthSize(EncodedSize(a))
        + (LengthSize(a.svID) + a.svID) + (LengthSize(a.dataSize) + a.dataSize)
        + (datset + long) + refrTm + (smpMod + twice)
  BY <1>1, <1>2, <1>3 DEF WrittenSize, DataOffset, SmpCntOffset, TLVSize, TLSize
<1>8. EncodedSize(a) \in Nat
  BY EncodedSizeNat
<1>9. WrittenSize(a) - DeclaredSize(a)
        = (LengthSize(a.svID) - 1) + long + (LengthSize(a.dataSize) - 1) + twice
  <2> HIDE DEF refrTm, datset, long, smpMod, twice
  <2>1. QED BY <1>1, <1>2, <1>4, <1>5, <1>6, <1>7, <1>8
<1>10. QED BY <1>9

\* The declared and the written length of an ASDU agree exactly when every
\* string and the data are shorter than 128 bytes and smpMod is absent.
THEOREM LengthsAgreeExactly ==
  ASSUME NEW a, IsElement(a)
  PROVE  LengthsAgree(a) <=> ShortForm(a) /\ ~a.hasSmpMod
<1>1. /\ a.svID \in Nat /\ a.dataSize \in Nat
      /\ a.datset = NoDatSet \/ a.datset \in Nat
      /\ a.hasSmpMod \in BOOLEAN
  BY DEF IsElement
<1>2. /\ LengthSize(a.svID) \in 1 .. 3 /\ (LengthSize(a.svID) = 1 <=> a.svID < 128)
      /\ LengthSize(a.dataSize) \in 1 .. 3 /\ (LengthSize(a.dataSize) = 1 <=> a.dataSize < 128)
      /\ a.datset # NoDatSet =>
           LengthSize(a.datset) \in 1 .. 3 /\ (LengthSize(a.datset) = 1 <=> a.datset < 128)
  BY <1>1, LengthSizeRange
<1>3. WrittenSize(a) \in Int /\ DeclaredSize(a) \in Int
  <2>1. EncodedSize(a) \in Nat /\ LengthSize(EncodedSize(a)) \in 1 .. 3
    BY EncodedSizeNat, LengthSizeRange
  <2>2. LengthSize(2) = 1 /\ LengthSize(4) = 1 /\ LengthSize(8) = 1 /\ LengthSize(1) = 1
    BY DEF LengthSize
  <2>3. QED
    BY <1>1, <1>2, <2>1, <2>2
    DEF WrittenSize, DeclaredSize, DataOffset, SmpCntOffset, TLVSize, TLSize
<1>4. QED BY <1>1, <1>2, <1>3, DeclaredSizeError DEF LengthsAgree, ShortForm

\* Inside one ASDU the two bytes of the counter come before the data, and
\* both end within the bytes written for it.
THEOREM CounterBeforeData ==
  ASSUME NEW a, IsElement(a)
  PROVE  /\ SmpCntOffset(a) > 0
         /\ SmpCntOffset(a) + 2 < DataOffset(a)
         /\ DataOffset(a) + a.dataSize <= WrittenSize(a)
<1>1. /\ a.svID \in Nat /\ a.dataSize \in Nat
      /\ a.datset = NoDatSet \/ a.datset \in Nat
      /\ LengthSize(a.svID) \in 1 .. 3 /\ LengthSize(a.dataSize) \in 1 .. 3
      /\ a.datset # NoDatSet => LengthSize(a.datset) \in 1 .. 3
      /\ EncodedSize(a) \in Nat /\ LengthSize(EncodedSize(a)) \in 1 .. 3
  <2>1. /\ a.svID \in Nat /\ a.dataSize \in Nat
        /\ a.datset = NoDatSet \/ a.datset \in Nat
    BY DEF IsElement
  <2>2. QED BY <2>1, EncodedSizeNat, LengthSizeRange
<1>2. LengthSize(2) = 1 /\ LengthSize(4) = 1 /\ LengthSize(8) = 1 /\ LengthSize(1) = 1
  BY DEF LengthSize
<1>3. QED
  BY <1>1, <1>2 DEF WrittenSize, DataOffset, SmpCntOffset, TLVSize, TLSize

-----------------------------------------------------------------------------
(* The handle. *)

\* SlotsDisjoint needs the types of the handle to be inductive: the index of a
\* new value is the ASDU's data size, which only bounds the older ones if both
\* belong to the same list position.
IInv == HandleTypeOK /\ SlotsDisjoint

\* A counter value is a residue, because a counter has at least one value.
LEMMA CounterSizePositive == CounterSize \in Nat \ {0}
<1>1. Base \in Nat /\ Base >= 1
  BY ConstantsAssumption
<1>2. Base * Base >= 1 /\ Base * Base \in Nat
  BY <1>1, Z3
<1>3. QED BY <1>2 DEF CounterSize

\* An ASDU whose data has grown or was reset is still one.
LEMMA Resized ==
  ASSUME NEW a \in ASDU, NEW n \in Nat
  PROVE  /\ [a EXCEPT !.dataSize = n] \in ASDU
         /\ [a EXCEPT !.dataSize = n].dataSize = n
BY DEF ASDU

\* A handle starts without ASDUs.
LEMMA InitIInv == Init => IInv
BY DEF Init, IInv, HandleTypeOK, SlotsDisjoint

\* addASDU appends an ASDU without values.
LEMMA AddASDUIInv ==
  ASSUME IInv, NEW name \in NameLens, NEW datset \in DatSetLens, AddASDU(name, datset)
  PROVE  IInv'
<1>1. NewASDU(name, datset) \in ASDU
  BY ConstantsAssumption, CounterSizePositive DEF NewASDU, ASDU
<1>2. /\ asdus' \in Seq(ASDU) /\ slots' \in Seq(Seq(Slot))
      /\ Len(asdus') = Len(asdus) + 1 /\ Len(slots') = Len(slots) + 1
  BY <1>1, AppendProperties DEF IInv, HandleTypeOK, AddASDU
<1>3. HandleTypeOK'
  BY <1>2 DEF IInv, HandleTypeOK, AddASDU
<1>4. SlotsDisjoint'
  <2> SUFFICES ASSUME NEW i \in DOMAIN slots', NEW j \in DOMAIN slots'[i]
               PROVE  /\ slots'[i][j].index + slots'[i][j].size <= asdus'[i].dataSize
                      /\ \A k \in DOMAIN slots'[i] :
                           j < k => slots'[i][j].index + slots'[i][j].size <= slots'[i][k].index
    BY DEF SlotsDisjoint
  <2>1. i \in 1 .. Len(slots) + 1
    BY <1>2
  <2>2. i # Len(slots) + 1
    BY DEF AddASDU, IInv, HandleTypeOK
  <2>3. slots'[i] = slots[i] /\ asdus'[i] = asdus[i] /\ i \in DOMAIN slots
    BY <2>1, <2>2 DEF AddASDU, IInv, HandleTypeOK
  <2>4. QED BY <2>3 DEF IInv, SlotsDisjoint
<1>5. QED BY <1>3, <1>4 DEF IInv

\* Each add function returns the data size so far, behind all older values.
LEMMA AddValueIInv ==
  ASSUME IInv, NEW i \in DOMAIN asdus, NEW size \in Nat \ {0}, AddValue(i, size)
  PROVE  IInv'
<1> DEFINE new == [index |-> asdus[i].dataSize, size |-> size]
<1>1. /\ asdus \in Seq(ASDU) /\ slots \in Seq(Seq(Slot)) /\ Len(slots) = Len(asdus)
      /\ i \in 1 .. Len(asdus) /\ asdus[i] \in ASDU /\ slots[i] \in Seq(Slot)
  BY DEF IInv, HandleTypeOK
<1>2. asdus[i].dataSize \in Nat /\ new \in Slot
  BY <1>1 DEF ASDU, Slot
<1>3. /\ asdus' = [asdus EXCEPT ![i] = [asdus[i] EXCEPT !.dataSize = asdus[i].dataSize + size]]
      /\ slots' = [slots EXCEPT ![i] = Append(slots[i], new)]
  BY DEF AddValue
<1>4. /\ [asdus[i] EXCEPT !.dataSize = asdus[i].dataSize + size] \in ASDU
      /\ [asdus[i] EXCEPT !.dataSize = asdus[i].dataSize + size].dataSize
           = asdus[i].dataSize + size
  <2>1. asdus[i].dataSize + size \in Nat
    BY <1>2
  <2>2. QED BY <1>1, <2>1, Resized
<1>5. /\ Append(slots[i], new) \in Seq(Slot)
      /\ Len(Append(slots[i], new)) = Len(slots[i]) + 1
      /\ \A j \in 1 .. Len(slots[i]) : Append(slots[i], new)[j] = slots[i][j]
      /\ Append(slots[i], new)[Len(slots[i]) + 1] = new
  BY <1>1, <1>2, AppendProperties
<1>6. /\ asdus' \in Seq(ASDU) /\ slots' \in Seq(Seq(Slot)) /\ Len(slots') = Len(asdus')
      /\ Len(slots') = Len(slots)
  BY <1>1, <1>3, <1>4, <1>5, ExceptSeq
<1>7. HandleTypeOK'
  BY <1>6 DEF IInv, HandleTypeOK, AddValue
<1>8. SlotsDisjoint'
  <2> SUFFICES ASSUME NEW h \in DOMAIN slots', NEW j \in DOMAIN slots'[h]
               PROVE  /\ slots'[h][j].index + slots'[h][j].size <= asdus'[h].dataSize
                      /\ \A k \in DOMAIN slots'[h] :
                           j < k => slots'[h][j].index + slots'[h][j].size <= slots'[h][k].index
    BY DEF SlotsDisjoint
  <2>1. h \in DOMAIN slots
    BY <1>3
  <2>2. CASE h # i
    <3>1. slots'[h] = slots[h] /\ asdus'[h] = asdus[h]
      BY <1>1, <1>3, <2>1, <2>2
    <3>2. QED BY <2>1, <3>1 DEF IInv, SlotsDisjoint
  <2>3. CASE h = i
    <3>1. /\ slots'[i] = Append(slots[i], new)
          /\ asdus'[i].dataSize = asdus[i].dataSize + size
      <4>1. i \in DOMAIN slots /\ i \in DOMAIN asdus
        BY <1>1
      <4>2. slots'[i] = Append(slots[i], new)
        BY <1>3, <4>1
      <4>3. asdus'[i] = [asdus[i] EXCEPT !.dataSize = asdus[i].dataSize + size]
        BY <1>3, <4>1
      <4>4. QED BY <1>4, <4>2, <4>3
    <3>2. \A n \in 1 .. Len(slots[i]) :
             /\ slots[i][n] \in Slot
             /\ slots[i][n].index + slots[i][n].size <= asdus[i].dataSize
             /\ \A k \in 1 .. Len(slots[i]) :
                  n < k => slots[i][n].index + slots[i][n].size <= slots[i][k].index
      BY <1>1 DEF IInv, SlotsDisjoint
    <3>3. j \in 1 .. Len(slots[i]) + 1
      BY <1>5, <2>3, <3>1
    <3>4. CASE j \in 1 .. Len(slots[i])
      <4>1. slots'[h][j] = slots[i][j] /\ slots[i][j] \in Slot
        BY <1>5, <2>3, <3>1, <3>2, <3>4
      <4>2. slots'[h][j].index + slots'[h][j].size <= asdus[i].dataSize
        BY <3>2, <3>4, <4>1
      <4>3. slots'[h][j].index + slots'[h][j].size <= asdus'[h].dataSize
        BY <1>2, <2>3, <3>1, <4>1, <4>2 DEF Slot
      <4>4. ASSUME NEW k \in DOMAIN slots'[h], j < k
            PROVE  slots'[h][j].index + slots'[h][j].size <= slots'[h][k].index
        <5>1. k \in 1 .. Len(slots[i]) + 1
          BY <1>5, <2>3, <3>1
        <5>2. CASE k \in 1 .. Len(slots[i])
          BY <1>5, <2>3, <3>1, <3>2, <3>4, <4>1, <4>4, <5>2
        <5>3. CASE k = Len(slots[i]) + 1
          BY <1>5, <2>3, <3>1, <4>2, <5>3
        <5>4. QED BY <5>1, <5>2, <5>3
      <4>5. QED BY <4>3, <4>4
    <3>5. CASE j = Len(slots[i]) + 1
      <4>1. slots'[h][j] = new
        BY <1>5, <2>3, <3>1, <3>5
      <4>2. slots'[h][j].index + slots'[h][j].size <= asdus'[h].dataSize
        BY <1>2, <2>3, <3>1, <4>1
      <4>3. ASSUME NEW k \in DOMAIN slots'[h] PROVE ~(j < k)
        BY <1>5, <2>3, <3>1, <3>5
      <4>4. QED BY <4>2, <4>3
    <3>6. QED BY <3>3, <3>4, <3>5
  <2>4. QED BY <2>2, <2>3
<1>9. QED BY <1>7, <1>8 DEF IInv

\* resetBuffer voids the ASDU's values along with its data.
LEMMA ResetBufferIInv ==
  ASSUME IInv, NEW i \in DOMAIN asdus, ResetBuffer(i)
  PROVE  IInv'
<1>1. /\ asdus \in Seq(ASDU) /\ slots \in Seq(Seq(Slot)) /\ Len(slots) = Len(asdus)
      /\ i \in 1 .. Len(asdus) /\ asdus[i] \in ASDU
  BY DEF IInv, HandleTypeOK
<1>2. [asdus[i] EXCEPT !.dataSize = 0] \in ASDU /\ <<>> \in Seq(Slot)
  <2>1. [asdus[i] EXCEPT !.dataSize = 0] \in ASDU
    BY <1>1, Resized
  <2>2. QED BY <2>1
<1>3. /\ asdus' = [asdus EXCEPT ![i] = [asdus[i] EXCEPT !.dataSize = 0]]
      /\ slots' = [slots EXCEPT ![i] = <<>>]
  BY DEF ResetBuffer
<1>4. HandleTypeOK'
  BY <1>1, <1>2, <1>3, ExceptSeq DEF IInv, HandleTypeOK, ResetBuffer
<1>5. \A h \in DOMAIN slots' :
         \/ slots'[h] = <<>>
         \/ h \in DOMAIN slots /\ slots'[h] = slots[h] /\ asdus'[h] = asdus[h]
  BY <1>1, <1>3
<1>6. SlotsDisjoint'
  BY <1>5 DEF IInv, SlotsDisjoint
<1>7. QED BY <1>4, <1>6 DEF IInv

\* Setters of optional elements and of the counter change a field of an ASDU
\* record, never its data size.
LEMMA FieldIInv ==
  ASSUME IInv, NEW i \in DOMAIN asdus, NEW b \in ASDU,
         b.dataSize = asdus[i].dataSize,
         asdus' = [asdus EXCEPT ![i] = b],
         UNCHANGED <<buffer, socket, slots>>
  PROVE  IInv'
<1>1. /\ asdus \in Seq(ASDU) /\ Len(slots) = Len(asdus) /\ i \in 1 .. Len(asdus)
  BY DEF IInv, HandleTypeOK
<1>2. HandleTypeOK'
  BY <1>1, ExceptSeq DEF IInv, HandleTypeOK
<1>3. \A h \in DOMAIN slots : asdus'[h].dataSize = asdus[h].dataSize
  BY <1>1 DEF IInv, HandleTypeOK
<1>4. SlotsDisjoint'
  BY <1>3 DEF IInv, SlotsDisjoint
<1>5. QED BY <1>2, <1>4 DEF IInv

\* Every step of a handle preserves the invariant.
LEMMA NextIInv == IInv /\ [Next]_vars => IInv'
<1> SUFFICES ASSUME IInv, [Next]_vars PROVE IInv'
  OBVIOUS
<1>1. ASSUME NEW name \in NameLens, NEW datset \in DatSetLens, AddASDU(name, datset)
      PROVE  IInv'
  BY <1>1, AddASDUIInv
<1>2. ASSUME NEW i \in DOMAIN asdus, AddSomeValue(i) PROVE IInv'
  BY <1>2, AddValueIInv DEF AddSomeValue, AddINT8, AddINT32, AddFLOAT, AddFLOAT64
<1>3. ASSUME NEW i \in DOMAIN asdus, ResetBuffer(i) PROVE IInv'
  BY <1>3, ResetBufferIInv
<1>4. ASSUME NEW i \in DOMAIN asdus PROVE asdus[i] \in ASDU
  BY <1>4 DEF IInv, HandleTypeOK
<1>5. ASSUME NEW i \in DOMAIN asdus, SetRefrTm(i) PROVE IInv'
  <2>1. [asdus[i] EXCEPT !.hasRefrTm = TRUE] \in ASDU
    BY <1>4 DEF ASDU
  <2>2. QED BY <1>4, <1>5, <2>1, FieldIInv DEF SetRefrTm, ASDU
<1>6. ASSUME NEW i \in DOMAIN asdus, SetSmpMod(i) PROVE IInv'
  <2>1. [asdus[i] EXCEPT !.hasSmpMod = TRUE] \in ASDU
    BY <1>4 DEF ASDU
  <2>2. QED BY <1>4, <1>6, <2>1, FieldIInv DEF SetSmpMod, ASDU
<1>7. ASSUME NEW i \in DOMAIN asdus, NEW n \in 0 .. CounterSize - 1, StoreCounter(i, n)
      PROVE  IInv'
  <2>1. [asdus[i] EXCEPT !.smpCnt = n] \in ASDU
    BY <1>4 DEF ASDU
  <2>2. QED BY <1>4, <1>7, <2>1, FieldIInv DEF StoreCounter, ASDU
<1>8. ASSUME NEW i \in DOMAIN asdus, IncreaseSmpCnt(i) PROVE IInv'
  <2>1. (asdus[i].smpCnt + 1) % CounterSize \in 0 .. CounterSize - 1
    BY <1>4, CounterSizePositive DEF ASDU
  <2>2. QED BY <1>7, <1>8, <2>1 DEF IncreaseSmpCnt
<1>9. CASE Create
  BY <1>9 DEF Create, IInv, HandleTypeOK, SlotsDisjoint
<1>10. CASE SetupComplete
  BY <1>10 DEF SetupComplete, IInv, HandleTypeOK, SlotsDisjoint
<1>11. CASE Publish
  BY <1>11 DEF Publish, IInv, HandleTypeOK, SlotsDisjoint
<1>12. CASE Destroy
  BY <1>12 DEF Destroy, IInv, HandleTypeOK, SlotsDisjoint
<1>13. ASSUME NEW i \in DOMAIN asdus, NEW j \in DOMAIN slots[i], NEW v \in Value,
              SetValue(i, j, v)
       PROVE  IInv'
  BY <1>13 DEF SetValue, IInv, HandleTypeOK, SlotsDisjoint
<1>14. CASE UNCHANGED vars
  BY <1>14 DEF vars, IInv, HandleTypeOK, SlotsDisjoint
<1>15. QED
  BY <1>1, <1>2, <1>3, <1>5, <1>6, <1>7, <1>8, <1>9, <1>10, <1>11, <1>12, <1>13, <1>14
  DEF Next, SetSmpCnt

\* The handle of sv_publisher.c is well typed after any calls.
THEOREM HandleTypes == Spec => []HandleTypeOK
<1>1. IInv => HandleTypeOK
  BY DEF IInv
<1>2. QED BY <1>1, InitIInv, NextIInv, PTL DEF Spec

\* For any number of ASDUs and values, of any sizes the add functions know:
\* the values of an ASDU never share a byte and lie inside its data.
THEOREM ValuesNeverOverlap == Spec => []SlotsDisjoint
<1>1. IInv => SlotsDisjoint
  BY DEF IInv
<1>2. QED BY <1>1, InitIInv, NextIInv, PTL DEF Spec

-----------------------------------------------------------------------------
(* Sums of sizes.  The positions in a frame are sums over the ASDUs before   *)
(* one; what holds of them is shown by induction over the natural numbers,    *)
(* from the library's fact that < is well-founded on them.                    *)

\* A nonempty set of natural numbers has a least element.
LEMMA LeastElement ==
  ASSUME NEW T, T \subseteq Nat, T # {}
  PROVE  \E n \in T : \A m \in T : n <= m
<1>1. PICK n \in T : \A m \in T : ~(<<m, n>> \in OpToRel(<, Nat))
  BY WFMin, NatLessThanWellFounded
<1>2. \A i, j \in Nat : <<i, j>> \in OpToRel(<, Nat) <=> i < j
  BY DEF OpToRel
<1>3. ASSUME NEW m \in T PROVE n <= m
  <2>1. m \in Nat /\ n \in Nat
    OBVIOUS
  <2>2. ~(m < n)
    BY <1>1, <1>2, <2>1
  <2>3. QED BY <2>1, <2>2
<1>4. QED BY <1>3

\* Induction over the natural numbers, for a set given by its elements.
LEMMA Induction ==
  ASSUME NEW S, 0 \in S, \A n \in Nat : n \in S => n + 1 \in S
  PROVE  Nat \subseteq S
<1> DEFINE T == Nat \ S
<1>1. SUFFICES ASSUME T # {} PROVE FALSE
  OBVIOUS
<1>2. PICK n \in T : \A m \in T : n <= m
  BY <1>1, LeastElement
<1>3. n # 0 /\ n \in Nat
  OBVIOUS
<1>4. n - 1 \in Nat /\ n - 1 \notin T
  BY <1>2, <1>3
<1>5. (n - 1) + 1 = n
  BY <1>3
<1>6. QED BY <1>3, <1>4, <1>5

\* The partial sums of a row of sizes exist: the recursive equation that
\* defines them has a solution.
LEMMA PartialSumsExist ==
  ASSUME NEW N \in Nat, NEW g \in [1 .. N -> Nat]
  PROVE  \E f : f = [i \in 0 .. N |-> IF i = 0 THEN 0 ELSE f[i - 1] + g[i]]
<1> DEFINE Solves(f, n) == f = [i \in 0 .. n |-> IF i = 0 THEN 0 ELSE f[i - 1] + g[i]]
           S == {n \in Nat : n <= N => \E f : Solves(f, n)}
<1>1. 0 \in S
  <2>1. Solves([i \in 0 .. 0 |-> 0], 0)
    OBVIOUS
  <2>2. QED BY <2>1
<1>2. ASSUME NEW n \in Nat, n \in S, n + 1 <= N PROVE \E f : Solves(f, n + 1)
  <2>1. PICK f : Solves(f, n)
    BY <1>2
  <2> DEFINE h == [i \in 0 .. n + 1 |-> IF i = n + 1 THEN f[n] + g[n + 1] ELSE f[i]]
  <2>2. ASSUME NEW i \in 0 .. n + 1
        PROVE  h[i] = IF i = 0 THEN 0 ELSE h[i - 1] + g[i]
    <3>1. CASE i = 0
      BY <2>1, <3>1
    <3>2. CASE i \in 1 .. n
      <4>1. h[i] = f[i] /\ h[i - 1] = f[i - 1]
        BY <3>2
      <4>2. QED BY <2>1, <3>2, <4>1
    <3>3. CASE i = n + 1
      <4>1. h[i - 1] = f[n]
        BY <3>3
      <4>2. QED BY <3>3, <4>1
    <3>4. QED BY <3>1, <3>2, <3>3
  <2>3. h = [i \in 0 .. n + 1 |-> IF i = 0 THEN 0 ELSE h[i - 1] + g[i]]
    <3> HIDE DEF h
    <3>1. h = [i \in 0 .. n + 1 |-> h[i]]
      BY DEF h
    <3>2. QED BY <2>2, <3>1
  <2>4. QED BY <2>3
<1>3. ASSUME NEW n \in Nat, n \in S PROVE n + 1 \in S
  <2> HIDE DEF Solves
  <2>1. n + 1 \in Nat
    OBVIOUS
  <2>2. n + 1 <= N => \E f : Solves(f, n + 1)
    <3> HIDE DEF S
    <3>1. QED BY <1>2, <1>3
  <2>3. QED BY <2>1, <2>2
<1>4. N \in S
  <2> HIDE DEF S
  <2>1. QED BY <1>1, <1>3, Induction
<1>5. QED BY <1>4

\* What such a function is: zero at the start, and grown by each size.
LEMMA PartialSums ==
  ASSUME NEW N \in Nat, NEW g \in [1 .. N -> Nat],
         NEW f, f = [i \in 0 .. N |-> IF i = 0 THEN 0 ELSE f[i - 1] + g[i]]
  PROVE  /\ f \in [0 .. N -> Nat]
         /\ f[0] = 0
         /\ \A i \in 1 .. N : f[i] = f[i - 1] + g[i]
         /\ \A i, j \in 0 .. N : i <= j => f[i] <= f[j]
<1> DEFINE S == {n \in Nat : n <= N => f[n] \in Nat}
           U == {n \in Nat : \A i, j \in 0 .. N : j = i + n => f[i] <= f[j]}
<1>1. f[0] = 0 /\ \A i \in 1 .. N : f[i] = f[i - 1] + g[i]
  OBVIOUS
<1>2. 0 \in S
  BY <1>1
<1>3. ASSUME NEW n \in Nat, n \in S, n + 1 <= N PROVE f[n + 1] \in Nat
  <2>1. f[n + 1] = f[n] + g[n + 1] /\ g[n + 1] \in Nat /\ f[n] \in Nat
    BY <1>1, <1>3
  <2>2. QED BY <2>1
<1>4. Nat \subseteq S
  <2>1. ASSUME NEW n \in Nat, n \in S PROVE n + 1 \in S
    BY <1>3, <2>1
  <2> HIDE DEF S
  <2>2. QED BY <1>2, <2>1, Induction
<1>5. f \in [0 .. N -> Nat]
  <2>1. \A i \in 0 .. N : f[i] \in Nat
    <3>1. ASSUME NEW i \in 0 .. N PROVE f[i] \in Nat
      <4>1. i \in Nat /\ i <= N
        OBVIOUS
      <4>2. i \in S
        <5> HIDE DEF S
        <5>1. QED BY <1>4, <4>1
      <4>3. QED BY <4>1, <4>2
    <3>2. QED BY <3>1
  <2>2. f = [i \in 0 .. N |-> f[i]]
    OBVIOUS
  <2>3. QED BY <2>1, <2>2
<1>6. 0 \in U
  BY <1>5
<1>7. ASSUME NEW n \in Nat, n \in U, NEW i \in 0 .. N, NEW j \in 0 .. N, j = i + (n + 1)
      PROVE  f[i] <= f[j]
  <2>1. j - 1 \in 0 .. N /\ j - 1 = i + n /\ j \in 1 .. N
    BY <1>7
  <2>2. f[i] <= f[j - 1]
    BY <1>7, <2>1
  <2>3. f[j] = f[j - 1] + g[j] /\ g[j] \in Nat
    BY <1>1, <2>1
  <2>4. f[i] \in Nat /\ f[j - 1] \in Nat
    BY <1>5, <2>1
  <2>5. QED BY <2>2, <2>3, <2>4
<1>8. Nat \subseteq U
  <2>1. ASSUME NEW n \in Nat, n \in U PROVE n + 1 \in U
    <3>1. n + 1 \in Nat
      OBVIOUS
    <3>2. \A i, j \in 0 .. N : j = i + (n + 1) => f[i] <= f[j]
      BY <1>7, <2>1
    <3>3. QED BY <3>1, <3>2
  <2> HIDE DEF U
  <2>2. QED BY <1>6, <2>1, Induction
<1>9. ASSUME NEW i \in 0 .. N, NEW j \in 0 .. N, i <= j PROVE f[i] <= f[j]
  <2>1. j - i \in Nat /\ j = i + (j - i)
    BY <1>9
  <2>2. QED BY <1>8, <2>1
<1>10. QED BY <1>1, <1>5, <1>9

-----------------------------------------------------------------------------
(* The layout of a list of ASDUs. *)

\* Sizes and offsets of an element are natural numbers.
LEMMA SizesNat ==
  ASSUME NEW a, IsElement(a)
  PROVE  /\ EncodedSize(a) \in Nat /\ DeclaredSize(a) \in Nat
         /\ SmpCntOffset(a) \in Nat /\ DataOffset(a) \in Nat /\ WrittenSize(a) \in Nat
<1>1. /\ a.svID \in Nat /\ a.dataSize \in Nat
      /\ a.datset = NoDatSet \/ a.datset \in Nat
      /\ LengthSize(a.svID) \in 1 .. 3 /\ LengthSize(a.dataSize) \in 1 .. 3
      /\ a.datset # NoDatSet => LengthSize(a.datset) \in 1 .. 3
      /\ EncodedSize(a) \in Nat /\ LengthSize(EncodedSize(a)) \in 1 .. 3
  <2>1. /\ a.svID \in Nat /\ a.dataSize \in Nat
        /\ a.datset = NoDatSet \/ a.datset \in Nat
    BY DEF IsElement
  <2>2. QED BY <2>1, EncodedSizeNat, LengthSizeRange
<1>2. LengthSize(2) = 1 /\ LengthSize(4) = 1 /\ LengthSize(8) = 1 /\ LengthSize(1) = 1
  BY DEF LengthSize
<1>3. SmpCntOffset(a) \in Nat
  BY <1>1, <1>2 DEF SmpCntOffset, TLVSize, TLSize
<1>4. DataOffset(a) \in Nat
  BY <1>1, <1>2, <1>3 DEF DataOffset, TLVSize, TLSize
<1>5. WrittenSize(a) \in Nat
  BY <1>1, <1>2, <1>4 DEF WrittenSize, TLVSize, TLSize
<1>6. DeclaredSize(a) \in Nat
  <2>1. DeclaredSize(a) = 1 + LengthSize(EncodedSize(a)) + EncodedSize(a)
    BY DEF DeclaredSize, TLVSize, TLSize
  <2>2. QED BY <1>1, <2>1
<1>7. QED BY <1>1, <1>3, <1>4, <1>5, <1>6

\* A list of elements, as long as Len says.
IsList(as) ==
  /\ Len(as) \in Nat /\ DOMAIN as = 1 .. Len(as)
  /\ \A i \in 1 .. Len(as) : IsElement(as[i])

\* The written size of the ASDUs before one, and with it, add up.
LEMMA WrittenSums ==
  ASSUME NEW as, IsList(as)
  PROVE  /\ SizeUpTo(as, WrittenSize) \in [0 .. Len(as) -> Nat]
         /\ SizeUpTo(as, WrittenSize)[0] = 0
         /\ \A i \in 1 .. Len(as) :
              SizeUpTo(as, WrittenSize)[i] = SizeUpTo(as, WrittenSize)[i - 1] + WrittenSize(as[i])
         /\ \A i, j \in 0 .. Len(as) :
              i <= j => SizeUpTo(as, WrittenSize)[i] <= SizeUpTo(as, WrittenSize)[j]
<1> DEFINE N == Len(as)
           g == [i \in 1 .. N |-> WrittenSize(as[i])]
           F(f) == f = [i \in 0 .. N |-> IF i = 0 THEN 0 ELSE f[i - 1] + WrittenSize(as[i])]
           G(f) == f = [i \in 0 .. N |-> IF i = 0 THEN 0 ELSE f[i - 1] + g[i]]
           w == SizeUpTo(as, WrittenSize)
<1>n. N \in Nat
  BY DEF IsList
<1>1. g \in [1 .. N -> Nat] /\ \A i \in 1 .. N : g[i] = WrittenSize(as[i])
  BY SizesNat DEF IsList
<1>2. ASSUME NEW f PROVE F(f) <=> G(f)
  <2> HIDE DEF g
  <2>1. \A i \in 0 .. N : i # 0 => i \in 1 .. N
    <3> HIDE DEF N
    <3>1. QED BY <1>n
  <2>2. [i \in 0 .. N |-> IF i = 0 THEN 0 ELSE f[i - 1] + WrittenSize(as[i])]
          = [i \in 0 .. N |-> IF i = 0 THEN 0 ELSE f[i - 1] + g[i]]
    BY <1>1, <2>1
  <2>3. QED BY <2>2
<1>3. w = CHOOSE f : F(f)
  BY DEF SizeUpTo
<1>4. \E f : F(f)
  <2>1. \E f : G(f)
    <3> HIDE DEF N, g
    <3>1. QED BY <1>n, <1>1, PartialSumsExist
  <2>2. QED BY <1>2, <2>1
<1>5. G(w)
  <2> HIDE DEF F, G, w
  <2>1. QED BY <1>2, <1>3, <1>4
<1>6. /\ w \in [0 .. N -> Nat]
      /\ w[0] = 0
      /\ \A i \in 1 .. N : w[i] = w[i - 1] + g[i]
      /\ \A i, j \in 0 .. N : i <= j => w[i] <= w[j]
  <2> HIDE DEF w, N, g
  <2>1. QED BY <1>n, <1>1, <1>5, PartialSums
<1>7. QED
  <2> HIDE DEF w, N, g
  <2>1. QED BY <1>n, <1>1, <1>6 DEF w, N

\* The same for the declared sizes.
LEMMA DeclaredSums ==
  ASSUME NEW as, IsList(as)
  PROVE  /\ SizeUpTo(as, DeclaredSize) \in [0 .. Len(as) -> Nat]
         /\ SizeUpTo(as, DeclaredSize)[0] = 0
         /\ \A i \in 1 .. Len(as) :
              SizeUpTo(as, DeclaredSize)[i] = SizeUpTo(as, DeclaredSize)[i - 1] + DeclaredSize(as[i])
         /\ \A i, j \in 0 .. Len(as) :
              i <= j => SizeUpTo(as, DeclaredSize)[i] <= SizeUpTo(as, DeclaredSize)[j]
<1> DEFINE N == Len(as)
           g == [i \in 1 .. N |-> DeclaredSize(as[i])]
           F(f) == f = [i \in 0 .. N |-> IF i = 0 THEN 0 ELSE f[i - 1] + DeclaredSize(as[i])]
           G(f) == f = [i \in 0 .. N |-> IF i = 0 THEN 0 ELSE f[i - 1] + g[i]]
           w == SizeUpTo(as, DeclaredSize)
<1>n. N \in Nat
  BY DEF IsList
<1>1. g \in [1 .. N -> Nat] /\ \A i \in 1 .. N : g[i] = DeclaredSize(as[i])
  BY SizesNat DEF IsList
<1>2. ASSUME NEW f PROVE F(f) <=> G(f)
  <2> HIDE DEF g
  <2>1. \A i \in 0 .. N : i # 0 => i \in 1 .. N
    <3> HIDE DEF N
    <3>1. QED BY <1>n
  <2>2. [i \in 0 .. N |-> IF i = 0 THEN 0 ELSE f[i - 1] + DeclaredSize(as[i])]
          = [i \in 0 .. N |-> IF i = 0 THEN 0 ELSE f[i - 1] + g[i]]
    BY <1>1, <2>1
  <2>3. QED BY <2>2
<1>3. w = CHOOSE f : F(f)
  BY DEF SizeUpTo
<1>4. \E f : F(f)
  <2>1. \E f : G(f)
    <3> HIDE DEF N, g
    <3>1. QED BY <1>n, <1>1, PartialSumsExist
  <2>2. QED BY <1>2, <2>1
<1>5. G(w)
  <2> HIDE DEF F, G, w
  <2>1. QED BY <1>2, <1>3, <1>4
<1>6. /\ w \in [0 .. N -> Nat]
      /\ w[0] = 0
      /\ \A i \in 1 .. N : w[i] = w[i - 1] + g[i]
      /\ \A i, j \in 0 .. N : i <= j => w[i] <= w[j]
  <2> HIDE DEF w, N, g
  <2>1. QED BY <1>n, <1>1, <1>5, PartialSums
<1>7. QED
  <2> HIDE DEF w, N, g
  <2>1. QED BY <1>n, <1>1, <1>6 DEF w, N

\* Partial sums of the same sizes are the same.
LEMMA SumsUnique ==
  ASSUME NEW N \in Nat, NEW f, NEW h, f[0] = h[0],
         \A i \in 1 .. N : f[i - 1] = h[i - 1] => f[i] = h[i]
  PROVE  \A i \in 0 .. N : f[i] = h[i]
<1> DEFINE S == {n \in Nat : n <= N => f[n] = h[n]}
<1>1. 0 \in S
  OBVIOUS
<1>2. ASSUME NEW n \in Nat, n \in S PROVE n + 1 \in S
  <2>1. n + 1 \in Nat /\ (n + 1) - 1 = n
    OBVIOUS
  <2>2. CASE n + 1 <= N
    <3>1. n + 1 \in 1 .. N
      BY <2>2
    <3>2. f[n] = h[n]
      BY <1>2, <2>2
    <3>3. f[n + 1] = h[n + 1]
      BY <2>1, <3>1, <3>2
    <3>4. QED BY <2>1, <3>3
  <2>3. CASE ~(n + 1 <= N)
    BY <2>1, <2>3
  <2>4. QED BY <2>2, <2>3
<1>3. Nat \subseteq S
  <2> HIDE DEF S
  <2>1. QED BY <1>1, <1>2, Induction
<1>4. QED BY <1>3

\* Two lists whose elements agree in the fields that lengths depend on.
SameElements(a, b) ==
  /\ Len(a) = Len(b)
  /\ \A i \in 1 .. Len(a) :
       /\ a[i].svID = b[i].svID /\ a[i].datset = b[i].datset
       /\ a[i].dataSize = b[i].dataSize
       /\ a[i].hasRefrTm = b[i].hasRefrTm /\ a[i].hasSmpMod = b[i].hasSmpMod

\* They are laid out alike: counters and data at the same places, in a payload
\* of the same length.
LEMMA SameLayout ==
  ASSUME NEW a, NEW b, IsList(a), IsList(b), SameElements(a, b)
  PROVE  /\ FirstASDU(a) = FirstASDU(b)
         /\ \A i \in 1 .. Len(a) : SmpCntPos(a, i) = SmpCntPos(b, i) /\ DataPos(a, i) = DataPos(b, i)
         /\ PayloadLength(a) = PayloadLength(b)
<1> DEFINE N == Len(a)
           wa == SizeUpTo(a, WrittenSize)
           wb == SizeUpTo(b, WrittenSize)
           da == SizeUpTo(a, DeclaredSize)
           db == SizeUpTo(b, DeclaredSize)
<1>1. N \in Nat /\ Len(b) = N
  BY DEF IsList, SameElements
<1>2. ASSUME NEW i \in 1 .. N
      PROVE  /\ EncodedSize(a[i]) = EncodedSize(b[i])
             /\ DeclaredSize(a[i]) = DeclaredSize(b[i])
             /\ SmpCntOffset(a[i]) = SmpCntOffset(b[i])
             /\ DataOffset(a[i]) = DataOffset(b[i])
             /\ WrittenSize(a[i]) = WrittenSize(b[i])
  <2>1. /\ a[i].svID = b[i].svID /\ a[i].datset = b[i].datset
        /\ a[i].dataSize = b[i].dataSize
        /\ a[i].hasRefrTm = b[i].hasRefrTm /\ a[i].hasSmpMod = b[i].hasSmpMod
    BY DEF SameElements
  <2>2. EncodedSize(a[i]) = EncodedSize(b[i])
    BY <2>1 DEF EncodedSize
  <2>3. SmpCntOffset(a[i]) = SmpCntOffset(b[i])
    BY <2>1, <2>2 DEF SmpCntOffset
  <2>4. DataOffset(a[i]) = DataOffset(b[i])
    BY <2>1, <2>3 DEF DataOffset
  <2>5. QED BY <2>1, <2>2, <2>3, <2>4 DEF WrittenSize, DeclaredSize
<1>3. \A i \in 0 .. N : wa[i] = wb[i]
  <2>1. wa[0] = wb[0]
    BY WrittenSums
  <2>2. \A i \in 1 .. N : wa[i] = wa[i - 1] + WrittenSize(a[i]) /\ wb[i] = wb[i - 1] + WrittenSize(b[i])
    BY <1>1, WrittenSums
  <2>3. \A i \in 1 .. N : wa[i - 1] = wb[i - 1] => wa[i] = wb[i]
    <3> HIDE DEF wa, wb
    <3>1. QED BY <1>2, <2>2
  <2>4. N \in Nat
    BY <1>1
  <2> HIDE DEF wa, wb, N
  <2>5. QED BY <2>1, <2>3, <2>4, SumsUnique
<1>4. \A i \in 0 .. N : da[i] = db[i]
  <2>1. da[0] = db[0]
    BY DeclaredSums
  <2>2. \A i \in 1 .. N : da[i] = da[i - 1] + DeclaredSize(a[i]) /\ db[i] = db[i - 1] + DeclaredSize(b[i])
    BY <1>1, DeclaredSums
  <2>3. \A i \in 1 .. N : da[i - 1] = db[i - 1] => da[i] = db[i]
    BY <1>2, <2>2
  <2>4. N \in Nat
    BY <1>1
  <2> HIDE DEF da, db, N
  <2>5. QED BY <2>1, <2>3, <2>4, SumsUnique
<1>5. wa[N] = wb[N] /\ da[N] = db[N]
  BY <1>1, <1>3, <1>4
<1>6. TotalASDULength(a) = TotalASDULength(b)
  BY <1>1, <1>5 DEF TotalASDULength
<1>7. FirstASDU(a) = FirstASDU(b)
  BY <1>1, <1>6 DEF FirstASDU, InnerSize
<1>8. \A i \in 1 .. N : ASDUStart(a, i) = ASDUStart(b, i)
  <2>1. \A i \in 1 .. N : wa[i - 1] = wb[i - 1]
    BY <1>1, <1>3
  <2>2. QED BY <1>7, <2>1 DEF ASDUStart
<1>9. PayloadLength(a) = PayloadLength(b)
  BY <1>1, <1>5, <1>7 DEF PayloadLength
<1>10. QED BY <1>2, <1>7, <1>8, <1>9 DEF SmpCntPos, DataPos

\* Where the parts of a frame are: inside the payload, an ASDU's counter before
\* its data, and all of an ASDU before the next.
LEMMA LayoutOrder ==
  ASSUME NEW as, IsList(as)
  PROVE  /\ PayloadLength(as) \in Nat
         /\ \A i \in 1 .. Len(as) :
              /\ SmpCntPos(as, i) \in Nat /\ DataPos(as, i) \in Nat
              /\ SmpCntPos(as, i) + 2 <= DataPos(as, i)
              /\ DataPos(as, i) + as[i].dataSize <= PayloadLength(as)
         /\ \A i, j \in 1 .. Len(as) :
              i < j => DataPos(as, i) + as[i].dataSize <= SmpCntPos(as, j)
<1> DEFINE N == Len(as)
           w == SizeUpTo(as, WrittenSize)
           F == FirstASDU(as)
           P(i) == ASDUStart(as, i)
           Counter(i) == SmpCntOffset(as[i])
           Data(i) == DataOffset(as[i])
           Bytes(i) == as[i].dataSize
           Size(i) == WrittenSize(as[i])
           C(i) == SmpCntPos(as, i)
           D(i) == DataPos(as, i)
<1>1. N \in Nat
  BY DEF IsList
<1> HIDE DEF N
<1>2. /\ \A i \in 0 .. N : w[i] \in Nat
      /\ \A i \in 1 .. N : w[i] = w[i - 1] + Size(i)
      /\ \A i, j \in 0 .. N : i <= j => w[i] <= w[j]
  BY WrittenSums DEF N
<1>3. F \in Nat
  <2> DEFINE T == TotalASDULength(as)
             inner == InnerSize(as)
  <2>1. T \in Nat
    <3>1. SizeUpTo(as, DeclaredSize) \in [0 .. N -> Nat]
      BY DeclaredSums DEF N
    <3>2. N \in 0 .. N
      BY <1>1
    <3>3. QED BY <3>1, <3>2 DEF TotalASDULength, N
  <2>2. UInt32Size(N) \in 1 .. 5
    BY DEF UInt32Size
  <2>3. \A n \in Nat : TLSize(n) \in Nat /\ TLVSize(n) \in Nat
    BY LengthSizeRange DEF TLSize, TLVSize
  <2>4. inner = 2 + UInt32Size(N) + TLVSize(T)
    BY DEF InnerSize, N
  <2>5. F = TLSize(inner) + 2 + UInt32Size(N) + TLSize(T)
    BY DEF FirstASDU, N
  <2> HIDE DEF F, T, inner
  <2>6. inner \in Nat
    BY <2>1, <2>2, <2>3, <2>4
  <2>7. QED BY <2>1, <2>2, <2>3, <2>5, <2>6
<1>4. ASSUME NEW i \in 1 .. N
      PROVE  /\ Counter(i) \in Nat /\ Data(i) \in Nat /\ Bytes(i) \in Nat /\ Size(i) \in Nat
             /\ Counter(i) + 2 <= Data(i)
             /\ Data(i) + Bytes(i) <= Size(i)
  <2> DEFINE a == as[i]
  <2>1. IsElement(a)
    BY DEF IsList, N
  <2> HIDE DEF a
  <2>2. /\ SmpCntOffset(a) \in Nat /\ DataOffset(a) \in Nat
        /\ a.dataSize \in Nat /\ WrittenSize(a) \in Nat
    BY <2>1, SizesNat DEF IsElement
  <2>3. SmpCntOffset(a) + 2 < DataOffset(a) /\ DataOffset(a) + a.dataSize <= WrittenSize(a)
    BY <2>1, CounterBeforeData
  <2>4. SmpCntOffset(a) + 2 <= DataOffset(a)
    BY <2>2, <2>3
  <2>5. QED BY <2>2, <2>3, <2>4 DEF a
<1>5. \A i \in 1 .. N :
        /\ P(i) = F + w[i - 1]
        /\ C(i) = P(i) + Counter(i)
        /\ D(i) = P(i) + Data(i)
  BY DEF ASDUStart, SmpCntPos, DataPos
<1>6. PayloadLength(as) = F + w[N]
  BY DEF PayloadLength, N
<1> HIDE DEF P, w, F, Counter, Data, Bytes, Size, C, D
<1>7. w[N] \in Nat /\ PayloadLength(as) \in Nat
  <2>1. N \in 0 .. N
    BY <1>1
  <2>2. QED BY <1>2, <1>3, <1>6, <2>1
<1>8. ASSUME NEW i \in 1 .. N
      PROVE  /\ P(i) \in Nat /\ w[i] \in Nat
             /\ P(i) + Size(i) = F + w[i]
  <2>1. i - 1 \in 0 .. N /\ i \in 0 .. N
    BY <1>1
  <2>2. w[i] = w[i - 1] + Size(i) /\ w[i - 1] \in Nat /\ w[i] \in Nat /\ P(i) = F + w[i - 1]
    BY <1>2, <1>5, <2>1
  <2>3. QED BY <1>3, <1>4, <2>2
<1>9. ASSUME NEW i \in 1 .. N
      PROVE  /\ C(i) \in Nat /\ D(i) \in Nat
             /\ C(i) + 2 <= D(i)
             /\ P(i) <= C(i)
             /\ D(i) + Bytes(i) <= F + w[i]
  <2>1. /\ Counter(i) \in Nat /\ Data(i) \in Nat /\ Bytes(i) \in Nat /\ Size(i) \in Nat
        /\ Counter(i) + 2 <= Data(i) /\ Data(i) + Bytes(i) <= Size(i)
    BY <1>4
  <2>2. C(i) = P(i) + Counter(i) /\ D(i) = P(i) + Data(i)
    BY <1>5
  <2>3. P(i) \in Nat /\ w[i] \in Nat /\ P(i) + Size(i) = F + w[i]
    BY <1>8
  <2>4. C(i) \in Nat /\ D(i) \in Nat
    BY <2>1, <2>2, <2>3
  <2>5. C(i) + 2 <= D(i) /\ P(i) <= C(i)
    BY <2>1, <2>2, <2>3
  <2>6. D(i) + Bytes(i) <= F + w[i]
    BY <1>3, <2>1, <2>2, <2>3
  <2>7. QED BY <2>4, <2>5, <2>6
<1>10. ASSUME NEW i \in 1 .. N PROVE D(i) + Bytes(i) <= PayloadLength(as)
  <2>1. i \in 0 .. N /\ N \in 0 .. N /\ i <= N
    BY <1>1
  <2>2. w[i] <= w[N] /\ w[i] \in Nat
    BY <1>2, <2>1
  <2>3. Bytes(i) \in Nat /\ D(i) \in Nat /\ D(i) + Bytes(i) <= F + w[i]
    BY <1>4, <1>9
  <2>4. w[N] \in Nat
    BY <1>7
  <2>5. QED BY <1>3, <1>6, <2>2, <2>3, <2>4
<1>11. ASSUME NEW i \in 1 .. N, NEW j \in 1 .. N, i < j
       PROVE  D(i) + Bytes(i) <= C(j)
  <2>1. i \in 0 .. N /\ j - 1 \in 0 .. N /\ i <= j - 1
    BY <1>1, <1>11
  <2>2. w[i] <= w[j - 1] /\ w[i] \in Nat /\ w[j - 1] \in Nat
    BY <1>2, <2>1
  <2>3. P(j) = F + w[j - 1] /\ P(j) <= C(j)
    BY <1>5, <1>9
  <2>4. D(i) + Bytes(i) <= F + w[i]
    BY <1>9
  <2>5. Bytes(i) \in Nat /\ D(i) \in Nat /\ C(j) \in Nat
    BY <1>4, <1>9
  <2>6. QED BY <1>3, <2>2, <2>3, <2>4, <2>5
<1>12. QED BY <1>7, <1>9, <1>10, <1>11 DEF N, Bytes, C, D

-----------------------------------------------------------------------------
(* The frame of a handle. *)

\* The frame is the layout of a list: that of the last setup.
FrameInv ==
  /\ IsList(frame)
  /\ Len(frame) <= Len(asdus)
  /\ \A i \in 1 .. Len(frame) :
       SmpCntBuf(i) = SmpCntPos(frame, i) /\ DataBuffer(i) = DataPos(frame, i)

\* The records of the handle's list are elements.
LEMMA HandleIsList ==
  ASSUME HandleTypeOK
  PROVE  IsList(asdus)
<1>1. /\ Len(asdus) \in Nat /\ DOMAIN asdus = 1 .. Len(asdus)
      /\ \A i \in 1 .. Len(asdus) : asdus[i] \in ASDU
  BY DEF HandleTypeOK
<1>2. \A a \in ASDU : IsElement(a)
  BY DEF ASDU, IsElement
<1>3. QED BY <1>1, <1>2 DEF IsList

\* setupComplete lays out the list of the moment.
LEMMA SetupFrame ==
  ASSUME IInv, SetupComplete
  PROVE  /\ FrameInv'
         /\ Len(frame') = Len(asdus)
         /\ SameElements(asdus, frame')
         /\ \A i \in 1 .. Len(asdus) :
              /\ SmpCntBuf(i)' = SmpCntPos(asdus, i)
              /\ DataBuffer(i)' = DataPos(asdus, i)
              /\ frame'[i].dataSize = asdus[i].dataSize
<1> DEFINE N == Len(asdus)
<1>1. IsList(asdus) /\ N \in Nat /\ DOMAIN asdus = 1 .. N
  BY HandleIsList DEF IInv, IsList
<1>2. frame' = [i \in 1 .. N |-> Layout(asdus, i)] /\ asdus' = asdus
  BY <1>1 DEF SetupComplete
<1>3. DOMAIN frame' = 1 .. N /\ Len(frame') = N
  <2> HIDE DEF N
  <2>1. QED BY <1>1, <1>2
<1>4. \A i \in 1 .. N :
        /\ frame'[i].svID = asdus[i].svID /\ frame'[i].datset = asdus[i].datset
        /\ frame'[i].dataSize = asdus[i].dataSize
        /\ frame'[i].hasRefrTm = asdus[i].hasRefrTm
        /\ frame'[i].hasSmpMod = asdus[i].hasSmpMod
        /\ frame'[i].smpCntBuf = SmpCntPos(asdus, i)
        /\ frame'[i].dataBuffer = DataPos(asdus, i)
  BY <1>2 DEF Layout
<1>5. IsList(frame')
  <2>1. \A i \in 1 .. N : IsElement(asdus[i])
    BY <1>1 DEF IsList
  <2>2. \A i \in 1 .. N : IsElement(frame'[i])
    BY <1>4, <2>1 DEF IsElement
  <2>3. QED BY <1>1, <1>3, <2>2 DEF IsList
<1>6. SameElements(asdus, frame')
  BY <1>3, <1>4 DEF SameElements
<1>7. \A i \in 1 .. N : SmpCntPos(asdus, i) = SmpCntPos(frame', i) /\ DataPos(asdus, i) = DataPos(frame', i)
  BY <1>1, <1>5, <1>6, SameLayout
<1>8. FrameInv'
  <2>1. Len(frame') <= Len(asdus')
    BY <1>1, <1>2, <1>3
  <2>2. QED BY <1>3, <1>4, <1>5, <1>7, <2>1 DEF FrameInv, SmpCntBuf, DataBuffer
<1>9. QED BY <1>3, <1>4, <1>6, <1>8 DEF SmpCntBuf, DataBuffer

LEMMA InitFrameInv == Init => FrameInv
BY DEF Init, FrameInv, IsList

\* Only a setup changes the frame, and no call removes an ASDU.
LEMMA NextFrameInv == IInv /\ FrameInv /\ [Next]_vars => FrameInv'
<1> SUFFICES ASSUME IInv, FrameInv, [Next]_vars PROVE FrameInv'
  OBVIOUS
<1>1. CASE SetupComplete
  BY <1>1, SetupFrame
<1>2. ASSUME frame' = frame, Len(asdus) <= Len(asdus') PROVE FrameInv'
  <2> DEFINE n == Len(frame)
             a == Len(asdus)
             b == Len(asdus')
  <2>1. n \in Nat /\ a \in Nat /\ b \in Nat /\ n <= a /\ a <= b
    BY <1>2, NextIInv DEF FrameInv, IsList, IInv, HandleTypeOK
  <2>2. n <= b
    <3> HIDE DEF n, a, b
    <3>1. QED BY <2>1
  <2>3. QED BY <1>2, <2>2 DEF FrameInv, SmpCntBuf, DataBuffer
<1>3. asdus \in Seq(ASDU) /\ Len(asdus) \in Nat
  BY DEF IInv, HandleTypeOK
<1>4. ASSUME UNCHANGED <<frame, asdus>> PROVE FrameInv'
  BY <1>2, <1>3, <1>4
<1>5. ASSUME NEW i \in DOMAIN asdus, NEW b, UNCHANGED frame, asdus' = [asdus EXCEPT ![i] = b]
      PROVE  FrameInv'
  <2>1. Len(asdus') = Len(asdus)
    BY <1>3, <1>5
  <2>2. QED BY <1>2, <1>3, <1>5, <2>1
<1>6. ASSUME NEW name \in NameLens, NEW datset \in DatSetLens, AddASDU(name, datset)
      PROVE  FrameInv'
  <2>1. Len(asdus') = Len(asdus) + 1 /\ frame' = frame
    BY <1>3, <1>6 DEF AddASDU
  <2>2. QED BY <1>2, <1>3, <2>1
<1>7. ASSUME NEW i \in DOMAIN asdus, AddSomeValue(i) PROVE FrameInv'
  BY <1>5, <1>7 DEF AddSomeValue, AddINT8, AddINT32, AddFLOAT, AddFLOAT64, AddValue
<1>8. ASSUME NEW i \in DOMAIN asdus, ResetBuffer(i) \/ SetRefrTm(i) \/ SetSmpMod(i) PROVE FrameInv'
  BY <1>5, <1>8 DEF ResetBuffer, SetRefrTm, SetSmpMod
<1>9. ASSUME NEW i \in DOMAIN asdus, NEW n, StoreCounter(i, n) PROVE FrameInv'
  BY <1>5, <1>9 DEF StoreCounter
<1>10. ASSUME NEW i \in DOMAIN asdus, NEW j \in DOMAIN slots[i], NEW v \in Value, SetValue(i, j, v)
       PROVE  FrameInv'
  BY <1>4, <1>10 DEF SetValue
<1>11. CASE Create \/ Publish \/ Destroy \/ UNCHANGED vars
  BY <1>4, <1>11 DEF Create, Publish, Destroy, vars
<1>12. QED
  BY <1>1, <1>6, <1>7, <1>8, <1>9, <1>10, <1>11 DEF Next, SetSmpCnt, IncreaseSmpCnt

\* What the layout of a frame says of its areas.
LEMMA AreasApart == FrameInv => AreasDisjoint
<1> SUFFICES ASSUME FrameInv PROVE AreasDisjoint
  OBVIOUS
<1> DEFINE N == Len(frame)
           C(i) == SmpCntBuf(i)
           D(i) == DataBuffer(i)
           S(i) == frame[i].dataSize
           P == PayloadLength(frame)
<1>1. /\ P \in Nat
      /\ DOMAIN frame = 1 .. N
      /\ \A i \in 1 .. N :
           /\ C(i) \in Nat /\ D(i) \in Nat /\ S(i) \in Nat
           /\ C(i) + 2 <= D(i) /\ D(i) + S(i) <= P
      /\ \A i, j \in 1 .. N : i < j => D(i) + S(i) <= C(j)
  BY LayoutOrder DEF FrameInv, IsList, IsElement
<1>n. N \in Nat
  BY DEF FrameInv, IsList
<1>2. Areas = {[from |-> C(i), to |-> C(i) + 2] : i \in 1 .. N}
                \cup {[from |-> D(i), to |-> D(i) + S(i)] : i \in {k \in 1 .. N : S(k) > 0}}
  BY <1>1 DEF Areas
<1> HIDE DEF N, C, D, S, P
<1>3. ASSUME NEW a \in Areas
      PROVE  \E i \in 1 .. N :
               \/ a.from = C(i) /\ a.to = C(i) + 2 /\ a = [from |-> C(i), to |-> C(i) + 2]
               \/ a.from = D(i) /\ a.to = D(i) + S(i) /\ a = [from |-> D(i), to |-> D(i) + S(i)]
  BY <1>2
<1>4. ASSUME NEW a \in Areas PROVE a.to <= P
  <2>1. PICK i \in 1 .. N : a.to = C(i) + 2 \/ a.to = D(i) + S(i)
    BY <1>3
  <2>2. QED BY <1>1, <2>1
<1>5. ASSUME NEW i \in 1 .. N, NEW j \in 1 .. N, i < j
      PROVE  /\ C(i) + 2 <= C(j) /\ C(i) + 2 <= D(j)
             /\ D(i) + S(i) <= C(j) /\ D(i) + S(i) <= D(j)
  <2>1. D(i) + S(i) <= C(j)
    BY <1>1, <1>5
  <2>2. /\ C(i) \in Nat /\ D(i) \in Nat /\ S(i) \in Nat /\ C(i) + 2 <= D(i)
        /\ C(j) \in Nat /\ D(j) \in Nat /\ C(j) + 2 <= D(j)
    BY <1>1
  <2>3. QED BY <2>1, <2>2
<1>6. ASSUME NEW a \in Areas, NEW b \in Areas PROVE a = b \/ a.to <= b.from \/ b.to <= a.from
  <2>1. PICK i \in 1 .. N :
           \/ a.from = C(i) /\ a.to = C(i) + 2 /\ a = [from |-> C(i), to |-> C(i) + 2]
           \/ a.from = D(i) /\ a.to = D(i) + S(i) /\ a = [from |-> D(i), to |-> D(i) + S(i)]
    BY <1>3
  <2>2. PICK j \in 1 .. N :
           \/ b.from = C(j) /\ b.to = C(j) + 2 /\ b = [from |-> C(j), to |-> C(j) + 2]
           \/ b.from = D(j) /\ b.to = D(j) + S(j) /\ b = [from |-> D(j), to |-> D(j) + S(j)]
    BY <1>3
  <2>3. CASE i < j
    BY <1>5, <2>1, <2>2, <2>3
  <2>4. CASE j < i
    BY <1>5, <2>1, <2>2, <2>4
  <2>5. CASE i = j
    <3>1. C(i) + 2 <= D(i)
      BY <1>1
    <3>2. QED BY <2>1, <2>2, <2>5, <3>1
  <2>6. i < j \/ j < i \/ i = j
    BY <1>n
  <2>7. QED BY <2>3, <2>4, <2>5, <2>6
<1>7. QED BY <1>4, <1>6 DEF AreasDisjoint, P

\* For any number of ASDUs and values: after every call, the two bytes of each
\* counter and the data of each ASDU that setup laid out share no byte, and
\* all of them lie inside the payload that publish sends.
THEOREM AreasNeverOverlap == Spec => []AreasDisjoint
<1>1. Init => IInv /\ FrameInv
  BY InitIInv, InitFrameInv
<1>2. (IInv /\ FrameInv) /\ [Next]_vars => (IInv /\ FrameInv)'
  BY NextIInv, NextFrameInv
<1>3. IInv /\ FrameInv => AreasDisjoint
  BY AreasApart
<1>4. QED BY <1>1, <1>2, <1>3, PTL DEF Spec

\* What a reader that walks the frame by the declared lengths can find: all of
\* it exactly if every ASDU before the last has names and data shorter than 128
\* bytes and no smpMod.  Nothing in setupComplete asks for that.
ReadableFrame ==
  \A i \in DOMAIN frame : i < Len(frame) => ShortForm(frame[i]) /\ ~frame[i].hasSmpMod

LEMMA ReachableIff == FrameInv => (EveryASDUReachable <=> ReadableFrame)
<1> SUFFICES ASSUME FrameInv PROVE EveryASDUReachable <=> ReadableFrame
  OBVIOUS
<1> DEFINE N == Len(frame)
           Good(i) == LengthsAgree(frame[i])
<1>1. N \in Nat /\ DOMAIN frame = 1 .. N /\ \A i \in 1 .. N : IsElement(frame[i])
  BY DEF FrameInv, IsList
<1>2. \A i \in 1 .. N : Good(i) <=> ShortForm(frame[i]) /\ ~frame[i].hasSmpMod
  BY <1>1, LengthsAgreeExactly
<1>3. ReadableFrame <=> \A i \in 1 .. N : i < N => Good(i)
  <2> HIDE DEF Good
  <2>1. QED BY <1>1, <1>2 DEF ReadableFrame
<1>4. EveryASDUReachable <=> \A i \in 1 .. N : \A j \in 1 .. i - 1 : Good(j)
  BY <1>1 DEF EveryASDUReachable, Reachable
<1> HIDE DEF N, Good
<1>5. ASSUME \A i \in 1 .. N : i < N => Good(i), NEW i \in 1 .. N, NEW j \in 1 .. i - 1
      PROVE  Good(j)
  <2>1. j \in 1 .. N /\ j < N
    BY <1>1
  <2>2. QED BY <1>5, <2>1
<1>6. ASSUME \A i \in 1 .. N : \A j \in 1 .. i - 1 : Good(j), NEW j \in 1 .. N, j < N
      PROVE  Good(j)
  <2>1. N \in 1 .. N /\ j \in 1 .. N - 1
    BY <1>1, <1>6
  <2>2. QED BY <1>6, <2>1
<1>7. QED BY <1>3, <1>4, <1>5, <1>6

\* After every call, all ASDUs of the frame can be found exactly if the frame
\* is readable: the two length computations of sv_publisher.c agree on it.
THEOREM ReachableExactly == Spec => [](EveryASDUReachable <=> ReadableFrame)
<1>1. Init => IInv /\ FrameInv
  BY InitIInv, InitFrameInv
<1>2. (IInv /\ FrameInv) /\ [Next]_vars => (IInv /\ FrameInv)'
  BY NextIInv, NextFrameInv
<1>3. IInv /\ FrameInv => (EveryASDUReachable <=> ReadableFrame)
  BY ReachableIff
<1>4. QED BY <1>1, <1>2, <1>3, PTL DEF Spec

-----------------------------------------------------------------------------
(* The counters in the buffer. *)

\* The frame fits the buffer.  Nothing in sv_publisher.c checks that it does;
\* what follows about the bytes of the buffer holds while it does.
FrameFits == PayloadLength(frame) <= Capacity

\* Both bytes of each counter are in the buffer.
MemInv ==
  /\ DOMAIN mem = 0 .. Capacity - 1
  /\ \A i \in 1 .. Len(frame) :
       /\ mem[SmpCntBuf(i)] = <<"int", asdus[i].smpCnt \div Base>>
       /\ mem[SmpCntBuf(i) + 1] = <<"int", asdus[i].smpCnt % Base>>

\* What Write leaves.
LEMMA WriteBytes ==
  ASSUME NEW m, NEW pos \in Nat, NEW bytes, NEW n \in Nat, Len(bytes) = n
  PROVE  /\ DOMAIN Write(m, pos, bytes) = DOMAIN m
         /\ \A p \in DOMAIN m : p \in pos .. pos + n - 1 => Write(m, pos, bytes)[p] = bytes[p - pos + 1]
         /\ \A p \in DOMAIN m : p \notin pos .. pos + n - 1 => Write(m, pos, bytes)[p] = m[p]
BY DEF Write

\* The bytes of a counter, most significant first.
LEMMA TwoBytes ==
  ASSUME NEW n
  PROVE  /\ Len(CounterBytes(n)) = 2
         /\ CounterBytes(n)[1] = <<"int", n \div Base>>
         /\ CounterBytes(n)[2] = <<"int", n % Base>>
BY DEF CounterBytes

\* Where the counters and the data of the frame are, and that they are in the
\* buffer.
LEMMA FramePlaces ==
  ASSUME FrameInv, FrameFits
  PROVE  /\ \A i \in 1 .. Len(frame) :
              /\ SmpCntBuf(i) \in Nat /\ DataBuffer(i) \in Nat /\ frame[i].dataSize \in Nat
              /\ SmpCntBuf(i) \in 0 .. Capacity - 1 /\ SmpCntBuf(i) + 1 \in 0 .. Capacity - 1
              /\ SmpCntBuf(i) + 2 <= DataBuffer(i)
              /\ DataBuffer(i) + frame[i].dataSize <= Capacity
         /\ \A i, j \in 1 .. Len(frame) :
              i < j => DataBuffer(i) + frame[i].dataSize <= SmpCntBuf(j)
<1> DEFINE N == Len(frame)
           C(i) == SmpCntBuf(i)
           D(i) == DataBuffer(i)
           S(i) == frame[i].dataSize
           P == PayloadLength(frame)
<1>1. /\ P \in Nat
      /\ \A i \in 1 .. N :
           /\ C(i) \in Nat /\ D(i) \in Nat /\ S(i) \in Nat
           /\ C(i) + 2 <= D(i) /\ D(i) + S(i) <= P
      /\ \A i, j \in 1 .. N : i < j => D(i) + S(i) <= C(j)
  BY LayoutOrder DEF FrameInv, IsList, IsElement
<1>2. P <= Capacity /\ Capacity \in Nat
  BY ConstantsAssumption DEF FrameFits
<1> HIDE DEF N, C, D, S, P
<1>3. ASSUME NEW i \in 1 .. N
      PROVE  /\ C(i) \in 0 .. Capacity - 1 /\ C(i) + 1 \in 0 .. Capacity - 1
             /\ D(i) + S(i) <= Capacity
  <2>1. /\ C(i) \in Nat /\ D(i) \in Nat /\ S(i) \in Nat
        /\ C(i) + 2 <= D(i) /\ D(i) + S(i) <= P
    BY <1>1
  <2>2. QED BY <1>1, <1>2, <2>1
<1>4. QED BY <1>1, <1>3 DEF N, C, D, S

\* A number from its quotient and remainder.
LEMMA DivMod ==
  ASSUME NEW n \in Int, NEW b \in Int, b > 0, NEW q, q = n \div b, NEW r, r = n % b
  PROVE  q * b + r = n
<1>1. q \in Int /\ r = n - b * q /\ r \in Int
  OBVIOUS
<1> DEFINE x == q * b
<1>2. b * q = x /\ x \in Int
  BY <1>1
<1> HIDE DEF x
<1>3. x + r = n
  BY <1>1, <1>2
<1>4. QED BY <1>3 DEF x

\* A counter is what its two bytes say.
LEMMA CounterFromBytes ==
  ASSUME IInv, FrameInv, MemInv
  PROVE  CounterInFrame
<1> SUFFICES ASSUME NEW i \in DOMAIN frame PROVE ReadCounter(i) = asdus[i].smpCnt
  BY DEF CounterInFrame
<1> DEFINE n == asdus[i].smpCnt
           hi == mem[SmpCntBuf(i)]
           lo == mem[SmpCntBuf(i) + 1]
<1>1. i \in 1 .. Len(frame) /\ i \in 1 .. Len(asdus)
  <2> DEFINE k == Len(frame)
             l == Len(asdus)
  <2>1. k \in Nat /\ l \in Nat /\ k <= l /\ i \in 1 .. k
    BY DEF FrameInv, IsList, IInv, HandleTypeOK
  <2> HIDE DEF k, l
  <2>2. i \in 1 .. l
    BY <2>1
  <2>3. QED BY <2>1, <2>2 DEF k, l
<1>2. n \in Nat
  <2>1. asdus[i] \in ASDU
    BY <1>1 DEF IInv, HandleTypeOK
  <2>2. n \in 0 .. CounterSize - 1
    BY <2>1 DEF ASDU
  <2>3. QED BY <2>2, CounterSizePositive
<1> DEFINE q == n \div Base
           r == n % Base
<1>3. hi = <<"int", q>> /\ lo = <<"int", r>>
  BY <1>1 DEF MemInv
<1>4. ReadCounter(i) = IF hi[1] = "int" /\ lo[1] = "int" THEN hi[2] * Base + lo[2] ELSE NoCounter
  BY DEF ReadCounter
<1>5. q * Base + r = n
  <2>1. Base \in Int /\ Base > 0
    BY ConstantsAssumption
  <2>2. n \in Int
    BY <1>2
  <2> HIDE DEF n
  <2>3. QED BY <2>1, <2>2, DivMod
<1> HIDE DEF hi, lo, n, q, r
<1>6. hi[1] = "int" /\ lo[1] = "int" /\ hi[2] = q /\ lo[2] = r
  BY <1>3
<1>7. ReadCounter(i) = q * Base + r
  BY <1>4, <1>6, Zenon
<1>8. QED BY <1>5, <1>7 DEF n

\* After setupComplete every counter is in its place: no area of the layout
\* covers a byte of it.
LEMMA SetupMemInv ==
  ASSUME IInv, MemInv, SetupComplete, FrameFits'
  PROVE  MemInv'
<1> DEFINE N == Len(asdus)
           C(i) == SmpCntPos(asdus, i)
           D(i) == DataPos(asdus, i)
           S(i) == asdus[i].dataSize
           P == PayloadLength(asdus)
           counter == [i \in DOMAIN asdus |-> C(i)]
           owners  == [p \in DOMAIN mem |-> {i \in DOMAIN asdus : p - counter[i] \in {0, 1}}]
<1>1. IsList(asdus) /\ N \in Nat /\ DOMAIN asdus = 1 .. N
  BY HandleIsList DEF IInv, IsList
<1>2. P = PayloadLength(frame')
  BY <1>1, SetupFrame, SameLayout DEF FrameInv
<1>3. P <= Capacity /\ Capacity \in Nat /\ DOMAIN mem = 0 .. Capacity - 1
  BY <1>2, ConstantsAssumption DEF FrameFits, MemInv
<1>4. /\ P \in Nat
      /\ \A i \in 1 .. N :
           /\ C(i) \in Nat /\ D(i) \in Nat /\ S(i) \in Nat
           /\ C(i) + 2 <= D(i) /\ D(i) + S(i) <= P
      /\ \A i, j \in 1 .. N : i < j => D(i) + S(i) <= C(j)
  BY <1>1, LayoutOrder DEF IsList, IsElement
<1>5. DOMAIN mem' = DOMAIN mem
  BY DEF SetupComplete, Encode
<1>6. \A p \in DOMAIN mem : \A i \in DOMAIN asdus :
        owners[p] = {i} => mem'[p] = CounterBytes(asdus[i].smpCnt)[p - C(i) + 1]
  <2> SUFFICES ASSUME NEW p \in DOMAIN mem, NEW i \in DOMAIN asdus, owners[p] = {i}
               PROVE  mem'[p] = CounterBytes(asdus[i].smpCnt)[p - C(i) + 1]
    OBVIOUS
  <2>1. (CHOOSE k \in owners[p] : TRUE) = i /\ owners[p] # {} /\ counter[i] = C(i)
    OBVIOUS
  <2>2. mem' = Encode(mem, asdus)
    BY DEF SetupComplete
  <2>3. mem'[p] = CounterBytes(asdus[CHOOSE k \in owners[p] : TRUE].smpCnt)
                    [p - counter[CHOOSE k \in owners[p] : TRUE] + 1]
    BY <2>1, <2>2 DEF Encode
  <2>4. QED BY <2>1, <2>3
<1> HIDE DEF N, C, D, S, P
<1>7. ASSUME NEW i \in 1 .. N, NEW p \in {C(i), C(i) + 1}
      PROVE  p \in DOMAIN mem /\ owners[p] = {i}
  <2>1. C(i) \in Nat /\ C(i) + 2 <= D(i) /\ D(i) + S(i) <= P /\ D(i) \in Nat /\ S(i) \in Nat
    BY <1>4
  <2>2. p \in 0 .. Capacity - 1
    BY <1>3, <1>4, <2>1
  <2>3. ASSUME NEW j \in 1 .. N, p - C(j) \in {0, 1} PROVE j = i
    <3>1. C(j) \in Nat /\ C(j) + 2 <= D(j) /\ D(j) \in Nat /\ S(j) \in Nat
      BY <1>4
    <3>2. p = C(j) \/ p = C(j) + 1
      BY <2>1, <2>3, <3>1
    <3>3. i < j \/ j < i \/ i = j
      OBVIOUS
    <3>4. ~(i < j)
      <4>1. SUFFICES ASSUME i < j PROVE FALSE
        OBVIOUS
      <4>2. D(i) + S(i) <= C(j)
        BY <1>4, <4>1
      <4>3. QED BY <2>1, <3>1, <3>2, <4>2
    <3>5. ~(j < i)
      <4>1. SUFFICES ASSUME j < i PROVE FALSE
        OBVIOUS
      <4>2. D(j) + S(j) <= C(i)
        BY <1>4, <4>1
      <4>3. QED BY <2>1, <3>1, <3>2, <4>2
    <3>6. QED BY <3>3, <3>4, <3>5
  <2>4. p - C(i) \in {0, 1}
    BY <2>1
  <2>5. \A j \in DOMAIN asdus : counter[j] = C(j)
    OBVIOUS
  <2>6. QED BY <1>1, <1>3, <2>2, <2>3, <2>4, <2>5
<1>8. ASSUME NEW i \in 1 .. N
      PROVE  /\ mem'[C(i)] = <<"int", asdus[i].smpCnt \div Base>>
             /\ mem'[C(i) + 1] = <<"int", asdus[i].smpCnt % Base>>
  <2>1. C(i) \in Nat /\ i \in DOMAIN asdus
    BY <1>1, <1>4
  <2>2. mem'[C(i)] = CounterBytes(asdus[i].smpCnt)[C(i) - C(i) + 1]
    BY <1>6, <1>7, <2>1
  <2>3. mem'[C(i) + 1] = CounterBytes(asdus[i].smpCnt)[(C(i) + 1) - C(i) + 1]
    BY <1>6, <1>7, <2>1
  <2>4. C(i) - C(i) + 1 = 1 /\ (C(i) + 1) - C(i) + 1 = 2
    BY <2>1
  <2>5. QED BY <2>2, <2>3, <2>4, TwoBytes
<1>9. /\ Len(frame') = N /\ asdus' = asdus
      /\ \A i \in 1 .. N : SmpCntBuf(i)' = C(i)
  BY SetupFrame DEF N, C, SetupComplete
<1>10. QED BY <1>3, <1>5, <1>8, <1>9 DEF MemInv

\* Positions of list entries, without the arithmetic of Len.
LEMMA FrameWithin ==
  ASSUME IInv, FrameInv
  PROVE  /\ DOMAIN frame = 1 .. Len(frame) /\ DOMAIN asdus = 1 .. Len(asdus)
         /\ DOMAIN slots = DOMAIN asdus
         /\ \A i \in 1 .. Len(frame) : i \in 1 .. Len(asdus)
         /\ \A i \in 1 .. Len(asdus) : asdus[i] \in ASDU /\ slots[i] \in Seq(Slot)
<1> DEFINE k == Len(frame)
           l == Len(asdus)
<1>1. k \in Nat /\ l \in Nat /\ k <= l
  BY DEF FrameInv, IsList, IInv, HandleTypeOK
<1>2. \A i \in 1 .. k : i \in 1 .. l
  <2> HIDE DEF k, l
  <2>1. QED BY <1>1
<1>3. QED BY <1>2 DEF FrameInv, IsList, IInv, HandleTypeOK

\* Bytes written inside the data of an ASDU of the frame are none of a counter.
LEMMA DataMissesCounters ==
  ASSUME FrameInv, FrameFits, NEW i \in 1 .. Len(frame), NEW j \in 1 .. Len(frame),
         NEW p \in Int, DataBuffer(i) <= p, p < DataBuffer(i) + frame[i].dataSize
  PROVE  p # SmpCntBuf(j) /\ p # SmpCntBuf(j) + 1
<1> DEFINE N == Len(frame)
           C(n) == SmpCntBuf(n)
           D(n) == DataBuffer(n)
           S(n) == frame[n].dataSize
<1>1. /\ C(i) \in Nat /\ D(i) \in Nat /\ S(i) \in Nat /\ C(i) + 2 <= D(i)
      /\ C(j) \in Nat /\ D(j) \in Nat /\ S(j) \in Nat /\ C(j) + 2 <= D(j)
      /\ i < j => D(i) + S(i) <= C(j)
      /\ j < i => D(j) + S(j) <= C(i)
  BY FramePlaces
<1>2. D(i) <= p /\ p < D(i) + S(i)
  OBVIOUS
<1> HIDE DEF C, D, S
<1>3. i < j \/ j < i \/ i = j
  OBVIOUS
<1>4. ASSUME i < j PROVE p # C(j) /\ p # C(j) + 1
  BY <1>1, <1>2, <1>4
<1>5. ASSUME j < i PROVE p # C(j) /\ p # C(j) + 1
  BY <1>1, <1>2, <1>5
<1>6. ASSUME i = j PROVE p # C(j) /\ p # C(j) + 1
  BY <1>1, <1>2, <1>6
<1>7. p # C(j) /\ p # C(j) + 1
  BY <1>3, <1>4, <1>5, <1>6
<1>8. QED BY <1>7 DEF C

\* A value is written inside the data of its ASDU.
LEMMA SetValueMemInv ==
  ASSUME IInv, FrameInv, MemInv, FrameFits,
         NEW i \in DOMAIN asdus, NEW j \in DOMAIN slots[i], NEW v \in Value, SetValue(i, j, v)
  PROVE  MemInv'
<1> DEFINE x == slots[i][j].index
           s == slots[i][j].size
           D == DataBuffer(i)
           S == frame[i].dataSize
<1>1. /\ i \in 1 .. Len(frame) /\ x \in Nat /\ s \in Nat /\ x + s <= S
  <2>1. InFrame(i, slots[i][j])
    BY DEF SetValue
  <2>2. i \in 1 .. Len(frame) /\ slots[i][j] \in Slot
    BY <2>1, FrameWithin DEF InFrame, LaidOut
  <2>3. x \in Nat /\ s \in Nat
    BY <2>2 DEF Slot
  <2>4. x + s <= S
    BY <2>1 DEF InFrame
  <2>5. QED BY <2>2, <2>3, <2>4
<1>2. D \in Nat /\ S \in Nat
  BY <1>1, FramePlaces
<1>3. Len(ValueBytes(v, s)) = s
  <2> HIDE DEF s
  <2>1. QED BY <1>1 DEF ValueBytes
<1>4. mem' = Write(mem, D + x, ValueBytes(v, s)) /\ UNCHANGED <<asdus, frame>>
  BY DEF SetValue
<1>5. DOMAIN mem' = DOMAIN mem /\ \A p \in DOMAIN mem : p \notin D + x .. D + x + s - 1 => mem'[p] = mem[p]
  <2> DEFINE bytes == ValueBytes(v, s)
             pos == D + x
  <2>1. Len(bytes) = s /\ mem' = Write(mem, pos, bytes)
    BY <1>3, <1>4
  <2> HIDE DEF D, x, s, bytes
  <2>2. pos \in Nat
    BY <1>1, <1>2
  <2> HIDE DEF pos
  <2>3. /\ DOMAIN Write(mem, pos, bytes) = DOMAIN mem
        /\ \A p \in DOMAIN mem : p \notin pos .. pos + s - 1 => Write(mem, pos, bytes)[p] = mem[p]
    BY <1>1, <2>1, <2>2, WriteBytes
  <2>4. QED BY <2>1, <2>3 DEF pos
<1>6. ASSUME NEW k \in 1 .. Len(frame), NEW p \in {SmpCntBuf(k), SmpCntBuf(k) + 1}
      PROVE  mem'[p] = mem[p]
  <2>1. p \in DOMAIN mem /\ p \in Int
    <3>1. SmpCntBuf(k) \in 0 .. Capacity - 1 /\ SmpCntBuf(k) + 1 \in 0 .. Capacity - 1
      BY FramePlaces
    <3>2. QED BY <3>1 DEF MemInv
  <2>2. ASSUME D <= p, p < D + S PROVE FALSE
    BY <1>1, <2>1, <2>2, DataMissesCounters
  <2> HIDE DEF D, S, x, s
  <2>3. ~(D <= p /\ p < D + S)
    BY <2>2
  <2>4. p \notin D + x .. D + x + s - 1
    BY <1>1, <1>2, <2>1, <2>3
  <2>5. QED BY <1>5, <2>1, <2>4
<1>7. UNCHANGED <<asdus, frame>> /\ \A k \in 1 .. Len(frame) : SmpCntBuf(k)' = SmpCntBuf(k)
  BY <1>4 DEF SmpCntBuf
<1>8. QED BY <1>5, <1>6, <1>7 DEF MemInv

\* A counter is written to its own two bytes.
LEMMA StoreCounterMemInv ==
  ASSUME IInv, FrameInv, MemInv, FrameFits,
         NEW i \in DOMAIN asdus, NEW n, StoreCounter(i, n)
  PROVE  MemInv'
<1> DEFINE C(k) == SmpCntBuf(k)
           D(k) == DataBuffer(k)
           S(k) == frame[k].dataSize
<1>1. i \in 1 .. Len(frame) /\ DOMAIN asdus = 1 .. Len(asdus)
  BY FrameWithin DEF StoreCounter, LaidOut
<1>2. mem' = Write(mem, C(i), CounterBytes(n)) /\ UNCHANGED <<frame>>
  BY DEF StoreCounter
<1>3. asdus' = [asdus EXCEPT ![i] = [asdus[i] EXCEPT !.smpCnt = n]]
  BY DEF StoreCounter
<1>4. /\ \A k \in 1 .. Len(frame) :
           /\ C(k) \in Nat /\ D(k) \in Nat /\ S(k) \in Nat /\ C(k) + 2 <= D(k)
           /\ C(k) \in DOMAIN mem /\ C(k) + 1 \in DOMAIN mem
      /\ \A k, l \in 1 .. Len(frame) : k < l => D(k) + S(k) <= C(l)
  BY FramePlaces DEF MemInv
<1>5. /\ DOMAIN mem' = DOMAIN mem
      /\ \A p \in DOMAIN mem : p \in C(i) .. C(i) + 2 - 1 => mem'[p] = CounterBytes(n)[p - C(i) + 1]
      /\ \A p \in DOMAIN mem : p \notin C(i) .. C(i) + 2 - 1 => mem'[p] = mem[p]
  <2> DEFINE bytes == CounterBytes(n)
             pos == C(i)
  <2>1. Len(bytes) = 2 /\ mem' = Write(mem, pos, bytes) /\ pos \in Nat
    BY <1>1, <1>2, <1>4, TwoBytes
  <2> HIDE DEF pos, bytes
  <2>2. /\ DOMAIN Write(mem, pos, bytes) = DOMAIN mem
        /\ \A p \in DOMAIN mem : p \in pos .. pos + 2 - 1 => Write(mem, pos, bytes)[p] = bytes[p - pos + 1]
        /\ \A p \in DOMAIN mem : p \notin pos .. pos + 2 - 1 => Write(mem, pos, bytes)[p] = mem[p]
    <3>1. PICK k \in Nat : k = 2
      OBVIOUS
    <3>2. Len(bytes) = k
      BY <2>1, <3>1
    <3>3. /\ DOMAIN Write(mem, pos, bytes) = DOMAIN mem
          /\ \A p \in DOMAIN mem : p \in pos .. pos + k - 1 => Write(mem, pos, bytes)[p] = bytes[p - pos + 1]
          /\ \A p \in DOMAIN mem : p \notin pos .. pos + k - 1 => Write(mem, pos, bytes)[p] = mem[p]
      BY <2>1, <3>1, <3>2, WriteBytes
    <3>4. QED BY <3>1, <3>3
  <2>3. QED BY <2>1, <2>2 DEF pos, bytes
<1> HIDE DEF C, D, S
<1>6. mem'[C(i)] = <<"int", n \div Base>> /\ mem'[C(i) + 1] = <<"int", n % Base>>
  <2>1. C(i) \in Nat /\ C(i) \in DOMAIN mem /\ C(i) + 1 \in DOMAIN mem
    BY <1>1, <1>4
  <2>2. /\ C(i) \in C(i) .. C(i) + 2 - 1 /\ C(i) + 1 \in C(i) .. C(i) + 2 - 1
        /\ C(i) - C(i) + 1 = 1 /\ (C(i) + 1) - C(i) + 1 = 2
    BY <2>1
  <2>3. mem'[C(i)] = CounterBytes(n)[1] /\ mem'[C(i) + 1] = CounterBytes(n)[2]
    BY <1>5, <2>1, <2>2
  <2>4. QED BY <2>3, TwoBytes
<1>7. ASSUME NEW k \in 1 .. Len(frame), k # i
      PROVE  mem'[C(k)] = mem[C(k)] /\ mem'[C(k) + 1] = mem[C(k) + 1]
  <2>1. /\ C(i) \in Nat /\ D(i) \in Nat /\ S(i) \in Nat /\ C(i) + 2 <= D(i)
        /\ C(k) \in Nat /\ D(k) \in Nat /\ S(k) \in Nat /\ C(k) + 2 <= D(k)
        /\ i < k => D(i) + S(i) <= C(k)
        /\ k < i => D(k) + S(k) <= C(i)
        /\ C(k) \in DOMAIN mem /\ C(k) + 1 \in DOMAIN mem
    BY <1>1, <1>4
  <2>2. i < k \/ k < i
    BY <1>1, <1>7
  <2>3. C(k) \notin C(i) .. C(i) + 2 - 1 /\ C(k) + 1 \notin C(i) .. C(i) + 2 - 1
    <3>1. CASE i < k
      <4>1. C(i) + 2 <= C(k)
        BY <2>1, <3>1
      <4>2. QED BY <2>1, <4>1
    <3>2. CASE k < i
      <4>1. C(k) + 2 <= C(i)
        BY <2>1, <3>2
      <4>2. QED BY <2>1, <4>1
    <3>3. QED BY <2>2, <3>1, <3>2
  <2>4. QED BY <1>5, <2>1, <2>3
<1>8. ASSUME NEW k \in 1 .. Len(frame)
      PROVE  /\ k \in DOMAIN asdus
             /\ asdus'[k].smpCnt = IF k = i THEN n ELSE asdus[k].smpCnt
  <2>1. k \in DOMAIN asdus /\ asdus[i] \in ASDU
    BY FrameWithin
  <2>2. [asdus[i] EXCEPT !.smpCnt = n].smpCnt = n
    BY <2>1 DEF ASDU
  <2>3. QED BY <1>3, <2>1, <2>2
<1>9. ASSUME NEW k \in 1 .. Len(frame)
      PROVE  /\ mem'[C(k)] = <<"int", asdus'[k].smpCnt \div Base>>
             /\ mem'[C(k) + 1] = <<"int", asdus'[k].smpCnt % Base>>
  <2>1. CASE k = i
    BY <1>6, <1>8, <2>1
  <2>2. CASE k # i
    <3>1. mem[C(k)] = <<"int", asdus[k].smpCnt \div Base>> /\ mem[C(k) + 1] = <<"int", asdus[k].smpCnt % Base>>
      BY DEF MemInv, C
    <3>2. asdus'[k].smpCnt = asdus[k].smpCnt
      BY <1>8, <2>2
    <3>3. QED BY <1>7, <2>2, <3>1, <3>2
  <2>3. QED BY <2>1, <2>2
<1>10. UNCHANGED frame /\ \A k \in 1 .. Len(frame) : SmpCntBuf(k)' = C(k)
  BY <1>2 DEF SmpCntBuf, C
<1>11. DOMAIN mem = 0 .. Capacity - 1
  BY DEF MemInv
<1>12. QED BY <1>5, <1>9, <1>10, <1>11 DEF MemInv

\* A step that leaves the buffer, the frame and the counters of the frame alone.
LEMMA SameMemInv ==
  ASSUME MemInv, UNCHANGED <<mem, frame>>,
         \A k \in 1 .. Len(frame) : asdus'[k].smpCnt = asdus[k].smpCnt
  PROVE  MemInv'
BY DEF MemInv, SmpCntBuf

LEMMA InitMemInv == Init => MemInv
BY DEF Init, MemInv

\* The counters in the buffer are those of the records after every call that
\* finds the frame in the buffer and leaves it there.
LEMMA NextMemInv ==
  ASSUME IInv, FrameInv, MemInv, FrameFits, FrameFits', [Next]_vars
  PROVE  MemInv'
<1>1. CASE SetupComplete
  BY <1>1, SetupMemInv
<1>2. ASSUME NEW i \in DOMAIN asdus, NEW j \in DOMAIN slots[i], NEW v \in Value, SetValue(i, j, v)
      PROVE  MemInv'
  BY <1>2, SetValueMemInv
<1>3. ASSUME NEW i \in DOMAIN asdus, NEW n, StoreCounter(i, n) PROVE MemInv'
  BY <1>3, StoreCounterMemInv
<1>4. ASSUME NEW i \in DOMAIN asdus, NEW b, b.smpCnt = asdus[i].smpCnt,
             asdus' = [asdus EXCEPT ![i] = b], UNCHANGED <<mem, frame>>
      PROVE  MemInv'
  <2>1. \A k \in 1 .. Len(frame) : k \in DOMAIN asdus
    BY FrameWithin
  <2>2. \A k \in 1 .. Len(frame) : asdus'[k].smpCnt = asdus[k].smpCnt
    BY <1>4, <2>1
  <2>3. QED BY <1>4, <2>2, SameMemInv
<1>5. ASSUME NEW i \in DOMAIN asdus
      PROVE  /\ \A m : [asdus[i] EXCEPT !.dataSize = m].smpCnt = asdus[i].smpCnt
             /\ [asdus[i] EXCEPT !.hasRefrTm = TRUE].smpCnt = asdus[i].smpCnt
             /\ [asdus[i] EXCEPT !.hasSmpMod = TRUE].smpCnt = asdus[i].smpCnt
  <2>1. asdus[i] \in ASDU
    BY FrameWithin
  <2>2. QED BY <2>1 DEF ASDU
<1>6. ASSUME NEW i \in DOMAIN asdus, AddSomeValue(i) \/ ResetBuffer(i) PROVE MemInv'
  <2>1. /\ \E m : asdus' = [asdus EXCEPT ![i] = [asdus[i] EXCEPT !.dataSize = m]]
        /\ UNCHANGED <<mem, frame>>
    BY <1>6 DEF AddSomeValue, AddINT8, AddINT32, AddFLOAT, AddFLOAT64, AddValue, ResetBuffer
  <2>2. QED BY <1>4, <1>5, <2>1
<1>7. ASSUME NEW i \in DOMAIN asdus, SetRefrTm(i) \/ SetSmpMod(i) PROVE MemInv'
  BY <1>4, <1>5, <1>7 DEF SetRefrTm, SetSmpMod
<1>8. ASSUME NEW name \in NameLens, NEW datset \in DatSetLens, AddASDU(name, datset)
      PROVE  MemInv'
  <2>1. asdus \in Seq(ASDU) /\ asdus' = Append(asdus, NewASDU(name, datset)) /\ UNCHANGED <<mem, frame>>
    BY <1>8 DEF AddASDU, IInv, HandleTypeOK
  <2>2. \A k \in 1 .. Len(asdus) : asdus'[k] = asdus[k]
    BY <2>1
  <2>3. QED BY <2>1, <2>2, FrameWithin, SameMemInv
<1>9. CASE Create \/ Publish \/ Destroy \/ UNCHANGED vars
  BY <1>9, SameMemInv DEF Create, Publish, Destroy, vars
<1>10. QED
  BY <1>1, <1>2, <1>3, <1>6, <1>7, <1>8, <1>9 DEF Next, SetSmpCnt, IncreaseSmpCnt

\* For any number of ASDUs and values: as long as what setup lays out fits the
\* buffer, the counter a reader finds in the buffer is the one of the record,
\* whatever values are set, and whichever of the two the caller asks to change.
THEOREM CountersAgree == Spec /\ []FrameFits => []CounterInFrame
<1> DEFINE J == IInv /\ FrameInv /\ MemInv
<1>1. Init => J
  BY InitIInv, InitFrameInv, InitMemInv
<1>2. J /\ FrameFits /\ FrameFits' /\ [Next]_vars => J'
  BY NextIInv, NextFrameInv, NextMemInv
<1>3. J => CounterInFrame
  BY CounterFromBytes
<1> HIDE DEF J
<1>4. QED BY <1>1, <1>2, <1>3, PTL DEF Spec

-----------------------------------------------------------------------------
(* The values in the buffer. *)

\* What SvStream sees of the handle.
Cnt    == [i \in DOMAIN asdus |-> asdus[i].smpCnt]
Row(i) == [j \in DOMAIN slots[i] |-> ReadSlot(i, slots[i][j])]
Vals   == [i \in DOMAIN slots |-> Row(i)]

\* A frame is on the wire only after a setup, and then it is not empty.
WireInv == wire = <<>> \/ 1 \in DOMAIN asdus

\* A value is one the caller may have set, or none.
LEMMA ReadSlotContent ==
  ASSUME NEW i, NEW s
  PROVE  ReadSlot(i, s) \in Value \cup {Unset}
BY DEF ReadSlot

\* A value reads the same as long as its bytes stay.
LEMMA ReadSlotSame ==
  ASSUME NEW i, NEW s, frame' = frame,
         InFrame(i, s) => \A k \in 1 .. s.size :
            mem'[DataBuffer(i) + s.index + k - 1] = mem[DataBuffer(i) + s.index + k - 1]
  PROVE  ReadSlot(i, s)' = ReadSlot(i, s)
<1>1. InFrame(i, s)' = InFrame(i, s) /\ DataBuffer(i)' = DataBuffer(i)
  BY DEF InFrame, LaidOut, DataBuffer
<1>2. CASE ~InFrame(i, s)
  BY <1>1, <1>2 DEF ReadSlot
<1>3. CASE InFrame(i, s)
  <2> DEFINE at == DataBuffer(i) + s.index
             old == {x \in Value : \A k \in 1 .. s.size : mem[at + k - 1] = <<"val", x, k>>}
             new == {x \in Value : \A k \in 1 .. s.size : mem'[at + k - 1] = <<"val", x, k>>}
  <2>1. old = new
    BY <1>3
  <2>2. ReadSlot(i, s) = IF old # {} THEN CHOOSE x \in old : TRUE ELSE Unset
    BY <1>3 DEF ReadSlot
  <2>3. ReadSlot(i, s)' = IF new # {} THEN CHOOSE x \in new : TRUE ELSE Unset
    BY <1>1, <1>3 DEF ReadSlot
  <2> HIDE DEF old, new
  <2>4. QED BY <2>1, <2>2, <2>3
<1>4. QED BY <1>2, <1>3

\* The bytes of a value are in the buffer, inside the data of its ASDU.
LEMMA SlotPlace ==
  ASSUME FrameInv, MemInv, FrameFits, NEW i, NEW s \in Slot, InFrame(i, s), NEW k \in 1 .. s.size
  PROVE  /\ i \in 1 .. Len(frame)
         /\ DataBuffer(i) + s.index + k - 1 \in Int
         /\ DataBuffer(i) + s.index + k - 1 \in DOMAIN mem
         /\ DataBuffer(i) <= DataBuffer(i) + s.index + k - 1
         /\ DataBuffer(i) + s.index + k - 1 < DataBuffer(i) + frame[i].dataSize
<1> DEFINE D == DataBuffer(i)
           S == frame[i].dataSize
           C == SmpCntBuf(i)
           x == s.index
           n == s.size
<1>1. i \in 1 .. Len(frame)
  BY DEF InFrame, LaidOut, FrameInv, IsList
<1>2. D \in Nat /\ S \in Nat /\ C \in Nat /\ C + 2 <= D /\ D + S <= Capacity
  BY <1>1, FramePlaces
<1>3. x \in Nat /\ n \in Nat /\ x + n <= S
  BY DEF Slot, InFrame
<1>4. Capacity \in Nat /\ DOMAIN mem = 0 .. Capacity - 1
  BY ConstantsAssumption DEF MemInv
<1> HIDE DEF D, S, C, x, n
<1>5. k \in 1 .. n
  BY DEF n
<1>6. D + x + k - 1 \in Int /\ D <= D + x + k - 1 /\ D + x + k - 1 < D + S /\ D + x + k - 1 \in 0 .. Capacity - 1
  BY <1>2, <1>3, <1>4, <1>5
<1>7. QED BY <1>1, <1>4, <1>6 DEF D, S, x

\* A step that leaves the frame and the data bytes alone changes no value.
LEMMA ReadSlotsKept ==
  ASSUME frame' = frame, mem' = mem
  PROVE  \A i, s : ReadSlot(i, s)' = ReadSlot(i, s)
BY ReadSlotSame

\* Storing a counter changes no value.
LEMMA StoreCounterKeepsValues ==
  ASSUME IInv, FrameInv, MemInv, FrameFits,
         NEW i \in DOMAIN asdus, NEW n, StoreCounter(i, n),
         NEW h, NEW s \in Slot
  PROVE  ReadSlot(h, s)' = ReadSlot(h, s)
<1>1. i \in 1 .. Len(frame) /\ frame' = frame
  BY FrameWithin DEF StoreCounter, LaidOut
<1>2. SUFFICES ASSUME InFrame(h, s), NEW k \in 1 .. s.size
               PROVE  mem'[DataBuffer(h) + s.index + k - 1] = mem[DataBuffer(h) + s.index + k - 1]
  BY <1>1, ReadSlotSame
<1> DEFINE p == DataBuffer(h) + s.index + k - 1
           C == SmpCntBuf(i)
           bytes == CounterBytes(n)
<1>3. /\ h \in 1 .. Len(frame) /\ p \in Int /\ p \in DOMAIN mem
      /\ DataBuffer(h) <= p /\ p < DataBuffer(h) + frame[h].dataSize
  BY <1>2, SlotPlace
<1>4. p # C /\ p # C + 1
  <2> HIDE DEF p
  <2>1. QED BY <1>1, <1>3, DataMissesCounters
<1>5. C \in Nat
  BY <1>1, FramePlaces
<1>6. mem' = Write(mem, C, bytes) /\ Len(bytes) = 2
  BY TwoBytes DEF StoreCounter
<1> HIDE DEF p, C, bytes
<1>7. p \notin C .. C + 2 - 1
  BY <1>3, <1>4, <1>5
<1>8. mem'[p] = mem[p]
  BY <1>3, <1>6, <1>7 DEF Write
<1>9. QED BY <1>8 DEF p

\* The data of two ASDUs of a frame are apart.
LEMMA DataApart ==
  ASSUME FrameInv, FrameFits, NEW i \in 1 .. Len(frame), NEW h \in 1 .. Len(frame), i # h,
         NEW p \in Int, DataBuffer(i) <= p, p < DataBuffer(i) + frame[i].dataSize
  PROVE  p < DataBuffer(h) \/ DataBuffer(h) + frame[h].dataSize <= p
<1> DEFINE C(n) == SmpCntBuf(n)
           D(n) == DataBuffer(n)
           S(n) == frame[n].dataSize
<1>1. /\ C(i) \in Nat /\ D(i) \in Nat /\ S(i) \in Nat /\ C(i) + 2 <= D(i)
      /\ C(h) \in Nat /\ D(h) \in Nat /\ S(h) \in Nat /\ C(h) + 2 <= D(h)
      /\ i < h => D(i) + S(i) <= C(h)
      /\ h < i => D(h) + S(h) <= C(i)
  BY FramePlaces
<1>2. D(i) <= p /\ p < D(i) + S(i)
  OBVIOUS
<1> HIDE DEF C, D, S
<1>3. i < h \/ h < i
  OBVIOUS
<1>4. p < D(h) \/ D(h) + S(h) <= p
  <2>1. CASE i < h
    BY <1>1, <1>2, <2>1
  <2>2. CASE h < i
    BY <1>1, <1>2, <2>2
  <2>3. QED BY <1>3, <2>1, <2>2
<1>5. QED BY <1>4 DEF D, S

\* Setting a value writes its bytes.
LEMMA SetValueReads ==
  ASSUME IInv, FrameInv, MemInv, FrameFits,
         NEW i \in DOMAIN asdus, NEW j \in DOMAIN slots[i], NEW v \in Value, SetValue(i, j, v)
  PROVE  ReadSlot(i, slots[i][j])' = v
<1> DEFINE s == slots[i][j]
           at == DataBuffer(i) + s.index
           bytes == ValueBytes(v, s.size)
           new == {x \in Value : \A k \in 1 .. s.size : mem'[at + k - 1] = <<"val", x, k>>}
<1>1. s \in Slot /\ InFrame(i, s) /\ s.size \in Nat /\ s.size >= 1 /\ s.index \in Nat
  <2>1. s \in Slot
    BY FrameWithin
  <2>2. InFrame(i, s)
    BY DEF SetValue
  <2> HIDE DEF s
  <2>3. QED BY <2>1, <2>2 DEF Slot
<1>2. InFrame(i, s)' /\ DataBuffer(i)' = DataBuffer(i) /\ s' = s
  BY <1>1 DEF SetValue, InFrame, LaidOut, DataBuffer
<1>3. mem' = Write(mem, at, bytes)
  BY DEF SetValue
<1>4. at \in Nat
  <2>1. i \in 1 .. Len(frame) /\ DataBuffer(i) \in Nat
    BY <1>1, FramePlaces DEF InFrame, LaidOut, FrameInv, IsList
  <2>2. QED BY <1>1, <2>1
<1>5. Len(bytes) = s.size /\ \A k \in 1 .. s.size : bytes[k] = <<"val", v, k>>
  <2> DEFINE n == s.size
  <2> HIDE DEF n
  <2>1. n \in Nat
    BY <1>1 DEF n
  <2>2. Len(ValueBytes(v, n)) = n /\ \A k \in 1 .. n : ValueBytes(v, n)[k] = <<"val", v, k>>
    BY <2>1 DEF ValueBytes
  <2>3. QED BY <2>2 DEF n
<1>6. ASSUME NEW k \in 1 .. s.size PROVE mem'[at + k - 1] = <<"val", v, k>>
  <2> DEFINE p == at + k - 1
             n == s.size
  <2>1. p \in DOMAIN mem
    BY <1>1, SlotPlace
  <2>2. n \in Nat /\ Len(bytes) = n /\ k \in 1 .. n
    BY <1>1, <1>5
  <2> HIDE DEF at, n, bytes
  <2>3. p \in at .. at + n - 1 /\ p - at + 1 = k
    BY <1>4, <2>2
  <2>4. mem'[p] = bytes[p - at + 1]
    BY <1>3, <2>1, <2>2, <2>3 DEF Write
  <2>5. QED BY <1>5, <2>3, <2>4
<1>7. new = {v}
  <2>1. v \in new
    BY <1>6
  <2>2. ASSUME NEW x \in new PROVE x = v
    <3>1. 1 \in 1 .. s.size
      BY <1>1
    <3>2. <<"val", x, 1>> = <<"val", v, 1>>
      BY <1>6, <3>1
    <3>3. QED BY <3>2
  <2>3. QED BY <2>1, <2>2
<1>8. ReadSlot(i, s)' = IF new # {} THEN CHOOSE x \in new : TRUE ELSE Unset
  BY <1>2 DEF ReadSlot
<1> HIDE DEF new, s
<1>9. ReadSlot(i, s)' = v
  BY <1>7, <1>8
<1>10. QED BY <1>9 DEF s

\* Setting a value changes no other: the values of an ASDU share no byte, and
\* the data of two ASDUs neither.
LEMMA SetValueKeepsOthers ==
  ASSUME IInv, FrameInv, MemInv, FrameFits,
         NEW i \in DOMAIN asdus, NEW j \in DOMAIN slots[i], NEW v \in Value, SetValue(i, j, v),
         NEW h \in DOMAIN slots, NEW l \in DOMAIN slots[h], h # i \/ l # j
  PROVE  ReadSlot(h, slots[h][l])' = ReadSlot(h, slots[h][l])
<1> DEFINE s == slots[i][j]
           r == slots[h][l]
<1>1. /\ s \in Slot /\ InFrame(i, s) /\ s.size \in Nat /\ s.index \in Nat
      /\ r \in Slot /\ r.size \in Nat /\ r.index \in Nat /\ slots' = slots /\ frame' = frame
      /\ i \in DOMAIN slots
  <2>1. s \in Slot /\ r \in Slot /\ i \in DOMAIN slots
    BY FrameWithin
  <2>2. InFrame(i, s) /\ slots' = slots /\ frame' = frame
    BY DEF SetValue
  <2> HIDE DEF s, r
  <2>3. QED BY <2>1, <2>2 DEF Slot
<1>2. SUFFICES ASSUME InFrame(h, r), NEW k \in 1 .. r.size
               PROVE  mem'[DataBuffer(h) + r.index + k - 1] = mem[DataBuffer(h) + r.index + k - 1]
  <2>1. \A q : (InFrame(h, q) => \A k \in 1 .. q.size :
                   mem'[DataBuffer(h) + q.index + k - 1] = mem[DataBuffer(h) + q.index + k - 1])
               => ReadSlot(h, q)' = ReadSlot(h, q)
    BY <1>1, ReadSlotSame
  <2>2. \A q : q = r => ReadSlot(h, q)' = ReadSlot(h, q)
    BY <1>2, <2>1
  <2>3. \A q : q = r => ReadSlot(h, slots[h][l])' = ReadSlot(h, q)'
    BY <1>1
  <2>4. QED BY <2>2, <2>3
<1> DEFINE p == DataBuffer(h) + r.index + k - 1
           D == DataBuffer(i)
           S == frame[i].dataSize
           x == s.index
           n == s.size
           bytes == ValueBytes(v, n)
<1>3. /\ h \in 1 .. Len(frame) /\ p \in Int /\ p \in DOMAIN mem
      /\ DataBuffer(h) <= p /\ p < DataBuffer(h) + frame[h].dataSize
  BY <1>1, <1>2, SlotPlace
<1>4. i \in 1 .. Len(frame) /\ D \in Nat /\ S \in Nat /\ x \in Nat /\ n \in Nat /\ x + n <= S
  BY <1>1, FramePlaces DEF InFrame, LaidOut, FrameInv, IsList
<1>5. mem' = Write(mem, D + x, bytes)
  BY DEF SetValue
<1>6. Len(bytes) = n
  <2> HIDE DEF n
  <2>1. QED BY <1>4 DEF ValueBytes
<1>7. p < D + x \/ D + x + n <= p
  <2>1. CASE h # i
    <3>1. p < D \/ D + S <= p
      <4> HIDE DEF p
      <4>1. QED BY <1>3, <1>4, <2>1, DataApart
    <3> HIDE DEF p, D, S, x, n
    <3>2. QED BY <1>3, <1>4, <3>1
  <2>2. CASE h = i
    <3> DEFINE y == r.index
               m == r.size
    <3>1. l # j /\ l \in DOMAIN slots[i] /\ r = slots[i][l]
      BY <2>2
    <3>2. l \in Int /\ j \in Int
      BY <1>1, <3>1, FrameWithin
    <3>3. /\ j < l => x + n <= y
          /\ l < j => y + m <= x
      BY <1>1, <3>1 DEF IInv, SlotsDisjoint
    <3>4. p = D + y + k - 1 /\ k \in 1 .. m /\ y \in Nat /\ m \in Nat
      BY <1>1, <2>2
    <3> HIDE DEF p, D, x, n, y, m
    <3>5. QED BY <1>4, <3>1, <3>2, <3>3, <3>4
  <2>3. QED BY <2>1, <2>2
<1> HIDE DEF p, D, x, n, bytes
<1>8. p \notin D + x .. D + x + n - 1
  BY <1>3, <1>4, <1>7
<1>9. mem'[p] = mem[p]
  BY <1>3, <1>5, <1>6, <1>8 DEF Write
<1>10. QED BY <1>9 DEF p

-----------------------------------------------------------------------------
(* The handle implements SvStream. *)

\* The rows and counters as sequences.
LEMMA Shapes ==
  ASSUME IInv
  PROVE  /\ Len(asdus) \in Nat /\ DOMAIN asdus = 1 .. Len(asdus) /\ DOMAIN slots = DOMAIN asdus
         /\ DOMAIN Cnt = DOMAIN asdus /\ DOMAIN Vals = DOMAIN slots
         /\ Cnt \in Seq(0 .. CounterSize - 1) /\ Len(Cnt) = Len(asdus)
         /\ \A i \in DOMAIN asdus : Cnt[i] \in 0 .. CounterSize - 1
         /\ Vals \in Seq(Seq(Value \cup {Unset})) /\ Len(Vals) = Len(asdus)
         /\ \A i \in DOMAIN slots :
              /\ Vals[i] = Row(i) /\ Row(i) \in Seq(Value \cup {Unset})
              /\ Len(Row(i)) = Len(slots[i]) /\ DOMAIN Row(i) = DOMAIN slots[i]
              /\ DOMAIN slots[i] = 1 .. Len(slots[i]) /\ Len(slots[i]) \in Nat
<1> DEFINE N == Len(asdus)
<1>1. /\ N \in Nat /\ DOMAIN asdus = 1 .. N /\ DOMAIN slots = 1 .. N
      /\ \A i \in 1 .. N : asdus[i] \in ASDU /\ slots[i] \in Seq(Slot)
  BY DEF IInv, HandleTypeOK
<1> HIDE DEF N
<1>2. DOMAIN Cnt = 1 .. N /\ \A i \in 1 .. N : Cnt[i] \in 0 .. CounterSize - 1
  BY <1>1 DEF Cnt, ASDU
<1>3. Cnt \in Seq(0 .. CounterSize - 1) /\ Len(Cnt) = N
  <2>1. Cnt = [i \in 1 .. N |-> asdus[i].smpCnt]
    BY <1>1 DEF Cnt
  <2>2. QED BY <1>1, <1>2, <2>1
<1>4. ASSUME NEW i \in 1 .. N
      PROVE  /\ Row(i) \in Seq(Value \cup {Unset})
             /\ Len(Row(i)) = Len(slots[i]) /\ DOMAIN Row(i) = DOMAIN slots[i]
             /\ DOMAIN slots[i] = 1 .. Len(slots[i]) /\ Len(slots[i]) \in Nat
  <2> DEFINE n == Len(slots[i])
  <2>1. n \in Nat /\ DOMAIN slots[i] = 1 .. n
    BY <1>1
  <2> HIDE DEF n
  <2>2. Row(i) = [j \in 1 .. n |-> ReadSlot(i, slots[i][j])]
    BY <2>1 DEF Row
  <2>3. \A j \in 1 .. n : ReadSlot(i, slots[i][j]) \in Value \cup {Unset}
    BY ReadSlotContent
  <2>4. Row(i) \in Seq(Value \cup {Unset}) /\ Len(Row(i)) = n /\ DOMAIN Row(i) = 1 .. n
    BY <2>1, <2>2, <2>3
  <2>5. QED BY <2>1, <2>4 DEF n
<1>5. Vals = [i \in 1 .. N |-> Row(i)]
  BY <1>1 DEF Vals
<1>6. Vals \in Seq(Seq(Value \cup {Unset})) /\ Len(Vals) = N /\ DOMAIN Vals = 1 .. N
  BY <1>1, <1>4, <1>5
<1>7. QED BY <1>1, <1>2, <1>3, <1>4, <1>5, <1>6 DEF N

\* A step that changes neither frame nor buffer keeps each row whose slots stay.
LEMMA RowKept ==
  ASSUME frame' = frame, mem' = mem, NEW i, slots'[i] = slots[i]
  PROVE  Row(i)' = Row(i)
<1>1. \A s : ReadSlot(i, s)' = ReadSlot(i, s)
  BY ReadSlotsKept
<1>2. ASSUME NEW j PROVE ReadSlot(i, slots[i][j])' = ReadSlot(i, slots[i][j])
  <2>1. PICK s : s = slots[i][j]
    OBVIOUS
  <2>2. slots'[i][j] = s
    BY <2>1
  <2>3. ReadSlot(i, slots[i][j])' = ReadSlot(i, s)'
    BY <2>2
  <2>4. QED BY <1>1, <2>1, <2>3
<1>3. Row(i)' = [j \in DOMAIN slots'[i] |-> ReadSlot(i, slots[i][j])']
  BY DEF Row
<1>4. QED BY <1>2, <1>3 DEF Row

\* A row without slots is empty.
LEMMA RowEmpty ==
  ASSUME NEW i, slots'[i] = <<>>
  PROVE  Row(i)' = <<>>
<1>1. Row(i)' = [j \in DOMAIN slots'[i] |-> ReadSlot(i, slots[i][j])']
  BY DEF Row
<1>2. DOMAIN slots'[i] = {}
  OBVIOUS
<1>3. QED BY <1>1, <1>2

\* What SvStream sees of a step that adds nothing and stores nothing.
LEMMA NothingSeen ==
  ASSUME IInv, UNCHANGED <<slots, frame, mem>>,
         DOMAIN asdus' = DOMAIN asdus,
         \A i \in DOMAIN asdus : asdus'[i].smpCnt = asdus[i].smpCnt
  PROVE  Cnt' = Cnt /\ Vals' = Vals
<1>1. Cnt' = Cnt
  BY DEF Cnt
<1>2. \A i \in DOMAIN slots : Row(i)' = Row(i)
  BY RowKept
<1>3. QED BY <1>1, <1>2 DEF Vals

\* A store of the abstract specification is one of its steps.
LEMMA StoreIsNext ==
  ASSUME NEW i \in DOMAIN Cnt, NEW n \in 0 .. CounterSize - 1, Stream!SetSmpCnt(i, n)
  PROVE  Stream!Next
BY DEF Stream!Next, Cnt

\* A step that ends the snapshot and is not seen otherwise: a stutter, or the
\* store of the counter that is there.
LEMMA SilentStep ==
  ASSUME IInv, WireInv, Cnt' = Cnt, Vals' = Vals, frame' = frame, wire' = <<>>
  PROVE  [Stream!Next]_(Stream!vars)
<1>1. CASE wire = <<>>
  <2>1. UNCHANGED Stream!vars
    BY <1>1 DEF Stream!vars, Cnt, Vals, Row
  <2>2. QED BY <2>1
<1>2. CASE 1 \in DOMAIN asdus
  <2>1. Cnt[1] \in 0 .. CounterSize - 1 /\ 1 \in DOMAIN Cnt
    BY <1>2, Shapes
  <2>2. PICK i \in DOMAIN Cnt, n \in 0 .. CounterSize - 1 : n = Cnt[i]
    BY <2>1
  <2>3. Cnt' = [Cnt EXCEPT ![i] = n]
    BY <2>2 DEF Cnt
  <2>4. Stream!SetSmpCnt(i, n)
    BY <2>3 DEF Stream!SetSmpCnt, Cnt, Vals, Row
  <2>5. QED BY <2>4, StoreIsNext
<1>3. QED BY <1>1, <1>2 DEF WireInv

LEMMA AddASDURefines ==
  ASSUME IInv, NEW name \in NameLens, NEW datset \in DatSetLens, AddASDU(name, datset)
  PROVE  Stream!AddASDU
<1> DEFINE N == Len(asdus)
           new == NewASDU(name, datset)
<1>1. /\ asdus \in Seq(ASDU) /\ slots \in Seq(Seq(Slot)) /\ Len(slots) = N /\ N \in Nat
      /\ DOMAIN asdus = 1 .. N /\ DOMAIN slots = 1 .. N
  BY DEF IInv, HandleTypeOK
<1>2. new.smpCnt = 0
  BY DEF NewASDU
<1>3. /\ asdus' = Append(asdus, new) /\ slots' = Append(slots, <<>>)
      /\ frame' = frame /\ mem' = mem /\ wire' = <<>>
  BY DEF AddASDU
<1> HIDE DEF new
<1>4. /\ DOMAIN asdus' = 1 .. N + 1 /\ DOMAIN slots' = 1 .. N + 1
      /\ \A i \in 1 .. N : asdus'[i] = asdus[i] /\ slots'[i] = slots[i]
      /\ asdus'[N + 1] = new /\ slots'[N + 1] = <<>>
  BY <1>1, <1>3
<1> HIDE DEF N
<1>5. Cnt' = Append(Cnt, 0)
  <2>1. Cnt' = [i \in 1 .. N + 1 |-> asdus'[i].smpCnt]
    BY <1>4 DEF Cnt
  <2>2. Cnt = [i \in 1 .. N |-> asdus[i].smpCnt] /\ Len(Cnt) = N
    BY <1>1, Shapes DEF Cnt, N
  <2>3. Append(Cnt, 0) = [i \in 1 .. N + 1 |-> IF i = N + 1 THEN 0 ELSE Cnt[i]]
    BY <1>1, <2>2, Shapes
  <2>4. \A i \in 1 .. N + 1 : asdus'[i].smpCnt = IF i = N + 1 THEN 0 ELSE Cnt[i]
    BY <1>1, <1>2, <1>4, <2>2
  <2>5. QED BY <2>1, <2>3, <2>4
<1>6. Vals' = Append(Vals, <<>>)
  <2>1. Vals' = [i \in 1 .. N + 1 |-> Row(i)']
    BY <1>4 DEF Vals
  <2>2. Vals = [i \in 1 .. N |-> Row(i)] /\ Len(Vals) = N
    BY <1>1, Shapes DEF Vals, N
  <2>3. Append(Vals, <<>>) = [i \in 1 .. N + 1 |-> IF i = N + 1 THEN <<>> ELSE Vals[i]]
    BY <1>1, <2>2, Shapes
  <2>4. \A i \in 1 .. N : Row(i)' = Row(i)
    BY <1>3, <1>4, RowKept
  <2>5. \A i : i = N + 1 => Row(i)' = <<>>
    BY <1>4, RowEmpty
  <2>6. \A i \in 1 .. N + 1 : Row(i)' = IF i = N + 1 THEN <<>> ELSE Vals[i]
    BY <1>1, <2>2, <2>4, <2>5
  <2>7. QED BY <2>1, <2>3, <2>6
<1>7. QED BY <1>3, <1>5, <1>6 DEF Stream!AddASDU, Cnt, Vals, Row

\* Append, entry by entry.
LEMMA AppendEntries ==
  ASSUME NEW S, NEW s \in Seq(S), NEW x \in S, NEW n \in Nat, Len(s) = n
  PROVE  Append(s, x) = [j \in 1 .. n + 1 |-> IF j = n + 1 THEN x ELSE s[j]]
<1>1. /\ Append(s, x) \in Seq(S) /\ Len(Append(s, x)) = n + 1
      /\ \A j \in 1 .. n : Append(s, x)[j] = s[j]
      /\ Append(s, x)[n + 1] = x
  BY AppendProperties
<1>2. DOMAIN Append(s, x) = 1 .. n + 1
  BY <1>1
<1>3. Append(s, x) = [j \in 1 .. n + 1 |-> Append(s, x)[j]]
  <2> DEFINE q == Append(s, x)
  <2>1. q \in Seq(S) /\ Len(q) = n + 1
    BY <1>1
  <2> HIDE DEF q
  <2>2. q \in [1 .. n + 1 -> S]
    BY <2>1, LenProperties
  <2>3. q = [j \in 1 .. n + 1 |-> q[j]]
    BY <2>2
  <2>4. QED BY <2>3 DEF q
<1>4. \A j \in 1 .. n + 1 : Append(s, x)[j] = IF j = n + 1 THEN x ELSE s[j]
  BY <1>1
<1>5. QED BY <1>3, <1>4

\* The remaining steps of the abstract specification.
LEMMA RowIsNext ==
  ASSUME NEW i \in DOMAIN Cnt,
         \/ Stream!AddValue(i) \/ Stream!ResetBuffer(i)
         \/ \E j \in DOMAIN Vals[i], v \in Value : Stream!SetValue(i, j, v)
  PROVE  Stream!Next
BY DEF Stream!Next, Cnt, Vals, Row

\* A step that changes the slots of one ASDU only.
LEMMA OneRow ==
  ASSUME IInv, NEW i \in DOMAIN slots, NEW t, slots' = [slots EXCEPT ![i] = t],
         frame' = frame, mem' = mem
  PROVE  Vals' = [Vals EXCEPT ![i] = Row(i)']
<1>1. \A h \in DOMAIN slots : h # i => Row(h)' = Row(h)
  BY RowKept
<1>2. DOMAIN slots' = DOMAIN slots
  OBVIOUS
<1>3. Vals' = [h \in DOMAIN slots |-> Row(h)']
  BY <1>2 DEF Vals
<1>4. [Vals EXCEPT ![i] = Row(i)'] = [h \in DOMAIN slots |-> IF h = i THEN Row(i)' ELSE Row(h)]
  BY DEF Vals
<1>5. \A h \in DOMAIN slots : Row(h)' = IF h = i THEN Row(i)' ELSE Row(h)
  BY <1>1
<1>6. QED BY <1>3, <1>4, <1>5

LEMMA AddValueRefines ==
  ASSUME IInv, NEW i \in DOMAIN asdus, NEW size \in Nat \ {0}, AddValue(i, size)
  PROVE  Stream!Next
<1> DEFINE new == [index |-> asdus[i].dataSize, size |-> size]
           n == Len(slots[i])
<1>1. /\ DOMAIN slots = DOMAIN asdus /\ slots[i] \in Seq(Slot) /\ asdus[i] \in ASDU
      /\ n \in Nat /\ DOMAIN slots[i] = 1 .. n
      /\ DOMAIN Cnt = DOMAIN asdus /\ Vals[i] = Row(i) /\ DOMAIN Vals = DOMAIN slots
      /\ Row(i) \in Seq(Value \cup {Unset}) /\ Len(Row(i)) = n
  BY Shapes DEF IInv, HandleTypeOK
<1>2. /\ slots' = [slots EXCEPT ![i] = Append(slots[i], new)]
      /\ asdus' = [asdus EXCEPT ![i] = [asdus[i] EXCEPT !.dataSize = asdus[i].dataSize + size]]
      /\ frame' = frame /\ mem' = mem /\ wire' = <<>>
  BY DEF AddValue
<1>3. Cnt' = Cnt
  <2>1. [asdus[i] EXCEPT !.dataSize = asdus[i].dataSize + size].smpCnt = asdus[i].smpCnt
    BY <1>1 DEF ASDU
  <2>2. QED BY <1>2, <2>1 DEF Cnt
<1> DEFINE x == ReadSlot(i, new)
<1>4. x \in Value \cup {Unset}
  BY ReadSlotContent
<1>5. Row(i)' = Append(Row(i), x)
  <2>1. /\ slots'[i] = Append(slots[i], new)
        /\ DOMAIN slots'[i] = 1 .. n + 1
        /\ slots'[i][n + 1] = new
        /\ \A j \in 1 .. n : slots'[i][j] = slots[i][j]
    BY <1>1, <1>2
  <2>2. Row(i)' = [j \in DOMAIN slots'[i] |-> ReadSlot(i, slots[i][j])']
    BY DEF Row
  <2>3. \A s : ReadSlot(i, s)' = ReadSlot(i, s)
    BY <1>2, ReadSlotsKept
  <2> HIDE DEF n, x, new
  <2>4. ASSUME NEW j \in 1 .. n + 1
        PROVE  ReadSlot(i, slots[i][j])' = IF j = n + 1 THEN x ELSE Row(i)[j]
    <3>1. PICK s : s = slots'[i][j]
      OBVIOUS
    <3>2. ReadSlot(i, slots[i][j])' = ReadSlot(i, s)'
      BY <3>1
    <3>3. ReadSlot(i, slots[i][j])' = ReadSlot(i, s)
      BY <2>3, <3>2
    <3>4. CASE j = n + 1
      BY <2>1, <3>1, <3>3, <3>4 DEF x
    <3>5. CASE j \in 1 .. n
      <4>1. s = slots[i][j]
        BY <2>1, <3>1, <3>5
      <4>2. Row(i)[j] = ReadSlot(i, slots[i][j])
        BY <1>1, <3>5 DEF Row
      <4>3. j # n + 1
        BY <1>1, <3>5
      <4>4. QED BY <3>3, <4>1, <4>2, <4>3
    <3>6. QED BY <1>1, <3>4, <3>5
  <2>5. Append(Row(i), x) = [j \in 1 .. n + 1 |-> IF j = n + 1 THEN x ELSE Row(i)[j]]
    <3> DEFINE row == Row(i)
    <3>1. row \in Seq(Value \cup {Unset}) /\ Len(row) = n
      BY <1>1
    <3> HIDE DEF row
    <3>2. Append(row, x) = [j \in 1 .. n + 1 |-> IF j = n + 1 THEN x ELSE row[j]]
      BY <1>1, <1>4, <3>1, AppendEntries
    <3>3. QED BY <3>2 DEF row
  <2>6. QED BY <2>1, <2>2, <2>4, <2>5
<1>6. Vals' = [Vals EXCEPT ![i] = Append(Vals[i], x)]
  <2>1. Vals' = [Vals EXCEPT ![i] = Row(i)']
    BY <1>1, <1>2, OneRow
  <2>2. QED BY <1>1, <1>5, <2>1
<1>7. Stream!AddValue(i)
  <2> HIDE DEF x
  <2>1. \E y \in Value \cup {Unset} : Vals' = [Vals EXCEPT ![i] = Append(Vals[i], y)]
    BY <1>4, <1>6
  <2>2. QED BY <1>2, <1>3, <2>1 DEF Stream!AddValue, Stream!Content, Cnt, Vals, Row
<1>8. QED BY <1>1, <1>7, RowIsNext

LEMMA ResetBufferRefines ==
  ASSUME IInv, NEW i \in DOMAIN asdus, ResetBuffer(i)
  PROVE  Stream!Next
<1>1. DOMAIN slots = DOMAIN asdus /\ asdus[i] \in ASDU /\ DOMAIN Cnt = DOMAIN asdus
  BY Shapes DEF IInv, HandleTypeOK
<1>2. /\ slots' = [slots EXCEPT ![i] = <<>>]
      /\ asdus' = [asdus EXCEPT ![i] = [asdus[i] EXCEPT !.dataSize = 0]]
      /\ frame' = frame /\ mem' = mem /\ wire' = <<>>
  BY DEF ResetBuffer
<1>3. Cnt' = Cnt
  <2>1. [asdus[i] EXCEPT !.dataSize = 0].smpCnt = asdus[i].smpCnt
    BY <1>1 DEF ASDU
  <2>2. QED BY <1>2, <2>1 DEF Cnt
<1>4. Vals' = [Vals EXCEPT ![i] = <<>>]
  <2>1. Row(i)' = <<>>
    BY <1>1, <1>2, RowEmpty
  <2>2. Vals' = [Vals EXCEPT ![i] = Row(i)']
    BY <1>1, <1>2, OneRow
  <2>3. QED BY <2>1, <2>2
<1>5. Stream!ResetBuffer(i)
  BY <1>2, <1>3, <1>4 DEF Stream!ResetBuffer, Cnt, Vals, Row
<1>6. QED BY <1>1, <1>5, RowIsNext

LEMMA SetupRefines ==
  ASSUME IInv, SetupComplete
  PROVE  Stream!SetupComplete
<1>1. slots' = slots /\ asdus' = asdus /\ wire' = <<>>
  BY DEF SetupComplete
<1>3. Cnt' = Cnt
  BY <1>1 DEF Cnt
<1>4. Len(frame') = Len(Cnt)
  BY SetupFrame, Shapes
<1>5. DOMAIN Vals' = DOMAIN Vals
  BY <1>1 DEF Vals
<1>6. \A i \in DOMAIN slots : Vals[i] = Row(i) /\ Vals'[i] = Row(i)'
  BY <1>1 DEF Vals
<1>7. ASSUME NEW i \in DOMAIN Vals
      PROVE  /\ Len(Vals'[i]) = Len(Vals[i])
             /\ \A j \in DOMAIN Vals[i] : Vals'[i][j] \in Value \cup {Unset}
  <2>1. i \in DOMAIN slots /\ i \in DOMAIN slots'
    BY <1>1 DEF Vals
  <2>2. /\ Row(i) \in Seq(Value \cup {Unset}) /\ Len(Row(i)) = Len(slots[i])
        /\ DOMAIN Row(i) = DOMAIN slots[i]
    BY <2>1, Shapes
  <2> DEFINE n == Len(slots[i])
  <2>3. n \in Nat /\ DOMAIN slots[i] = 1 .. n
    BY <2>1, Shapes
  <2>4. Row(i)' = [j \in DOMAIN slots[i] |-> ReadSlot(i, slots[i][j])']
    BY <1>1 DEF Row
  <2>5. \A j : ReadSlot(i, slots[i][j])' \in Value \cup {Unset}
    BY DEF ReadSlot
  <2> HIDE DEF n
  <2>6. Len(Row(i)') = n /\ \A j \in 1 .. n : Row(i)'[j] \in Value \cup {Unset}
    BY <2>3, <2>4, <2>5
  <2>7. QED BY <1>6, <2>1, <2>2, <2>3, <2>6 DEF n
<1>8. QED
  BY <1>1, <1>3, <1>4, <1>5, <1>7 DEF Stream!SetupComplete, Stream!Content, Cnt, Vals, Row

LEMMA SetValueRefines ==
  ASSUME IInv, FrameInv, MemInv, FrameFits,
         NEW i \in DOMAIN asdus, NEW j \in DOMAIN slots[i], NEW v \in Value, SetValue(i, j, v)
  PROVE  Stream!Next
<1>1. /\ DOMAIN slots = DOMAIN asdus /\ DOMAIN Cnt = DOMAIN asdus
      /\ \A h \in DOMAIN slots : Vals[h] = Row(h)
      /\ DOMAIN Vals = DOMAIN slots
  BY Shapes
<1>2. slots' = slots /\ asdus' = asdus /\ frame' = frame /\ wire' = <<>>
  BY DEF SetValue
<1>3. Cnt' = Cnt
  BY <1>2 DEF Cnt
<1>4. ASSUME NEW h \in DOMAIN slots
      PROVE  Row(h)' = IF h = i THEN [Row(h) EXCEPT ![j] = v] ELSE Row(h)
  <2>1. Row(h)' = [l \in DOMAIN slots[h] |-> ReadSlot(h, slots[h][l])']
    BY <1>2 DEF Row
  <2>2. Row(h) = [l \in DOMAIN slots[h] |-> ReadSlot(h, slots[h][l])]
    BY DEF Row
  <2>3. CASE h # i
    <3>1. \A l \in DOMAIN slots[h] : ReadSlot(h, slots[h][l])' = ReadSlot(h, slots[h][l])
      BY <2>3, SetValueKeepsOthers
    <3>2. QED BY <2>1, <2>2, <2>3, <3>1
  <2>4. CASE h = i
    <3>1. \A l \in DOMAIN slots[i] : l # j => ReadSlot(i, slots[i][l])' = ReadSlot(i, slots[i][l])
      BY <1>1, SetValueKeepsOthers
    <3>2. ReadSlot(i, slots[i][j])' = v
      BY SetValueReads
    <3>3. Row(i)' = [l \in DOMAIN slots[i] |-> IF l = j THEN v ELSE ReadSlot(i, slots[i][l])]
      BY <2>1, <2>4, <3>1, <3>2
    <3>4. [Row(i) EXCEPT ![j] = v] = [l \in DOMAIN slots[i] |-> IF l = j THEN v ELSE ReadSlot(i, slots[i][l])]
      BY <2>2, <2>4
    <3>5. QED BY <2>4, <3>3, <3>4
  <2>5. QED BY <2>3, <2>4
<1>5. Vals' = [Vals EXCEPT ![i] = [Vals[i] EXCEPT ![j] = v]]
  <2>1. Vals' = [h \in DOMAIN slots |-> Row(h)']
    BY <1>2 DEF Vals
  <2>2. [Vals EXCEPT ![i] = [Vals[i] EXCEPT ![j] = v]]
          = [h \in DOMAIN slots |-> IF h = i THEN [Row(h) EXCEPT ![j] = v] ELSE Row(h)]
    BY <1>1 DEF Vals
  <2>3. QED BY <1>4, <2>1, <2>2
<1>6. Stream!SetValue(i, j, v)
  BY <1>2, <1>3, <1>5 DEF Stream!SetValue, Cnt, Vals, Row
<1>7. j \in DOMAIN Vals[i]
  BY <1>1 DEF Row
<1>8. QED BY <1>1, <1>6, <1>7, RowIsNext

LEMMA StoreCounterRefines ==
  ASSUME IInv, FrameInv, MemInv, FrameFits,
         NEW i \in DOMAIN asdus, NEW n \in 0 .. CounterSize - 1, StoreCounter(i, n)
  PROVE  Stream!Next
<1>1. slots' = slots /\ frame' = frame /\ wire' = <<>>
  BY DEF StoreCounter
<1>2. DOMAIN Cnt = DOMAIN asdus /\ asdus[i] \in ASDU
  BY Shapes DEF IInv, HandleTypeOK
<1>3. Cnt' = [Cnt EXCEPT ![i] = n]
  <2>1. [asdus[i] EXCEPT !.smpCnt = n].smpCnt = n
    BY <1>2 DEF ASDU
  <2>2. asdus' = [asdus EXCEPT ![i] = [asdus[i] EXCEPT !.smpCnt = n]]
    BY DEF StoreCounter
  <2>3. QED BY <2>1, <2>2 DEF Cnt
<1>4. ASSUME NEW h \in DOMAIN slots PROVE Row(h)' = Row(h)
  <2>1. \A l \in DOMAIN slots[h] : slots[h][l] \in Slot
    BY FrameWithin
  <2>2. ASSUME NEW l \in DOMAIN slots[h] PROVE ReadSlot(h, slots[h][l])' = ReadSlot(h, slots[h][l])
    <3>1. PICK s \in Slot : s = slots[h][l]
      BY <2>1
    <3>2. ReadSlot(h, slots[h][l])' = ReadSlot(h, s)'
      BY <1>1, <3>1
    <3>3. ReadSlot(h, s)' = ReadSlot(h, s)
      BY StoreCounterKeepsValues
    <3>4. QED BY <3>1, <3>2, <3>3
  <2>3. Row(h)' = [l \in DOMAIN slots[h] |-> ReadSlot(h, slots[h][l])']
    BY <1>1 DEF Row
  <2>4. QED BY <2>2, <2>3 DEF Row
<1>5. Vals' = Vals
  BY <1>1, <1>4 DEF Vals
<1>6. Stream!SetSmpCnt(i, n)
  BY <1>1, <1>3, <1>5 DEF Stream!SetSmpCnt, Cnt, Vals, Row
<1>7. QED BY <1>2, <1>6, StoreIsNext

\* A frame of which all ASDUs can be found is the snapshot.
LEMMA PublishRefines ==
  ASSUME IInv, FrameInv, MemInv, FrameFits, EveryASDUReachable, Publish
  PROVE  Stream!Publish
<1>1. UNCHANGED <<asdus, slots, frame, mem>>
  BY DEF Publish
<1>2. wire' = [i \in DOMAIN frame |-> ReadASDU(i)]
  BY DEF Publish, EveryASDUReachable
<1>3. CounterInFrame
  BY CounterFromBytes
<1>4. ASSUME NEW i \in DOMAIN frame
      PROVE  ReadASDU(i) = [smpCnt |-> Cnt[i], vals |-> Vals[i]]
  <2>1. ReadCounter(i) = asdus[i].smpCnt
    BY <1>3 DEF CounterInFrame
  <2>2. i \in DOMAIN asdus /\ i \in DOMAIN slots
    BY FrameWithin
  <2>3. QED BY <2>1, <2>2 DEF ReadASDU, Cnt, Vals, Row
<1>5. DOMAIN frame = 1 .. Len(frame)
  BY DEF FrameInv, IsList
<1>6. wire' = [i \in 1 .. Len(frame) |-> [smpCnt |-> Cnt[i], vals |-> Vals[i]]]
  BY <1>2, <1>4, <1>5
<1>7. wire' = Stream!Snapshot
  BY <1>6 DEF Stream!Snapshot, Cnt, Vals, Row
<1>8. Cnt' = Cnt /\ Vals' = Vals
  BY <1>1, NothingSeen
<1>9. QED BY <1>1, <1>7, <1>8 DEF Stream!Publish, Cnt, Vals, Row

LEMMA InitRefines == Init => Stream!Init
<1> SUFFICES ASSUME Init PROVE Stream!Init
  OBVIOUS
<1>1. Cnt = <<>> /\ Vals = <<>> /\ Len(frame) = 0 /\ wire = <<>>
  BY DEF Init, Cnt, Vals
<1>2. QED BY <1>1 DEF Stream!Init, Cnt, Vals, Row

\* Only publish puts a frame on the wire, and an empty one is none.
LEMMA NextWireInv ==
  ASSUME IInv, FrameInv, WireInv, [Next]_vars
  PROVE  WireInv'
<1>1. CASE Publish
  <2> DEFINE n == Len(frame)
  <2>1. n \in Nat /\ DOMAIN frame = 1 .. n /\ asdus' = asdus
    BY <1>1 DEF FrameInv, IsList, Publish
  <2>2. wire' = [i \in 1 .. n |-> IF i \in Reachable(frame) THEN ReadASDU(i) ELSE Lost]
    BY <1>1, <2>1 DEF Publish
  <2>3. \A i \in 1 .. n : i \in DOMAIN asdus
    BY FrameWithin
  <2> HIDE DEF n
  <2>4. CASE n = 0
    <3>1. wire' = <<>>
      BY <2>2, <2>4
    <3>2. QED BY <3>1 DEF WireInv
  <2>5. CASE n # 0
    <3>1. 1 \in 1 .. n
      BY <2>1, <2>5
    <3>2. QED BY <2>1, <2>3, <3>1 DEF WireInv
  <2>6. QED BY <2>4, <2>5
<1>2. CASE UNCHANGED vars
  BY <1>2 DEF vars, WireInv
<1>3. ASSUME wire' = <<>> PROVE WireInv'
  BY <1>3 DEF WireInv
<1>4. CASE Create \/ SetupComplete \/ Destroy
  BY <1>3, <1>4 DEF Create, SetupComplete, Destroy
<1>5. ASSUME NEW name \in NameLens, NEW datset \in DatSetLens, AddASDU(name, datset)
      PROVE  WireInv'
  BY <1>3, <1>5 DEF AddASDU
<1>6. ASSUME NEW i \in DOMAIN asdus,
             \/ AddSomeValue(i) \/ ResetBuffer(i) \/ SetRefrTm(i) \/ SetSmpMod(i)
             \/ \E n : StoreCounter(i, n)
             \/ \E j \in DOMAIN slots[i], v \in Value : SetValue(i, j, v)
      PROVE  WireInv'
  BY <1>3, <1>6 DEF AddSomeValue, AddINT8, AddINT32, AddFLOAT, AddFLOAT64, AddValue,
    ResetBuffer, SetRefrTm, SetSmpMod, StoreCounter, SetValue
<1>7. QED BY <1>1, <1>2, <1>4, <1>5, <1>6 DEF Next, SetSmpCnt, IncreaseSmpCnt

\* Every call of the handle is a step of SvStream or not seen by it.
LEMMA NextRefines ==
  ASSUME IInv, FrameInv, MemInv, WireInv, FrameFits, EveryASDUReachable, [Next]_vars
  PROVE  [Stream!Next]_(Stream!vars)
<1>1. CASE UNCHANGED vars
  BY <1>1 DEF vars, Stream!vars, ReadSlot, InFrame, LaidOut, DataBuffer
<1>2. CASE SetupComplete
  BY <1>2, SetupRefines DEF Stream!Next
<1>3. CASE Publish
  BY <1>3, PublishRefines DEF Stream!Next
<1>4. CASE Create \/ Destroy
  <2>1. UNCHANGED <<asdus, slots, frame, mem>> /\ wire' = <<>>
    BY <1>4 DEF Create, Destroy
  <2>2. Cnt' = Cnt /\ Vals' = Vals
    BY <2>1, NothingSeen
  <2>3. QED BY <2>1, <2>2, SilentStep
<1>5. ASSUME NEW name \in NameLens, NEW datset \in DatSetLens, AddASDU(name, datset)
      PROVE  Stream!Next
  BY <1>5, AddASDURefines DEF Stream!Next
<1>6. ASSUME NEW i \in DOMAIN asdus, AddSomeValue(i) PROVE Stream!Next
  BY <1>6, AddValueRefines DEF AddSomeValue, AddINT8, AddINT32, AddFLOAT, AddFLOAT64
<1>7. ASSUME NEW i \in DOMAIN asdus, ResetBuffer(i) PROVE Stream!Next
  BY <1>7, ResetBufferRefines
<1>8. ASSUME NEW i \in DOMAIN asdus, SetRefrTm(i) \/ SetSmpMod(i)
      PROVE  [Stream!Next]_(Stream!vars)
  <2>1. asdus[i] \in ASDU
    BY FrameWithin
  <2>2. /\ [asdus[i] EXCEPT !.hasRefrTm = TRUE].smpCnt = asdus[i].smpCnt
        /\ [asdus[i] EXCEPT !.hasSmpMod = TRUE].smpCnt = asdus[i].smpCnt
    BY <2>1 DEF ASDU
  <2>3. /\ UNCHANGED <<slots, frame, mem>> /\ wire' = <<>>
        /\ \/ asdus' = [asdus EXCEPT ![i] = [asdus[i] EXCEPT !.hasRefrTm = TRUE]]
           \/ asdus' = [asdus EXCEPT ![i] = [asdus[i] EXCEPT !.hasSmpMod = TRUE]]
    BY <1>8 DEF SetRefrTm, SetSmpMod
  <2>4. DOMAIN asdus' = DOMAIN asdus /\ \A k \in DOMAIN asdus : asdus'[k].smpCnt = asdus[k].smpCnt
    BY <2>2, <2>3
  <2>5. Cnt' = Cnt /\ Vals' = Vals
    BY <2>3, <2>4, NothingSeen
  <2>6. QED BY <2>3, <2>5, SilentStep
<1>9. ASSUME NEW i \in DOMAIN asdus, NEW n \in 0 .. CounterSize - 1, StoreCounter(i, n)
      PROVE  Stream!Next
  BY <1>9, StoreCounterRefines
<1>10. ASSUME NEW i \in DOMAIN asdus, IncreaseSmpCnt(i) PROVE Stream!Next
  <2>1. asdus[i].smpCnt \in 0 .. CounterSize - 1
    BY FrameWithin DEF ASDU
  <2>2. (asdus[i].smpCnt + 1) % CounterSize \in 0 .. CounterSize - 1
    BY <2>1, CounterSizePositive
  <2>3. PICK n \in 0 .. CounterSize - 1 : n = (asdus[i].smpCnt + 1) % CounterSize
    BY <2>2
  <2>4. StoreCounter(i, n)
    BY <1>10, <2>3 DEF IncreaseSmpCnt
  <2>5. QED BY <1>9, <2>4
<1>11. ASSUME NEW i \in DOMAIN asdus, NEW j \in DOMAIN slots[i], NEW v \in Value, SetValue(i, j, v)
       PROVE  Stream!Next
  BY <1>11, SetValueRefines
<1>12. QED
  BY <1>1, <1>2, <1>3, <1>4, <1>5, <1>6, <1>7, <1>8, <1>9, <1>10, <1>11 DEF Next, SetSmpCnt

\* For any number of ASDUs and values, while frames fit the buffer and can be
\* read: the handle implements SvStream.  Through its bytes, setting one value
\* changes that value alone, and each frame sent shows all counters and values
\* of its moment.
THEOREM HandleImplementsStream == Spec /\ [](FrameFits /\ EveryASDUReachable) => ImplementsStream
<1> DEFINE J == IInv /\ FrameInv /\ MemInv /\ WireInv
           H == FrameFits /\ EveryASDUReachable
<1>1. Init => J
  BY InitIInv, InitFrameInv, InitMemInv DEF Init, WireInv
<1>2. J /\ H /\ H' /\ [Next]_vars => J'
  BY NextIInv, NextFrameInv, NextMemInv, NextWireInv
<1>3. J /\ H /\ [Next]_vars => [Stream!Next]_(Stream!vars)
  BY NextRefines
<1>4. Init => Stream!Init
  BY InitRefines
<1> HIDE DEF J, H
<1>5. Spec /\ []H => []J
  BY <1>1, <1>2, PTL DEF Spec
<1>6. Spec /\ []H => Stream!Spec
  BY <1>3, <1>4, <1>5, PTL DEF Spec, Stream!Spec
<1>7. QED BY <1>6 DEF H, ImplementsStream

-----------------------------------------------------------------------------
(* Callers whose frames fit. *)

\* An ASDU is not larger than w: no longer name, reference or data, and no
\* optional element that w does not have.
AtMost(a, w) ==
  /\ a.svID <= w.svID
  /\ a.datset # NoDatSet => w.datset # NoDatSet /\ a.datset <= w.datset
  /\ a.dataSize <= w.dataSize
  /\ a.hasRefrTm => w.hasRefrTm
  /\ a.hasSmpMod => w.hasSmpMod

\* A caller that adds no more than K ASDUs, none larger than w.
Modest(K, w) == Len(asdus) <= K /\ \A i \in 1 .. Len(asdus) : AtMost(asdus[i], w)

\* Then the frame of the last setup is like that.
ModestFrame(K, w) == Len(frame) <= K /\ \A i \in 1 .. Len(frame) : AtMost(frame[i], w)

\* The most that the tags and lengths before the first ASDU take.
Header == 15

\* An ASDU that is not larger takes no more bytes, and is declared as written.
LEMMA SmallerASDU ==
  ASSUME NEW a, NEW w, IsElement(a), IsElement(w), LengthsAgree(w), AtMost(a, w)
  PROVE  LengthsAgree(a) /\ WrittenSize(a) <= DeclaredSize(w)
<1>1. /\ a.svID \in Nat /\ a.dataSize \in Nat
      /\ w.svID \in Nat /\ w.dataSize \in Nat
      /\ a.datset = NoDatSet \/ a.datset \in Nat
      /\ w.datset = NoDatSet \/ w.datset \in Nat
  BY DEF IsElement
<1>2. a.hasRefrTm \in BOOLEAN /\ a.hasSmpMod \in BOOLEAN /\ w.hasRefrTm \in BOOLEAN /\ w.hasSmpMod \in BOOLEAN
  BY DEF IsElement
<1>3. ShortForm(w) /\ ~w.hasSmpMod
  BY LengthsAgreeExactly
<1>4. ShortForm(a) /\ ~a.hasSmpMod
  <2>1. ~a.hasSmpMod
    BY <1>3 DEF AtMost
  <2>2. a.svID < 128 /\ a.dataSize < 128
    BY <1>1, <1>3 DEF AtMost, ShortForm
  <2>3. a.datset = NoDatSet \/ a.datset < 128
    BY <1>1, <1>3 DEF AtMost, ShortForm
  <2>4. QED BY <2>1, <2>2, <2>3 DEF ShortForm
<1>5. LengthsAgree(a)
  BY <1>4, LengthsAgreeExactly
<1> DEFINE Datset(x) == IF x.datset = NoDatSet THEN 0 ELSE 2 + x.datset
           RefrTm(x) == IF x.hasRefrTm THEN 10 ELSE 0
<1>6. EncodedSize(a) = 17 + a.svID + a.dataSize + Datset(a) + RefrTm(a)
  BY <1>1, <1>4 DEF EncodedSize, NoDatSet
<1>7. EncodedSize(w) = 17 + w.svID + w.dataSize + Datset(w) + RefrTm(w)
  BY <1>1, <1>3 DEF EncodedSize, NoDatSet
<1>8. Datset(a) \in Nat /\ Datset(w) \in Nat /\ Datset(a) <= Datset(w)
  BY <1>1 DEF AtMost
<1>9. RefrTm(a) \in Nat /\ RefrTm(w) \in Nat /\ RefrTm(a) <= RefrTm(w)
  BY <1>2 DEF AtMost
<1>10. a.svID <= w.svID /\ a.dataSize <= w.dataSize
  BY DEF AtMost
<1> HIDE DEF Datset, RefrTm
<1>11. EncodedSize(a) \in Nat /\ EncodedSize(w) \in Nat /\ EncodedSize(a) <= EncodedSize(w)
  BY <1>1, <1>6, <1>7, <1>8, <1>9, <1>10
<1>12. DeclaredSize(a) <= DeclaredSize(w)
  BY <1>11 DEF DeclaredSize, TLVSize, TLSize, LengthSize
<1>13. QED BY <1>5, <1>12 DEF LengthsAgree

\* A sum of n sizes of at most W.
LEMMA BoundedSum ==
  ASSUME NEW N \in Nat, NEW W \in Nat, NEW f, f[0] = 0,
         \A i \in 0 .. N : f[i] \in Nat,
         \A i \in 1 .. N : f[i] <= f[i - 1] + W
  PROVE  f[N] <= N * W
<1> DEFINE S == {n \in Nat : n <= N => f[n] <= n * W}
<1>1. 0 \in S
  <2>1. 0 * W = 0
    OBVIOUS
  <2>2. QED BY <2>1
<1>2. ASSUME NEW n \in Nat, n \in S PROVE n + 1 \in S
  <2> SUFFICES ASSUME n + 1 <= N PROVE f[n + 1] <= (n + 1) * W
    OBVIOUS
  <2>1. n + 1 \in 1 .. N /\ n \in 0 .. N /\ n + 1 \in 0 .. N /\ (n + 1) - 1 = n
    OBVIOUS
  <2>2. f[n] <= n * W
    BY <1>2, <2>1
  <2>3. f[n + 1] <= f[n] + W
    BY <2>1
  <2>4. PICK x \in Nat, y \in Nat : x = f[n] /\ y = f[n + 1]
    BY <2>1
  <2>5. PICK z \in Nat : z = n * W
    OBVIOUS
  <2>6. (n + 1) * W = z + W
    BY <2>5
  <2>7. y <= x + W /\ x <= z
    BY <2>2, <2>3, <2>4, <2>5
  <2>8. QED BY <2>4, <2>6, <2>7
<1>3. N \in S
  <2> HIDE DEF S
  <2>1. QED BY <1>1, <1>2, Induction
<1>4. QED BY <1>3

\* The payload of a list of at most K such ASDUs.
LEMMA ModestPayload ==
  ASSUME NEW as, IsList(as), NEW K \in Nat, NEW W \in Nat, Len(as) <= K,
         \A i \in 1 .. Len(as) : WrittenSize(as[i]) <= W
  PROVE  PayloadLength(as) <= Header + K * W
<1> DEFINE N == Len(as)
           f == SizeUpTo(as, WrittenSize)
           S(i) == WrittenSize(as[i])
<1>1. N \in Nat /\ N <= K /\ \A i \in 1 .. N : S(i) \in Nat /\ S(i) <= W
  BY SizesNat DEF IsList
<1>2. /\ f[0] = 0
      /\ \A i \in 0 .. N : f[i] \in Nat
      /\ \A i \in 1 .. N : f[i] = f[i - 1] + S(i)
  BY WrittenSums
<1>3. PayloadLength(as) = FirstASDU(as) + f[N]
  BY DEF PayloadLength
<1>4. FirstASDU(as) \in Nat /\ FirstASDU(as) <= Header
  <2> DEFINE T == TotalASDULength(as)
             U == UInt32Size(N)
             I == InnerSize(as)
             X == LengthSize(T)
             Y == LengthSize(I)
  <2>1. T \in Nat
    <3>1. N \in 0 .. N
      <4> HIDE DEF N
      <4>1. QED BY <1>1
    <3>2. QED BY <3>1, DeclaredSums DEF TotalASDULength
  <2>2. U \in 1 .. 5
    <3> HIDE DEF N
    <3>1. QED BY <1>1 DEF UInt32Size
  <2>3. X \in 1 .. 3
    BY <2>1, LengthSizeRange
  <2>4. I = 2 + U + (1 + X + T)
    BY DEF InnerSize, TLVSize, TLSize
  <2>5. I \in Nat
    <3> HIDE DEF I, U, X, T
    <3>1. QED BY <2>1, <2>2, <2>3, <2>4
  <2>6. Y \in 1 .. 3
    BY <2>5, LengthSizeRange
  <2>7. FirstASDU(as) = (1 + Y) + 2 + U + (1 + X)
    BY DEF FirstASDU, TLSize
  <2> HIDE DEF T, U, I, X, Y
  <2>8. QED BY <2>2, <2>3, <2>6, <2>7 DEF Header
<1> HIDE DEF N, f, S
<1>5. \A i \in 1 .. N : f[i] <= f[i - 1] + W
  <2>1. ASSUME NEW i \in 1 .. N PROVE f[i] <= f[i - 1] + W
    <3>1. i - 1 \in 0 .. N
      BY <1>1
    <3>2. PICK x \in Nat, y \in Nat : x = f[i - 1] /\ y = S(i)
      BY <1>1, <1>2, <3>1
    <3>3. f[i] = x + y /\ y <= W
      BY <1>1, <1>2, <3>2
    <3>4. QED BY <3>2, <3>3
  <2>2. QED BY <2>1
<1>6. f[N] \in Nat /\ f[N] <= N * W
  <2>1. N \in 0 .. N
    BY <1>1
  <2>2. f[N] \in Nat
    BY <1>2, <2>1
  <2>3. QED BY <1>1, <1>2, <1>5, <2>2, BoundedSum
<1>7. N * W \in Nat /\ K * W \in Nat /\ N * W <= K * W
  <2>1. PICK d \in Nat : K = N + d
    <3>1. K - N \in Nat /\ K = N + (K - N)
      BY <1>1
    <3>2. QED BY <3>1
  <2>2. PICK x \in Nat, y \in Nat : x = N * W /\ y = d * W
    BY <1>1
  <2>3. K * W = x + y
    BY <1>1, <2>1, <2>2
  <2>4. QED BY <2>2, <2>3
<1>8. PICK x \in Nat, y \in Nat, z \in Nat, h \in Nat :
        x = f[N] /\ y = N * W /\ z = K * W /\ h = FirstASDU(as)
  BY <1>4, <1>6, <1>7
<1>9. x <= y /\ y <= z /\ h <= Header
  BY <1>4, <1>6, <1>7, <1>8
<1>10. h + x <= Header + z
  BY <1>9 DEF Header
<1>11. QED BY <1>3, <1>8, <1>10

\* What the frame of a modest caller is.
LEMMA ModestFrameFits ==
  ASSUME FrameInv, NEW K \in Nat, NEW w, IsElement(w), LengthsAgree(w), ModestFrame(K, w),
         Header + K * DeclaredSize(w) <= Capacity
  PROVE  FrameFits /\ EveryASDUReachable
<1>1. IsList(frame) /\ DeclaredSize(w) \in Nat
  BY SizesNat DEF FrameInv
<1>2. ASSUME NEW i \in 1 .. Len(frame)
      PROVE  LengthsAgree(frame[i]) /\ WrittenSize(frame[i]) <= DeclaredSize(w)
  BY <1>1, SmallerASDU DEF ModestFrame, IsList
<1>3. PICK p, b : p = PayloadLength(frame) /\ b = K * DeclaredSize(w)
  OBVIOUS
<1>4. p \in Nat /\ b \in Nat
  <2>1. p \in Nat
    BY <1>1, <1>3, LayoutOrder
  <2>2. PICK W \in Nat : W = DeclaredSize(w)
    BY <1>1
  <2>3. b = K * W
    BY <1>3, <2>2
  <2>4. QED BY <2>1, <2>2, <2>3
<1>5. p <= Header + b
  <2>1. PICK W \in Nat : W = DeclaredSize(w)
    BY <1>1
  <2>2. \A i \in 1 .. Len(frame) : WrittenSize(frame[i]) <= W
    BY <1>2, <2>1
  <2>3. PayloadLength(frame) <= Header + K * W
    BY <1>1, <2>2, ModestPayload DEF ModestFrame
  <2>4. QED BY <1>3, <2>1, <2>3
<1>6. FrameFits
  <2>1. Header + b <= Capacity /\ Capacity \in Nat
    BY <1>3, ConstantsAssumption
  <2>2. p <= Capacity
    BY <1>4, <1>5, <2>1 DEF Header
  <2>3. QED BY <1>3, <2>2 DEF FrameFits
<1>7. EveryASDUReachable
  <2>1. ASSUME NEW i \in DOMAIN frame, i < Len(frame) PROVE ShortForm(frame[i]) /\ ~frame[i].hasSmpMod
    <3>1. i \in 1 .. Len(frame) /\ IsElement(frame[i])
      BY <1>1 DEF IsList
    <3>2. QED BY <1>2, <3>1, LengthsAgreeExactly
  <2>2. QED BY <2>1, ReachableIff DEF ReadableFrame
<1>8. QED BY <1>6, <1>7

LEMMA InitModestFrame ==
  ASSUME NEW K \in Nat, NEW w
  PROVE  Init => ModestFrame(K, w)
<1>1. ASSUME frame = <<>> PROVE ModestFrame(K, w)
  <2>1. Len(frame) = 0
    BY <1>1
  <2>2. QED BY <2>1 DEF ModestFrame
<1>2. QED BY <1>1 DEF Init

LEMMA NextModestFrame ==
  ASSUME NEW K \in Nat, NEW w, IInv, FrameInv, ModestFrame(K, w), Modest(K, w), [Next]_vars
  PROVE  ModestFrame(K, w)'
<1>1. CASE SetupComplete
  <2>1. Len(frame') = Len(asdus) /\ SameElements(asdus, frame')
    BY <1>1, SetupFrame
  <2>2. ASSUME NEW i \in 1 .. Len(asdus) PROVE AtMost(frame'[i], w)
    BY <2>1 DEF Modest, AtMost, SameElements
  <2>3. Len(asdus) <= K
    BY DEF Modest
  <2>4. QED BY <2>1, <2>2, <2>3 DEF ModestFrame
<1>2. CASE UNCHANGED frame
  BY <1>2 DEF ModestFrame, AtMost
<1>3. SetupComplete \/ UNCHANGED frame
  BY DEF Next, vars, Create, Publish, Destroy, AddASDU, AddSomeValue, AddINT8, AddINT32, AddFLOAT,
         AddFLOAT64, AddValue, ResetBuffer, SetRefrTm, SetSmpMod, IncreaseSmpCnt, SetSmpCnt,
         StoreCounter, SetValue
<1>4. QED BY <1>1, <1>2, <1>3

\* Whatever a caller does that adds at most K ASDUs, none larger than w: if K
\* of these fit behind the longest header, every frame fits the buffer and can
\* be read to its end.  That is the check which sv_publisher.c does not make.
THEOREM ModestFramesFit ==
  ASSUME NEW K \in Nat, NEW w, IsElement(w), LengthsAgree(w),
         Header + K * DeclaredSize(w) <= Capacity
  PROVE  Spec /\ []Modest(K, w) => [](FrameFits /\ EveryASDUReachable)
<1> DEFINE J == IInv /\ FrameInv /\ ModestFrame(K, w)
           H == Modest(K, w)
           G == FrameFits /\ EveryASDUReachable
<1>1. Init => J
  BY InitIInv, InitFrameInv, InitModestFrame
<1>2. J /\ H /\ [Next]_vars => J'
  BY NextIInv, NextFrameInv, NextModestFrame
<1>3. J => G
  BY ModestFrameFits
<1> HIDE DEF J, H, G
<1>4. Spec /\ []H => []G
  BY <1>1, <1>2, <1>3, PTL DEF Spec
<1>5. QED BY <1>4 DEF H, G

\* Such a caller gets what SvStream promises, and counters in step, without
\* any condition on the frames.
THEOREM ModestCallerStreams ==
  ASSUME NEW K \in Nat, NEW w, IsElement(w), LengthsAgree(w),
         Header + K * DeclaredSize(w) <= Capacity
  PROVE  Spec /\ []Modest(K, w) => ImplementsStream /\ []CounterInFrame
<1> DEFINE H == Modest(K, w)
           Fits == FrameFits
           Reads == EveryASDUReachable
           Same == CounterInFrame
<1>1. Spec /\ []H => [](Fits /\ Reads)
  BY ModestFramesFit
<1>2. Spec /\ [](Fits /\ Reads) => ImplementsStream
  BY HandleImplementsStream
<1>3. Spec /\ []Fits => []Same
  BY CountersAgree
<1> HIDE DEF H, Fits, Reads, Same
<1>4. Spec /\ []H => ImplementsStream /\ []Same
  BY <1>1, <1>2, <1>3, PTL
<1>5. QED BY <1>4 DEF H, Same

\* The largest channel of the server program whose name has at most nine
\* characters: MAX_NUM_VALUES values of four bytes (publisher.hpp:41).
FullChannel == [svID |-> 9, datset |-> NoDatSet, dataSize |-> 16 * 4,
                hasRefrTm |-> FALSE, hasSmpMod |-> FALSE]

\* In the buffer of the code, 1518 bytes of which 26 are the header, 16 of them
\* fit: as many as MAX_NUM_CHANNELS says (publisher.hpp:110).  add_channel lets
\* a 17th pass and names of 63 characters, which this does not cover.
THEOREM FullServerStreams ==
  ASSUME Capacity = 1518 - PayloadStart
  PROVE  Spec /\ []Modest(16, FullChannel) => ImplementsStream /\ []CounterInFrame
<1>1. IsElement(FullChannel)
  BY DEF IsElement, FullChannel
<1>2. EncodedSize(FullChannel) = 90
  BY DEF EncodedSize, FullChannel
<1>3. DeclaredSize(FullChannel) = 92
  BY <1>2 DEF DeclaredSize, TLVSize, TLSize, LengthSize
<1>4. LengthsAgree(FullChannel)
  <2>1. ShortForm(FullChannel) /\ ~FullChannel.hasSmpMod
    BY DEF ShortForm, FullChannel
  <2>2. QED BY <1>1, <2>1, LengthsAgreeExactly
<1>5. Header + 16 * DeclaredSize(FullChannel) <= Capacity
  BY <1>3 DEF Header, PayloadStart
<1>6. 16 \in Nat
  OBVIOUS
<1> DEFINE J == IInv /\ FrameInv /\ ModestFrame(16, FullChannel)
           H == Modest(16, FullChannel)
           Fits == FrameFits
           Reads == EveryASDUReachable
           Same == CounterInFrame
<1>7. Init => J
  BY <1>6, InitIInv, InitFrameInv, InitModestFrame
<1>8. J /\ H /\ [Next]_vars => J'
  BY <1>6, NextIInv, NextFrameInv, NextModestFrame
<1>9. J => Fits /\ Reads
  BY <1>1, <1>4, <1>5, <1>6, ModestFrameFits
<1>10. Spec /\ [](Fits /\ Reads) => ImplementsStream
  BY HandleImplementsStream
<1>11. Spec /\ []Fits => []Same
  BY CountersAgree
<1> HIDE DEF J, H, Fits, Reads, Same
<1>12. Spec /\ []H => ImplementsStream /\ []Same
  BY <1>7, <1>8, <1>9, <1>10, <1>11, PTL DEF Spec
<1>13. QED BY <1>12 DEF H, Same
=============================================================================
