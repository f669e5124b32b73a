---------------------------- MODULE SvPublisher ----------------------------
(***************************************************************************)
(* sv_publisher.c: one SampledValuesPublisher handle and the caller that   *)
(* uses it.  The handle owns a message buffer and a list of ASDUs; setup   *)
(* computes a layout and encodes the list into the buffer, and from then   *)
(* on set* and *SmpCnt write through pointers into the buffer.             *)
(*                                                                         *)
(* The buffer is modelled from PayloadStart on, a byte per position.  A    *)
(* byte is a tuple: <<"int", n>> for a byte of a sample counter,           *)
(* <<"val", v, k>> for byte k of the encoded value v, and <<"other">> for  *)
(* the rest: tags, lengths, fixed fields, and what malloc left there.      *)
(*                                                                         *)
(* The caller is any program that writes only through pointers a setup has *)
(* set (an ASDU the frame contains, an index inside its data): elsewhere   *)
(* the code dereferences NULL.  SvServer shows that its caller is one.     *)
(***************************************************************************)
EXTENDS SvFrame, FiniteSets, SequencesExt

CONSTANTS Value,      \* values a caller sets
          Unset,      \* "no value": bytes that do not form one
          Base,       \* values of one byte of a counter (256 in the code)
          NameLens,   \* lengths of the ASDUs' names
          DatSetLens, \* lengths of the data set references, or NoDatSet
          Sizes,      \* sizes of the value types the caller uses
          Optional,   \* which optional operations the caller uses
          MaxASDUs, MaxValues, \* bounds on what the caller creates
          Capacity    \* bytes of the buffer behind PayloadStart

ASSUME ConstantsAssumption ==
  /\ Base \in Nat \ {0}
  /\ NameLens \subseteq Nat
  /\ DatSetLens \subseteq Nat \cup {NoDatSet}
  /\ Capacity \in Nat

VARIABLES buffer,   \* "none", "allocated" or "freed"
          socket,   \* "none" or "open"
          asdus,    \* asduLIst: the ASDU records, in list order
          slots,    \* what add* returned: per ASDU, [index, size] of each value
          frame,    \* the layout of the last setup, an entry per ASDU
          mem,      \* the bytes of the buffer
          wire      \* the frame the last step sent, as a reader sees it; else <<>>

vars == <<buffer, socket, asdus, slots, frame, mem, wire>>

CounterSize == Base * Base

Other == <<"other">>

NewASDU(name, datset) ==
  [svID |-> name, datset |-> datset, dataSize |-> 0, smpCnt |-> 0,
   hasRefrTm |-> FALSE, hasSmpMod |-> FALSE]

-----------------------------------------------------------------------------
(* Writing into the buffer. *)

\* Positions smpCntBuf and _dataBuffer of ASDU i point to; both are NULL
\* until a setup has encoded the ASDU.
LaidOut(i)     == i \in DOMAIN frame
SmpCntBuf(i)   == frame[i].smpCntBuf
DataBuffer(i)  == frame[i].dataBuffer

\* What encodeToBuffer leaves of ASDU i: its elements and the two pointers.
Layout(as, i) ==
  [svID |-> as[i].svID, datset |-> as[i].datset, dataSize |-> as[i].dataSize,
   hasRefrTm |-> as[i].hasRefrTm, hasSmpMod |-> as[i].hasSmpMod,
   smpCntBuf |-> SmpCntPos(as, i), dataBuffer |-> DataPos(as, i)]

Write(m, pos, bytes) ==
  [p \in DOMAIN m |-> IF p \in pos .. pos + Len(bytes) - 1
                      THEN bytes[p - pos + 1] ELSE m[p]]

\* encodeUInt16FixedSize: most significant byte first.
CounterBytes(n) == <<<<"int", n \div Base>>, <<"int", n % Base>>>>

\* encodeInt32FixedSize, and the byte loops of setINT8, setFLOAT and setFLOAT64.
ValueBytes(v, size) == [k \in 1 .. size |-> <<"val", v, k>>]

\* encodeToBuffer for every ASDU: each counter is written, and every other
\* byte of the payload but the data areas, which keep what the buffer held.
\* No two ASDUs share a byte of their counters.
Encode(m, as) ==
  LET counter == [i \in DOMAIN as |-> SmpCntPos(as, i)]
      owners  == [p \in DOMAIN m |-> {i \in DOMAIN as : p - counter[i] \in {0, 1}}]
      data    == UNION {DataPos(as, i) .. DataPos(as, i) + as[i].dataSize - 1 :
                          i \in DOMAIN as}
      written == (0 .. PayloadLength(as) - 1) \ data
  IN  [p \in DOMAIN m |->
         IF owners[p] # {}
         THEN LET i == CHOOSE i \in owners[p] : TRUE
              IN  CounterBytes(as[i].smpCnt)[p - counter[i] + 1]
         ELSE IF p \in written THEN Other ELSE m[p]]

-----------------------------------------------------------------------------
(* Reading a frame: what the bytes at a value's place say. *)

InFrame(i, s) == LaidOut(i) /\ s.index + s.size <= frame[i].dataSize

ReadSlot(i, s) ==
  LET at == DataBuffer(i) + s.index
      v  == {x \in Value : \A k \in 1 .. s.size : mem[at + k - 1] = <<"val", x, k>>}
  IN  IF InFrame(i, s) /\ v # {} THEN CHOOSE x \in v : TRUE ELSE Unset

\* Two bytes that are no counter.
NoCounter == -1

ReadCounter(i) ==
  LET hi == mem[SmpCntBuf(i)]
      lo == mem[SmpCntBuf(i) + 1]
  IN  IF hi[1] = "int" /\ lo[1] = "int" THEN hi[2] * Base + lo[2] ELSE NoCounter

ReadASDU(i) == [smpCnt |-> ReadCounter(i),
                vals   |-> [j \in DOMAIN slots[i] |-> ReadSlot(i, slots[i][j])]]

\* An ASDU behind a wrong length, which a reader cannot find.
Lost == [smpCnt |-> 0, vals |-> <<>>]

-----------------------------------------------------------------------------
Init ==
  /\ buffer = "none" /\ socket = "none"
  /\ asdus = <<>> /\ slots = <<>> /\ frame = <<>> /\ wire = <<>>
  /\ mem = [p \in 0 .. Capacity - 1 |-> Other]

Create ==
  /\ buffer = "none"
  /\ buffer' = "allocated" /\ socket' = "open"
  /\ wire' = <<>>
  /\ UNCHANGED <<asdus, slots, frame, mem>>

AddASDU(name, datset) ==
  /\ buffer = "allocated"
  /\ asdus' = Append(asdus, NewASDU(name, datset))
  /\ slots' = Append(slots, <<>>)
  /\ wire' = <<>>
  /\ UNCHANGED <<buffer, socket, frame, mem>>

\* A variant that advances by one byte whatever the type.
AddValueByOne(i, size) ==
  /\ buffer = "allocated"
  /\ slots' = [slots EXCEPT ![i] = Append(@, [index |-> asdus[i].dataSize, size |-> size])]
  /\ asdus' = [asdus EXCEPT ![i].dataSize = @ + 1]
  /\ wire' = <<>>
  /\ UNCHANGED <<buffer, socket, frame, mem>>

\* The value's index is the data size so far.
AddValue(i, size) ==
  /\ buffer = "allocated"
  /\ slots' = [slots EXCEPT ![i] = Append(@, [index |-> asdus[i].dataSize, size |-> size])]
  /\ asdus' = [asdus EXCEPT ![i].dataSize = @ + size]
  /\ wire' = <<>>
  /\ UNCHANGED <<buffer, socket, frame, mem>>

AddINT8(i)    == 1 \in Sizes /\ AddValue(i, 1)
AddINT32(i)   == 4 \in Sizes /\ AddValue(i, 4)
AddFLOAT(i)   == 4 \in Sizes /\ AddValue(i, 4)
AddFLOAT64(i) == 8 \in Sizes /\ AddValue(i, 8)

\* The indexes handed out before are void: the caller adds its values anew.
ResetBuffer(i) ==
  /\ buffer = "allocated" /\ "reset" \in Optional
  /\ asdus' = [asdus EXCEPT ![i].dataSize = 0]
  /\ slots' = [slots EXCEPT ![i] = <<>>]
  /\ wire' = <<>>
  /\ UNCHANGED <<buffer, socket, frame, mem>>

\* The frame is not encoded again: the element appears with the next setup.
SetRefrTm(i) ==
  /\ buffer = "allocated" /\ "refrTm" \in Optional
  /\ asdus' = [asdus EXCEPT ![i].hasRefrTm = TRUE]
  /\ wire' = <<>>
  /\ UNCHANGED <<buffer, socket, slots, frame, mem>>

SetSmpMod(i) ==
  /\ buffer = "allocated" /\ "smpMod" \in Optional
  /\ asdus' = [asdus EXCEPT ![i].hasSmpMod = TRUE]
  /\ wire' = <<>>
  /\ UNCHANGED <<buffer, socket, slots, frame, mem>>

SetupComplete ==
  /\ buffer = "allocated"
  /\ frame' = [i \in DOMAIN asdus |-> Layout(asdus, i)]
  /\ mem' = Encode(mem, asdus)
  /\ wire' = <<>>
  /\ UNCHANGED <<buffer, socket, asdus, slots>>

\* A variant that ignores the index.
SetValueAtStart(i, j, v) ==
  /\ buffer = "allocated"
  /\ InFrame(i, slots[i][j])
  /\ mem' = Write(mem, DataBuffer(i), ValueBytes(v, slots[i][j].size))
  /\ wire' = <<>>
  /\ UNCHANGED <<buffer, socket, asdus, slots, frame>>

\* That the value lies in the frame as it was laid out is up to the caller: the
\* code has no such guard and would write behind the data of the ASDU.
SetValue(i, j, v) ==
  /\ buffer = "allocated"
  /\ InFrame(i, slots[i][j])
  /\ mem' = Write(mem, DataBuffer(i) + slots[i][j].index, ValueBytes(v, slots[i][j].size))
  /\ wire' = <<>>
  /\ UNCHANGED <<buffer, socket, asdus, slots, frame>>

\* A variant that updates the ASDU record but not the message buffer.
StoreCounterInRecord(i, n) ==
  /\ buffer = "allocated"
  /\ LaidOut(i)
  /\ asdus' = [asdus EXCEPT ![i].smpCnt = n]
  /\ wire' = <<>>
  /\ UNCHANGED <<buffer, socket, slots, frame, mem>>

StoreCounter(i, n) ==
  /\ buffer = "allocated"
  /\ LaidOut(i)
  /\ asdus' = [asdus EXCEPT ![i].smpCnt = n]
  /\ mem' = Write(mem, SmpCntBuf(i), CounterBytes(n))
  /\ wire' = <<>>
  /\ UNCHANGED <<buffer, socket, slots, frame>>

SetSmpCnt(i, n)    == StoreCounter(i, n)
IncreaseSmpCnt(i)  == StoreCounter(i, (asdus[i].smpCnt + 1) % CounterSize)

\* PayloadStart + payloadLength bytes leave through the socket; before the
\* first setup that is the bare header.
Publish ==
  /\ buffer = "allocated" /\ socket = "open"
  /\ wire' = [i \in DOMAIN frame |-> IF i \in Reachable(frame) THEN ReadASDU(i) ELSE Lost]
  /\ UNCHANGED <<buffer, socket, asdus, slots, frame, mem>>

\* Only the buffer is released: not the socket, nor the ASDUs, nor the handle.
Destroy ==
  /\ buffer = "allocated"
  /\ buffer' = "freed"
  /\ wire' = <<>>
  /\ UNCHANGED <<socket, asdus, slots, frame, mem>>

AddSomeValue(i) ==
  /\ Len(FlattenSeq(slots)) < MaxValues
  /\ AddINT8(i) \/ AddINT32(i) \/ AddFLOAT(i) \/ AddFLOAT64(i)

Next ==
  \/ Create
  \/ SetupComplete
  \/ Publish
  \/ Destroy
  \/ \E name \in NameLens, datset \in DatSetLens :
       Len(asdus) < MaxASDUs /\ AddASDU(name, datset)
  \/ \E i \in DOMAIN asdus :
       \/ AddSomeValue(i)
       \/ ResetBuffer(i)
       \/ SetRefrTm(i)
       \/ SetSmpMod(i)
       \/ IncreaseSmpCnt(i)
       \/ \E n \in 0 .. CounterSize - 1 : SetSmpCnt(i, n)
       \/ \E j \in DOMAIN slots[i], v \in Value : SetValue(i, j, v)

Spec == Init /\ [][Next]_vars

-----------------------------------------------------------------------------
(* Properties. *)

ASDU == [svID : Nat, datset : Nat \cup {NoDatSet}, dataSize : Nat,
         smpCnt : 0 .. CounterSize - 1, hasRefrTm : BOOLEAN, hasSmpMod : BOOLEAN]

Slot == [index : Nat, size : Nat \ {0}]

\* The handle and the indexes its add functions returned.
HandleTypeOK ==
  /\ buffer \in {"none", "allocated", "freed"}
  /\ socket \in {"none", "open"}
  /\ asdus \in Seq(ASDU)
  /\ slots \in Seq(Seq(Slot))
  /\ Len(slots) = Len(asdus)

\* The values of an ASDU never share a byte, and all of them lie inside its
\* data: the indexes addINT8 ... addFLOAT64 return stay valid as more are added.
SlotsDisjoint ==
  \A i \in DOMAIN slots : \A j \in DOMAIN slots[i] :
    /\ slots[i][j].index + slots[i][j].size <= asdus[i].dataSize
    /\ \A k \in DOMAIN slots[i] :
         j < k => slots[i][j].index + slots[i][j].size <= slots[i][k].index

\* The areas the code writes through pointers after a setup - two bytes of
\* counter and the data of every ASDU - are disjoint and inside the payload
\* that is sent.
Areas == {[from |-> SmpCntBuf(i), to |-> SmpCntBuf(i) + 2] : i \in DOMAIN frame}
           \cup {[from |-> DataBuffer(i), to |-> DataBuffer(i) + frame[i].dataSize] :
                   i \in {k \in DOMAIN frame : frame[k].dataSize > 0}}

AreasDisjoint ==
  /\ \A a \in Areas : a.to <= PayloadLength(frame)
  /\ \A a, b \in Areas : a = b \/ a.to <= b.from \/ b.to <= a.from

\* The counter in the message buffer is the counter of the ASDU record, which
\* setSmpCnt and increaseSmpCnt keep in two places.
CounterInFrame ==
  \A i \in DOMAIN frame : ReadCounter(i) = asdus[i].smpCnt

\* Every ASDU of the list that setup encoded can be found by a reader that
\* walks the frame by its declared lengths.
EveryASDUReachable == Reachable(frame) = DOMAIN frame

\* The handle promises what SvStream says: through its bytes, setting one
\* value changes that value alone, and a frame is a snapshot.
Stream ==
  INSTANCE SvStream WITH
    cnt  <- [i \in DOMAIN asdus |-> asdus[i].smpCnt],
    vals <- [i \in DOMAIN slots |-> [j \in DOMAIN slots[i] |-> ReadSlot(i, slots[i][j])]],
    laid <- Len(frame),
    sent <- wire

ImplementsStream == Stream!Spec
=============================================================================
