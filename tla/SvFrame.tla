------------------------------ MODULE SvFrame ------------------------------
(***************************************************************************)
(* The arithmetic of a sampled-values frame: how long the BER encoder      *)
(* makes each element, how long SV_ASDU_getEncodedSize SAYS an ASDU is,    *)
(* and where SV_ASDU_encodeToBuffer really puts the sample counter and the *)
(* data.  The two computations are written separately in the code and      *)
(* nothing there compares them.                                            *)
(*                                                                         *)
(* An ASDU is a record; of its strings only the length matters here:       *)
(*   svID       strlen of the ASDU's name                                  *)
(*   datset     strlen of the data set reference, or NoDatSet (NULL)       *)
(*   hasRefrTm, hasSmpMod   whether the optional elements are present      *)
(*   dataSize   bytes of the sample data                                   *)
(* hasSmpRate is never set by any operation of the code and is left out.   *)
(***************************************************************************)
EXTENDS Integers, Sequences

NoDatSet == -1

\* BerEncoder_determineLengthSize, and the bytes BerEncoder_encodeLength writes.
LengthSize(n) == IF n < 128 THEN 1 ELSE IF n < 256 THEN 2 ELSE 3

\* Bytes of a tag and length field, and of a whole element with n content bytes.
TLSize(n)  == 1 + LengthSize(n)
TLVSize(n) == TLSize(n) + n

\* Bytes of an unsigned integer after the leading zeros of its five-byte form
\* are compressed away.
UInt32Size(n) == IF n < 128 THEN 1
                 ELSE IF n < 32768 THEN 2
                 ELSE IF n < 8388608 THEN 3
                 ELSE IF n \div 16777216 < 128 THEN 4 ELSE 5

-----------------------------------------------------------------------------
(* One ASDU. *)

\* A variant that forgets RefrTm, as the code forgets the smpMod header.
EncodedSizeWithoutRefrTm(a) ==
  (2 + a.svID) + (IF a.datset = NoDatSet THEN 0 ELSE 2 + a.datset)
  + 4 + 6 + 3 + (2 + a.dataSize) + (IF a.hasSmpMod THEN 4 ELSE 0)

\* What the code declares as the ASDU's content length.  Every element is
\* counted with a one-byte length field; smpMod is counted without any.
EncodedSize(a) ==
  (2 + a.svID)
  + (IF a.datset = NoDatSet THEN 0 ELSE 2 + a.datset)
  + 4 + 6
  + (IF a.hasRefrTm THEN 10 ELSE 0)
  + 3
  + (2 + a.dataSize)
  + (IF a.hasSmpMod THEN 4 ELSE 0)

\* The declared length of the whole element, as setupComplete adds it up.
DeclaredSize(a) == TLVSize(EncodedSize(a))

\* Where encodeToBuffer writes, relative to the ASDU's own tag.
SmpCntOffset(a) ==
  TLSize(EncodedSize(a))
  + TLVSize(a.svID)
  + (IF a.datset = NoDatSet THEN 0 ELSE TLVSize(a.datset))
  + TLSize(2)

\* A variant whose cursor does not pass the counter.
DataOffsetAtCounter(a) == SmpCntOffset(a) + 1

DataOffset(a) ==
  SmpCntOffset(a) + 2
  + TLVSize(4)
  + (IF a.hasRefrTm THEN TLVSize(8) ELSE 0)
  + TLVSize(1)
  + TLSize(a.dataSize)

WrittenSize(a) ==
  DataOffset(a) + a.dataSize + (IF a.hasSmpMod THEN TLVSize(4) ELSE 0)

\* The declared length is the length of what was written.
LengthsAgree(a) == DeclaredSize(a) = WrittenSize(a)

-----------------------------------------------------------------------------
(* The frame: the ASDUs of the list in order, behind a common header. *)

\* Destination and source address, VLAN tag, EtherType, APPID, length, reserved.
PayloadStart == 6 + 6 + 4 + 2 + 2 + 2 + 4

SizeUpTo(asdus, Size(_)) ==
  LET sum[i \in 0 .. Len(asdus)] ==
        IF i = 0 THEN 0 ELSE sum[i - 1] + Size(asdus[i])
  IN  sum

TotalASDULength(asdus) == SizeUpTo(asdus, DeclaredSize)[Len(asdus)]

InnerSize(asdus) ==
  2 + UInt32Size(Len(asdus)) + TLVSize(TotalASDULength(asdus))

\* Position of the first ASDU in the payload: behind the savPdu tag, noASDU
\* and the sequence tag.
FirstASDU(asdus) ==
  TLSize(InnerSize(asdus)) + 2 + UInt32Size(Len(asdus))
  + TLSize(TotalASDULength(asdus))

ASDUStart(asdus, i) == FirstASDU(asdus) + SizeUpTo(asdus, WrittenSize)[i - 1]

SmpCntPos(asdus, i) == ASDUStart(asdus, i) + SmpCntOffset(asdus[i])
DataPos(asdus, i)   == ASDUStart(asdus, i) + DataOffset(asdus[i])

PayloadLength(asdus) ==
  FirstASDU(asdus) + SizeUpTo(asdus, WrittenSize)[Len(asdus)]

FrameLength(asdus) == PayloadStart + PayloadLength(asdus)

\* A reader walks from ASDU to ASDU by the declared lengths, so it finds the
\* i-th one only if every one before it was declared as long as it is. What it
\* finds behind an ASDU that was declared too short is not modelled: a reader
\* that steps over tags it does not know, as the one in sv_subscriber.c does, may
\* still come upon the next ASDU.
Reachable(asdus) == {i \in DOMAIN asdus : \A j \in 1 .. i - 1 : LengthsAgree(asdus[j])}
=============================================================================
