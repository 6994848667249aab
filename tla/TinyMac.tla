------------------------------- MODULE TinyMac -------------------------------
(***************************************************************************)
(* The frames of protocol/TinyMac.cpp between a sender and a receiver.     *)
(* Sizes have 8 bits.  Data are a count of bytes, the fields of the header *)
(* are left out, and AES-GCM is abstracted to whether the body in the      *)
(* frame is the one the MIC was computed for.                              *)
(***************************************************************************)
EXTENDS Integers

CONSTANT DataSizes   \* sizes of the strings given to BuildData

ASSUME MacAssumption == DataSizes \subseteq Nat

TM_MAX_PAYLOAD_SIZE == 240
TM_MAC_HEADER_SIZE == 9
TM_MAC_SIZE == TM_MAC_HEADER_SIZE + 4

U8(n) == n % 256

VARIABLES
  mPayloadSize, mWrIndex,   \* of the sender
  air,          \* the frame: its body, whether it is encrypted, and its size
  rxPayloadSize,\* mPayloadSize of the receiver
  verified,     \* what its Decrypt has returned
  rxSize        \* ghost: with which size it was called

macVars == <<mPayloadSize, mWrIndex, air, rxPayloadSize, verified, rxSize>>

MacInit == /\ mPayloadSize = 0 /\ mWrIndex = 0
           /\ air = [given |-> 0, body |-> 0, sealed |-> FALSE, size |-> 0]
           /\ rxPayloadSize = 0 /\ verified = FALSE /\ rxSize = 0

GetSize(payload) == U8(TM_MAC_SIZE + payload)

\* AddHeader, AddBuffer of size bytes in all, and MacFinish(replace).
Build(size, given, replace) ==
  /\ mPayloadSize' = size
  /\ mWrIndex' = U8(U8(TM_MAC_HEADER_SIZE + size) + 4)
  /\ air' = [given |-> given, body |-> size, sealed |-> replace, size |-> GetSize(size)]
  /\ rxPayloadSize' = 0 /\ verified' = FALSE /\ rxSize' = 0

BuildJoinNetwork == Build(16, 16, FALSE)

\* data.size() is cut to 8 bits; beyond the maximum the packet overflows.
BuildData(n) == U8(n) <= TM_MAX_PAYLOAD_SIZE /\ Build(U8(n), n, TRUE)

\* Mutant of Received: the header is taken for payload.
ReceivedWithHeader(size) == U8(size - 4)

Received(size) == U8(size - TM_MAC_SIZE)

\* Decrypt of the first size bytes.  The MIC is that of the encrypted body: it
\* is found only where the whole frame ends, and not behind a clear body.
Decrypt(size) ==
  /\ size > 0
  /\ rxPayloadSize' = Received(size) /\ rxSize' = size
  /\ verified' = (air.sealed /\ size = air.size /\ Received(size) = air.body)
  /\ UNCHANGED <<mPayloadSize, mWrIndex, air>>

MacNext == \/ BuildJoinNetwork
           \/ \E n \in DataSizes : BuildData(n)
           \/ \E cut \in {0, 1, 4, 13} : Decrypt(air.size - cut)

MacSpec == MacInit /\ [][MacNext]_macVars

-----------------------------------------------------------------------------

\* A frame verifies exactly if it is a data frame that was received whole, and
\* gives then as many bytes as BuildData was given, if it can carry them
\* (TinyMac.cpp:15-44, 47-80).  A join request, sent in clear behind the MIC of
\* the encrypted body, never verifies.
WholeDataVerifies ==
  rxSize > 0 =>
    /\ verified <=> (air.sealed /\ rxSize = air.size)
    /\ verified /\ air.given <= TM_MAX_PAYLOAD_SIZE => rxPayloadSize = air.given

\* The two sizes the sender keeps agree: the MIC that is written at mWrIndex
\* ends where GetSize says the frame ends (TinyMac.cpp:78-79, TinyMac.h).
MicEndsFrame == air.size > 0 => air.size = mWrIndex /\ air.size <= 253

\* TinyMac: exactly the whole data frames verify, they give the data back, and
\* the two sizes the sender keeps agree (TinyMac.cpp:15-111).
MacVerifies == WholeDataVerifies /\ MicEndsFrame
=============================================================================
