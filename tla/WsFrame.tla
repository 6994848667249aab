------------------------------- MODULE WsFrame -------------------------------
(***************************************************************************)
(* The WebSocket frames of network/TcpSocket.cpp: BuildWsFrame, and        *)
(* DecodeWsData with what it does to the payload of one connection.  Data  *)
(* are sequences of bytes.  The peer follows RFC 6455: RfcFrame is the     *)
(* reference.  Every Recv returns exactly one frame, which the decoder     *)
(* takes for granted (TcpSocket.cpp:772), so a frame received is at most   *)
(* MAXRECV bytes long: see the README for the others.  What is sent has no *)
(* such limit.                                                             *)
(***************************************************************************)
EXTENDS Integers, Sequences

CONSTANTS
  Payloads,     \* Payloads[k]: the data the peer may put into its frame k
  Replies,      \* the data the server sends
  Keys,         \* the masking keys of its frames; <<>> for a frame without
  MAXRECV,      \* the most that one Recv returns
  MaxFrames,    \* bound: frames the peer sends
  MaxPayload    \* bound: nothing follows a longer message

Octet == 0..255

\* The sizes of data have 32 bits in BuildWsFrame (TcpSocket.cpp:219).
Size == {n \in Nat : (n \div 65536) < 65536}

ASSUME WsAssumption ==
  /\ MAXRECV \in Nat /\ MaxFrames \in Nat /\ MaxPayload \in Nat
  /\ Keys \subseteq {<<>>} \cup [1..4 -> Octet]
  /\ Payloads \in [0..MaxFrames -> SUBSET Seq(Octet)] /\ Replies \subseteq Seq(Octet)
  /\ \A k \in 0..MaxFrames : \A data \in Payloads[k] \cup Replies : Len(data) \in Size

VARIABLES
  payload,      \* Conn::payload
  delivered,    \* the payloads ReadData was called with
  frames,       \* frames received so far
  message,      \* ghost: data of the message the peer is sending
  fragmented,   \* ghost: its last frame is still to come
  whole,        \* ghost: the messages it has completed
  ponged,       \* ghost: the peer has sent a PONG
  wire          \* the last frame the server has sent, with its data

wsVars == <<payload, delivered, frames, message, fragmented, whole, ponged, wire>>

CONT == 0
TEXT == 1
BINARY == 2
CLOSE == 8
PING == 9
PONG == 10

\* Exclusive or of two bytes, bit by bit.
Bit(x, weight) == (x \div weight) % 2
Xor(x, y) ==
  LET At(weight) == weight * ((Bit(x, weight) + Bit(y, weight)) % 2)
  IN  At(1) + At(2) + At(4) + At(8) + At(16) + At(32) + At(64) + At(128)

-----------------------------------------------------------------------------
(* RFC 6455, section 5.2.                                                   *)

\* The k bytes of n, the most significant first.
BigEndian(n, k) == [i \in 1..k |-> IF k - i > 3 THEN 0 ELSE (n \div 256^(k - i)) % 256]

RfcLength(masked, n) ==
  LET bit == IF masked THEN 128 ELSE 0
  IN  CASE n <= 125 -> <<bit + n>>
        [] n > 125 /\ n <= 65535 -> <<bit + 126>> \o BigEndian(n, 2)
        [] n > 65535 -> <<bit + 127>> \o BigEndian(n, 8)

Masked(key, data) ==
  IF key = <<>> THEN data
  ELSE [i \in 1..Len(data) |-> Xor(data[i], key[((i - 1) % 4) + 1])]

RfcFrame(fin, opcode, key, data) ==
  <<(IF fin THEN 128 ELSE 0) + opcode>> \o RfcLength(key # <<>>, Len(data)) \o key
  \o Masked(key, data)

-----------------------------------------------------------------------------
(* TcpSocket.                                                               *)

Byte(n, shift) == (n \div 2^shift) % 256

\* ws_header[1] and what follows it, in BuildWsFrame.
LengthField(n) ==
  IF n < 126 THEN <<n>> ELSE IF n <= 65535 THEN <<126, Byte(n, 8), Byte(n, 0)>>
  ELSE <<127, 0, 0, 0, 0, Byte(n, 24), Byte(n, 16), Byte(n, 8), Byte(n, 0)>>

BuildWsFrame(opcode, data) == <<128 + (opcode % 16)>> \o LengthField(Len(data)) \o data

\* header_len, mask_len and data_len.
Layout(buf) ==
  LET len == buf[2] % 128
      mask == IF buf[2] >= 128 THEN 4 ELSE 0
      Short(i) == 256 * buf[i] + buf[i + 1]
      Long(i) == 65536 * Short(i) + Short(i + 2)
      L(header, n) == [header |-> header, mask |-> mask, data |-> n]
  IN  CASE Len(buf) < 2 -> L(0, 0)
        [] len < 126 /\ Len(buf) >= mask -> L(2 + mask, len)
        [] len = 126 /\ Len(buf) >= 4 + mask -> L(4 + mask, Short(3))
        [] OTHER -> IF Len(buf) >= 10 + mask THEN L(10 + mask, 65536 * (65536 * Long(3)) + Long(7))
                    ELSE L(0, 0)

\* The loop that applies the mask, and buf.substr(header_len, data_len).
Unmasked(buf) ==
  LET l == Layout(buf)
      substr == SubSeq(buf, l.header + 1, l.header + l.data)
  IN  IF l.mask = 0 THEN substr
      ELSE [i \in 1..Len(substr) |-> Xor(substr[i], buf[l.header - 3 + ((i - 1) % 4)])]

\* Mutant of NewPayload: a continuation replaces what was there.
NewPayloadReplaced(buf) ==
  IF buf[1] % 16 \in {TEXT, BINARY, CONT} THEN Unmasked(buf) ELSE payload

\* The payload after DecodeWsData.
NewPayload(buf) ==
  LET opcode == buf[1] % 16
  IN  CASE opcode \in {TEXT, BINARY} -> Unmasked(buf)
        [] opcode = CONT -> payload \o Unmasked(buf)
        [] OTHER -> payload

\* What DecodeWsData returns.
WsResult(buf) ==
  LET opcode == buf[1] % 16
  IN  CASE opcode = PING -> "WS_SEND_PONG"
        [] opcode = CLOSE -> "WS_CLOSE"
        [] OTHER -> IF buf[1] >= 128 THEN "WS_DATA" ELSE "WS_PARTIAL"

WsInit ==
  /\ payload = <<>> /\ delivered = <<>> /\ frames = 0
  /\ message = <<>> /\ fragmented = FALSE /\ whole = <<>> /\ ponged = FALSE
  /\ wire = [frame |-> <<>>, data |-> <<>>]

Receive(buf) ==
  /\ payload' = NewPayload(buf)
  /\ delivered' = IF WsResult(buf) = "WS_DATA" THEN Append(delivered, payload') ELSE delivered

\* The frame is read by one Recv.
FitsRecv(key, data) ==
  1 + Len(RfcLength(key # <<>>, Len(data))) + Len(key) + Len(data) <= MAXRECV

\* The peer's next frame: fragments in order, control frames in between.
PeerSendsData(fin, key, data) ==
  /\ \E opcode \in IF fragmented THEN {CONT} ELSE {TEXT, BINARY} :
       Receive(RfcFrame(fin, opcode, key, data))
  /\ fragmented' = ~fin
  /\ message' = (IF fragmented THEN message \o data ELSE data)
  /\ whole' = (IF fin THEN Append(whole, message') ELSE whole)
  /\ UNCHANGED ponged

PeerSendsControl(key, data) ==
  /\ Len(data) <= 125
  /\ \E opcode \in {PING, PONG, CLOSE} :
       /\ Receive(RfcFrame(TRUE, opcode, key, data))
       /\ ponged' = (ponged \/ opcode = PONG)
  /\ UNCHANGED <<message, fragmented, whole>>

PeerSends ==
  /\ frames < MaxFrames /\ frames' = frames + 1
  /\ Len(payload) + Len(wire.data) <= MaxPayload
  /\ \E key \in Keys, data \in Payloads[frames] :
       /\ FitsRecv(key, data)
       /\ \/ \E fin \in BOOLEAN : PeerSendsData(fin, key, data)
          \/ PeerSendsControl(key, data)
  /\ UNCHANGED wire

ServerSends ==
  /\ frames = 0
  /\ \E data \in Replies : wire' = [frame |-> BuildWsFrame(TEXT, data), data |-> data]
  /\ UNCHANGED <<payload, delivered, frames, message, fragmented, whole, ponged>>

WsNext == PeerSends \/ ServerSends

WsSpec == WsInit /\ [][WsNext]_wsVars

-----------------------------------------------------------------------------

\* With a frame in every Recv, ReadData is called with the messages the peer has
\* completed, each of them whole and once, however they were fragmented, masked
\* and mixed with PINGs; a frame is at most MAXRECV bytes, a message any number.
\* A PONG is the exception: DecodeWsData (TcpSocket.cpp:862) treats it as the
\* end of a message and delivers the payload as it is.
MessagesDelivered == ~ponged => delivered = whole

\* What the server sends is a frame of RFC 6455, at every length boundary.
SentIsRfc == wire.frame # <<>> => wire.frame = RfcFrame(TRUE, TEXT, <<>>, wire.data)

\* WebSocket frames (TcpSocket.cpp:216-261, 772-878): messages in frames that
\* are read one at a time are delivered whole and once, and what the server
\* sends, however long, are frames of RFC 6455.
FramesExchanged == MessagesDelivered /\ SentIsRfc
=============================================================================
