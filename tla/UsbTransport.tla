---------------------------- MODULE UsbTransport ----------------------------
(***************************************************************************)
(* Frames over a byte stream: Frame and UsbTransport of                    *)
(* backend/crates/coldstar-transport.  The receiver is fed chunks as they  *)
(* come, of any size; bytes may be altered or lost on the way.             *)
(*                                                                         *)
(* Abstractions: a byte is a digit below Base.  The truncated SHA-256 is   *)
(* perfect: a checksum byte carries, besides its digit, what it is the     *)
(* checksum of, and no other byte passes for it.  5 + length + 4 as usize  *)
(* does not overflow on a 64-bit device.                                   *)
(***************************************************************************)
EXTENDS Integers, Sequences

CONSTANTS
    Base,           \* digits of a byte: 256
    ChecksumSize,   \* bytes of the checksum: 4
    MaxPayload,     \* MAX_PAYLOAD
    KnownTypes,     \* the codes of MessageType
    SumDigit,       \* what a checksum byte reads as when taken for another
    Payloads,       \* the payloads that users send
    MaxSends        \* bound: frames sent on a connection

ASSUME TransportAssumption ==
    /\ Base \in Nat \ {0}
    /\ ChecksumSize \in Nat \ {0}
    /\ MaxPayload \in Nat /\ MaxPayload < Base * Base * Base * Base
    /\ KnownTypes \subseteq 0..(Base - 1)
    /\ SumDigit \in 0..(Base - 1)
    /\ Payloads \subseteq Seq(0..(Base - 1))
    /\ MaxSends \in Nat

VARIABLES
    connected,   \* UsbState: Connected or not
    wire,        \* bytes on their way
    rxBuffer,    \* UsbTransport.rx_buffer
    reply,       \* what the last feed_bytes returned
    sent,        \* history: frames sent on this connection
    intact,      \* history: those that no damage befell
    delivered,   \* history: frames that feed_bytes returned
    aligned      \* history: no byte was lost and no length altered

transportVars == <<connected, wire, rxBuffer, reply, sent, intact, delivered, aligned>>

LengthSize == 4
HeaderSize == 5
MinFrameSize == HeaderSize + ChecksumSize
MaxFrameSize == MinFrameSize + MaxPayload

Digits == 0..(Base - 1)

\* encode_message: Frame::new refuses a payload that is too large.
Sendable == {frame \in KnownTypes \X Payloads : Len(frame[2]) <= MaxPayload}

Bytes == [digit: Digits, sumOf: (Sendable \X (1..ChecksumSize)) \cup {<<>>}]
Refusals == {"PayloadTooLarge", "UnknownMessageType", "ChecksumMismatch"}

Plain(digit) == [digit |-> digit, sumOf |-> <<>>]

\* u32::to_be_bytes: the digits of a length, the most significant first.
LengthField(n) ==
    << (n \div (Base * Base * Base)) % Base, (n \div (Base * Base)) % Base,
       (n \div Base) % Base, n % Base >>

TransportInit ==
    /\ connected = FALSE
    /\ wire = <<>>
    /\ rxBuffer = <<>>
    /\ reply = "none"
    /\ sent = <<>>
    /\ intact = <<>>
    /\ delivered = <<>>
    /\ aligned = FALSE

-----------------------------------------------------------------------------

\* Frame::encode.
Encode(frame) ==
    LET payload == frame[2]
    IN  [k \in 1..LengthSize |-> Plain(LengthField(Len(payload))[k])]
        \o <<Plain(frame[1])>>
        \o [k \in 1..Len(payload) |-> Plain(payload[k])]
        \o [k \in 1..ChecksumSize |-> [digit |-> SumDigit, sumOf |-> <<frame, k>>]]

\* u32::from_be_bytes of the length field.
PayloadLen(bytes) ==
    ((bytes[1].digit * Base + bytes[2].digit) * Base + bytes[3].digit) * Base
        + bytes[4].digit

FrameLen(bytes) == HeaderSize + PayloadLen(bytes) + ChecksumSize

\* Frame::decode of exactly one frame: the first check that fails.
Content(bytes) ==
    <<bytes[HeaderSize].digit,
      [k \in 1..PayloadLen(bytes) |-> bytes[HeaderSize + k].digit]>>

SumMatches(bytes) ==
    \A k \in 1..ChecksumSize :
        bytes[HeaderSize + PayloadLen(bytes) + k].sumOf = <<Content(bytes), k>>

DecodeResultTrusting(bytes) ==
    IF PayloadLen(bytes) > MaxPayload THEN "PayloadTooLarge"
    ELSE IF bytes[HeaderSize].digit \notin KnownTypes THEN "UnknownMessageType"
    ELSE "frame"

DecodeResult(bytes) ==
    IF PayloadLen(bytes) > MaxPayload THEN "PayloadTooLarge"
    ELSE IF bytes[HeaderSize].digit \notin KnownTypes THEN "UnknownMessageType"
    ELSE IF ~SumMatches(bytes) THEN "ChecksumMismatch"
    ELSE "frame"

\* The buffer holds a whole frame, by the length it announces.
CompleteLate(buffer) ==
    /\ Len(buffer) >= MinFrameSize
    /\ Len(buffer) > FrameLen(buffer)

Complete(buffer) ==
    /\ Len(buffer) >= MinFrameSize
    /\ Len(buffer) >= FrameLen(buffer)

\* UsbTransport::feed_bytes: at most one frame per call, drained whether it
\* decodes or not.
FeedBytes(data) ==
    LET buffer == rxBuffer \o data
        bytes == SubSeq(buffer, 1, FrameLen(buffer))
    IN  IF ~Complete(buffer)
        THEN /\ rxBuffer' = buffer
             /\ reply' = "none"
             /\ UNCHANGED delivered
        ELSE /\ reply' = DecodeResult(bytes)
             /\ rxBuffer' = SubSeq(buffer, FrameLen(buffer) + 1, Len(buffer))
             /\ delivered' = IF reply' = "frame"
                             THEN Append(delivered, Content(bytes)) ELSE delivered

\* The next chunk comes, of any length; an empty one drains the buffer.
Feed(n) ==
    /\ FeedBytes(SubSeq(wire, 1, n))
    /\ wire' = SubSeq(wire, n + 1, Len(wire))
    /\ UNCHANGED <<connected, sent, intact, aligned>>

-----------------------------------------------------------------------------

Sends(frame) ==
    /\ connected
    /\ Len(sent) < MaxSends
    /\ sent' = Append(sent, frame)
    /\ UNCHANGED <<connected, rxBuffer, reply, delivered>>

Send(frame) ==
    /\ Sends(frame)
    /\ wire' = wire \o Encode(frame)
    /\ intact' = Append(intact, frame)
    /\ UNCHANGED aligned

\* Byte k of the frame arrives as another one, or not at all.
SendAltered(frame, k, digit) ==
    /\ Sends(frame)
    /\ digit # Encode(frame)[k].digit
    /\ wire' = wire \o [Encode(frame) EXCEPT ![k] = Plain(digit)]
    /\ aligned' = (aligned /\ k > LengthSize)
    /\ UNCHANGED intact

SendCut(frame, k) ==
    /\ Sends(frame)
    /\ wire' = wire \o SubSeq(Encode(frame), 1, k - 1)
                    \o SubSeq(Encode(frame), k + 1, Len(Encode(frame)))
    /\ aligned' = FALSE
    /\ UNCHANGED intact

\* set_connected, also when connected already: the buffer is cleared, and
\* nothing of an earlier connection is on the wire.
SetConnectedKeepingBuffer ==
    /\ connected' = TRUE
    /\ rxBuffer' = rxBuffer
    /\ wire' = <<>>
    /\ reply' = "none"
    /\ sent' = <<>>
    /\ intact' = <<>>
    /\ delivered' = <<>>
    /\ aligned' = TRUE

SetConnected ==
    /\ connected' = TRUE
    /\ rxBuffer' = <<>>
    /\ wire' = <<>>
    /\ reply' = "none"
    /\ sent' = <<>>
    /\ intact' = <<>>
    /\ delivered' = <<>>
    /\ aligned' = TRUE

\* set_disconnected: what was read before may still be fed.
SetDisconnected ==
    /\ connected' = FALSE
    /\ rxBuffer' = <<>>
    /\ aligned' = FALSE
    /\ UNCHANGED <<wire, reply, sent, intact, delivered>>

TransportNext ==
    \/ SetConnected
    \/ SetDisconnected
    \/ \E n \in 0..Len(wire) : Feed(n)
    \/ \E frame \in Sendable :
         \/ Send(frame)
         \/ \E k \in 1..Len(Encode(frame)) :
              \/ SendCut(frame, k)
              \/ \E digit \in Digits : SendAltered(frame, k, digit)

TransportSpec == TransportInit /\ [][TransportNext]_transportVars

-----------------------------------------------------------------------------

\* Every variable keeps its type: whatever the wire holds, what is delivered
\* is a frame that encode_message would send.
TransportTypeOK ==
    /\ connected \in BOOLEAN
    /\ wire \in Seq(Bytes)
    /\ rxBuffer \in Seq(Bytes)
    /\ reply \in {"none", "frame"} \cup Refusals
    /\ sent \in Seq(Sendable)
    /\ intact \in Seq(Sendable)
    /\ delivered \in Seq(Sendable)
    /\ aligned \in BOOLEAN

\* Whatever is altered or lost, and wherever feed_bytes believes a frame to
\* begin, it returns only frames that were sent on this connection.
OnlySentFrames ==
    \A i \in 1..Len(delivered) : \E j \in 1..Len(sent) : delivered[i] = sent[j]

\* As long as no length was altered and no byte lost, the transport is a
\* channel for the undamaged frames: a bad frame takes no other with it,
\* however the bytes are cut into chunks.
Channel ==
    INSTANCE FrameChannel WITH
        Frames <- Sendable,
        sent <- IF aligned THEN intact ELSE <<>>,
        received <- IF aligned THEN delivered ELSE <<>>

DeliversInOrder == Channel!ChannelSpec

\* "None if more data is needed": when feed_bytes has said so and nothing is
\* on its way, every undamaged frame has been returned, and nothing but the
\* beginning of one frame waits in the buffer.
NothingIsHeldBack ==
    aligned /\ reply = "none" =>
        /\ Len(rxBuffer) < MaxFrameSize
        /\ wire = <<>> => delivered = intact /\ rxBuffer = <<>>
=============================================================================
