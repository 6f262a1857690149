------------------------- MODULE UsbTransportProofs -------------------------
(***************************************************************************)
(* What the transport guarantees for bytes of any size, any limit and any  *)
(* payloads, and whatever happens to the bytes on their way.               *)
(*                                                                         *)
(* Delivery in order rests on framing.  Where feed_bytes begins to read is *)
(* nowhere marked, so the invariant (ChannelInv) says that the buffer and  *)
(* the wire together can be cut into frames, each whole or with one byte   *)
(* altered that is not of its length, and that the whole ones are the      *)
(* undamaged frames not returned yet.  The length field, read back with    *)
(* its four digits, is then that of the first frame cut off, whatever      *)
(* became of the rest of it.                                               *)
(***************************************************************************)
EXTENDS UsbTransport, SequenceTheorems, TLAPS

-----------------------------------------------------------------------------
(* Bytes and lengths.                                                      *)

\* What the bytes of a connection can be: digits, of which some are the
\* checksum of a frame sent on it.
SentFrames == {sent[j] : j \in 1..Len(sent)}
SentBytes == [digit: Digits, sumOf: (SentFrames \X (1..ChecksumSize)) \cup {<<>>}]

\* The assumption in parts, so that a step has only what it needs.
LEMMA SizesTyped ==
    /\ ChecksumSize \in Nat /\ ChecksumSize > 0 /\ MaxPayload \in Nat
    /\ HeaderSize = 5 /\ LengthSize = 4
BY TransportAssumption DEF HeaderSize, LengthSize

LEMMA DigitsTyped ==
    /\ Base \in Nat /\ Base > 0 /\ Digits = 0..(Base - 1)
    /\ KnownTypes \subseteq Digits /\ SumDigit \in Digits
    /\ Payloads \subseteq Seq(Digits)
BY TransportAssumption DEF Digits

LEMMA RemainderIsDigit ==
    ASSUME NEW n \in Int
    PROVE  n % Base \in Digits
BY DigitsTyped

LEMMA LengthFieldTyped ==
    ASSUME NEW n \in Nat, NEW k \in 1..LengthSize
    PROVE  LengthField(n)[k] \in Digits
<1>1. Base \in Int /\ Base > 0 /\ Base * Base > 0 /\ Base * Base * Base > 0
  BY DigitsTyped
<1>2. /\ n \div (Base * Base * Base) \in Int
      /\ n \div (Base * Base) \in Int
      /\ n \div Base \in Int
  BY <1>1
<1>3. LengthField(n) \in Digits \X Digits \X Digits \X Digits
  BY <1>2, RemainderIsDigit DEF LengthField
<1> QED
  BY <1>3 DEF LengthSize

LEMMA PositionalNumberTyped ==
    ASSUME NEW a \in Nat, NEW b \in Nat, NEW c \in Nat, NEW d \in Nat
    PROVE  ((a * Base + b) * Base + c) * Base + d \in Nat
<1>1. Base \in Nat
  BY DigitsTyped
<1>2. \A n \in Nat : n * Base \in Nat
  BY <1>1
<1>3. a * Base + b \in Nat
  BY <1>2
<1>4. (a * Base + b) * Base + c \in Nat
  BY <1>2, <1>3
<1> QED
  BY <1>2, <1>4

LEMMA PayloadLenTyped ==
    ASSUME NEW bytes \in Seq(SentBytes),
           Len(bytes) >= MinFrameSize
    PROVE  PayloadLen(bytes) \in Nat
<1>1. MinFrameSize \in Nat /\ MinFrameSize >= 4 /\ Len(bytes) \in Nat
  BY SizesTyped DEF MinFrameSize
<1>2. \A k \in 1..4 : k \in 1..Len(bytes)
  BY <1>1
<1>3. \A k \in 1..4 : bytes[k] \in SentBytes
  BY <1>2, ElementOfSeq
<1>4. Digits \subseteq Nat
  BY DigitsTyped
<1>5. \A k \in 1..4 : bytes[k].digit \in Nat
  BY <1>3, <1>4 DEF SentBytes
<1>6. /\ bytes[1].digit \in Nat /\ bytes[2].digit \in Nat
      /\ bytes[3].digit \in Nat /\ bytes[4].digit \in Nat
  BY <1>5
<1> QED
  BY <1>6, PositionalNumberTyped, Zenon DEF PayloadLen

LEMMA ArrayIsSeq ==
    ASSUME NEW S, NEW n \in Nat, NEW f \in [1..n -> S]
    PROVE  f \in Seq(S)
BY SeqDef

\* Encode makes bytes of any set that has the digits and the frame's own
\* checksum.
LEMMA EncodeTyped ==
    ASSUME NEW frame \in Sendable,
           NEW F, frame \in F
    PROVE  Encode(frame) \in
               Seq([digit: Digits, sumOf: (F \X (1..ChecksumSize)) \cup {<<>>}])
<1> DEFINE B == [digit: Digits, sumOf: (F \X (1..ChecksumSize)) \cup {<<>>}]
           payload == frame[2]
           field == [k \in 1..LengthSize |-> Plain(LengthField(Len(payload))[k])]
           kind == <<Plain(frame[1])>>
           body == [k \in 1..Len(payload) |-> Plain(payload[k])]
           sum == [k \in 1..ChecksumSize |-> [digit |-> SumDigit, sumOf |-> <<frame, k>>]]
<1>1. frame[1] \in Digits /\ payload \in Seq(Digits)
  BY DigitsTyped DEF Sendable
<1>2. \A d \in Digits : Plain(d) \in B
  BY DEF Plain
<1> HIDE DEF payload
<1>3. field \in Seq(B)
  <2>1. Len(payload) \in Nat /\ LengthSize \in Nat
    BY <1>1 DEF LengthSize
  <2>2. field \in [1..LengthSize -> B]
    BY <2>1, <1>2, LengthFieldTyped
  <2> QED
    BY <2>1, <2>2, ArrayIsSeq
<1>4. kind \in Seq(B)
  BY <1>1, <1>2
<1>5. body \in Seq(B)
  <2>1. Len(payload) \in Nat /\ \A k \in 1..Len(payload) : payload[k] \in Digits
    BY <1>1
  <2>2. body \in [1..Len(payload) -> B]
    BY <2>1, <1>2
  <2> QED
    BY <2>1, <2>2, ArrayIsSeq
<1>6. sum \in Seq(B)
  <2>1. ChecksumSize \in Nat /\ SumDigit \in Digits
    BY SizesTyped, DigitsTyped
  <2>2. sum \in [1..ChecksumSize -> B]
    BY <2>1
  <2> QED
    BY <2>1, <2>2, ArrayIsSeq
<1>7. Encode(frame) = field \o kind \o body \o sum
  BY DEF Encode, payload
<1> HIDE DEF B, field, kind, body, sum
<1>8. Encode(frame) \in Seq(B)
  BY <1>3, <1>4, <1>5, <1>6, <1>7
<1> QED
  BY <1>8 DEF B

-----------------------------------------------------------------------------
(* The checksum vouches for the frame.                                     *)

\* A whole frame that decodes is one that was sent.
LEMMA DecodedFrameWasSent ==
    ASSUME NEW bytes \in Seq(SentBytes),
           Len(bytes) >= MinFrameSize,
           Len(bytes) = FrameLen(bytes),
           DecodeResult(bytes) = "frame"
    PROVE  Content(bytes) \in SentFrames
<1>1. SumMatches(bytes)
  BY DEF DecodeResult
<1>2. PayloadLen(bytes) \in Nat
  BY PayloadLenTyped
<1>3. 1 \in 1..ChecksumSize
  BY SizesTyped
<1> DEFINE at == HeaderSize + PayloadLen(bytes) + 1
<1>4. bytes[at].sumOf = <<Content(bytes), 1>>
  BY <1>1, <1>3 DEF SumMatches
<1>5. at \in 1..Len(bytes)
  BY <1>2, SizesTyped DEF FrameLen
<1>6. bytes[at] \in SentBytes
  BY <1>5, ElementOfSeq
<1>7. bytes[at].sumOf \in (SentFrames \X (1..ChecksumSize)) \cup {<<>>}
  BY <1>6 DEF SentBytes
<1>8. <<Content(bytes), 1>> # <<>>
  OBVIOUS
<1> QED
  BY <1>4, <1>7, <1>8

LEMMA DecodeResultTyped ==
    ASSUME NEW bytes
    PROVE  DecodeResult(bytes) \in {"frame"} \cup Refusals
BY DEF DecodeResult, Refusals

-----------------------------------------------------------------------------
(* The invariant.                                                          *)

\* Wherever a byte is, if it is part of a checksum then of a frame that was
\* sent; and every frame returned was sent.
TransportInv ==
    /\ connected \in BOOLEAN
    /\ aligned \in BOOLEAN
    /\ reply \in {"none", "frame"} \cup Refusals
    /\ sent \in Seq(Sendable)
    /\ intact \in Seq(Sendable)
    /\ wire \in Seq(SentBytes)
    /\ rxBuffer \in Seq(SentBytes)
    /\ delivered \in Seq(SentFrames)

LEMMA TransportInvInit == TransportInit => TransportInv
<1> SUFFICES ASSUME TransportInit PROVE TransportInv
  OBVIOUS
<1>1. \A S : <<>> \in Seq(S)
  BY EmptySeq
<1> QED
  BY <1>1 DEF TransportInit, TransportInv

LEMMA SlicesTyped ==
    ASSUME NEW S, NEW seq \in Seq(S), NEW n \in 0..Len(seq)
    PROVE  /\ SubSeq(seq, 1, n) \in Seq(S)
           /\ Len(SubSeq(seq, 1, n)) = n
           /\ SubSeq(seq, n + 1, Len(seq)) \in Seq(S)
<1>1. Len(seq) \in Nat /\ \A i \in 1..Len(seq) : seq[i] \in S
  BY LenProperties, ElementOfSeq
<1>2. \A i \in 1..n : seq[i] \in S
  BY <1>1
<1>3. \A i \in (n + 1)..Len(seq) : seq[i] \in S
  BY <1>1
<1>4. SubSeq(seq, 1, n) \in Seq(S) /\ Len(SubSeq(seq, 1, n)) = n
  BY <1>1, <1>2, SubSeqProperties
<1>5. SubSeq(seq, n + 1, Len(seq)) \in Seq(S)
  BY <1>1, <1>3, SubSeqProperties
<1> QED
  BY <1>4, <1>5

\* feed_bytes: the frame drained is a whole one, so a frame returned passed
\* the checksum.
LEMMA FeedKeepsInv ==
    ASSUME TransportInv, NEW n \in 0..Len(wire), Feed(n)
    PROVE  TransportInv'
<1> DEFINE data == SubSeq(wire, 1, n)
           buffer == rxBuffer \o data
           bytes == SubSeq(buffer, 1, FrameLen(buffer))
<1>1. UNCHANGED <<connected, sent, intact, aligned, SentFrames, SentBytes>>
  BY DEF Feed, SentFrames, SentBytes
<1>2. data \in Seq(SentBytes) /\ wire' \in Seq(SentBytes)
  BY SlicesTyped DEF TransportInv, Feed
<1>3. buffer \in Seq(SentBytes)
  BY <1>2 DEF TransportInv
<1>4. FeedBytes(data)
  BY DEF Feed
<1> HIDE DEF data, buffer
<1>5. CASE ~Complete(buffer)
  <2>1. rxBuffer' = buffer /\ reply' = "none" /\ delivered' = delivered
    BY <1>4, <1>5 DEF FeedBytes, buffer
  <2> QED
    BY <2>1, <1>1, <1>2, <1>3 DEF TransportInv
<1>6. CASE Complete(buffer)
  <2>1. /\ reply' = DecodeResult(bytes)
        /\ rxBuffer' = SubSeq(buffer, FrameLen(buffer) + 1, Len(buffer))
        /\ delivered' = IF reply' = "frame"
                        THEN Append(delivered, Content(bytes)) ELSE delivered
    BY <1>4, <1>6 DEF FeedBytes, buffer
  <2>2. Len(buffer) \in Nat /\ Len(buffer) >= MinFrameSize
    BY <1>3, <1>6, LenProperties DEF Complete
  <2>3. PayloadLen(buffer) \in Nat
    BY <1>3, <2>2, PayloadLenTyped
  <2>4. FrameLen(buffer) \in 0..Len(buffer) /\ FrameLen(buffer) >= MinFrameSize
    BY <2>2, <2>3, <1>6, SizesTyped DEF Complete, FrameLen, MinFrameSize
  <2>5. /\ bytes \in Seq(SentBytes)
        /\ Len(bytes) = FrameLen(buffer)
        /\ rxBuffer' \in Seq(SentBytes)
    BY <1>3, <2>1, <2>4, SlicesTyped
  <2>6. FrameLen(bytes) = FrameLen(buffer)
    <3>1. MinFrameSize >= 4 /\ MinFrameSize \in Nat
      BY SizesTyped DEF MinFrameSize
    <3>2. \A k \in 1..4 : bytes[k] = buffer[k]
      BY <1>3, <2>2, <2>4, <3>1
    <3> HIDE DEF bytes
    <3>3. /\ bytes[1] = buffer[1] /\ bytes[2] = buffer[2]
          /\ bytes[3] = buffer[3] /\ bytes[4] = buffer[4]
      BY <3>2
    <3>4. PayloadLen(bytes) = PayloadLen(buffer)
      BY <3>3, Zenon DEF PayloadLen
    <3> QED
      BY <3>4 DEF FrameLen
  <2>7. delivered' \in Seq(SentFrames)
    <3>1. CASE reply' = "frame"
      <4>1. Content(bytes) \in SentFrames
        BY <3>1, <2>1, <2>4, <2>5, <2>6, DecodedFrameWasSent
      <4> QED
        BY <4>1, <3>1, <2>1 DEF TransportInv
    <3>2. CASE reply' # "frame"
      BY <3>2, <2>1 DEF TransportInv
    <3> QED
      BY <3>1, <3>2
  <2>8. reply' \in {"none", "frame"} \cup Refusals
    BY <2>1, DecodeResultTyped
  <2> QED
    BY <2>5, <2>7, <2>8, <1>1, <1>2 DEF TransportInv
<1> QED
  BY <1>5, <1>6

\* A frame sent is one more that a checksum may be of.
LEMMA SendsWiden ==
    ASSUME TransportInv, NEW frame \in Sendable, Sends(frame)
    PROVE  /\ sent' \in Seq(Sendable)
           /\ wire \in Seq(SentBytes')
           /\ rxBuffer' \in Seq(SentBytes')
           /\ delivered' \in Seq(SentFrames')
           /\ Encode(frame) \in Seq(SentBytes')
<1>1. sent' = Append(sent, frame) /\ sent \in Seq(Sendable)
  BY DEF Sends, TransportInv
<1>2. SentFrames \subseteq SentFrames' /\ frame \in SentFrames'
  <2>1. /\ Len(sent) \in Nat /\ Len(sent') = Len(sent) + 1
        /\ \A j \in 1..Len(sent) : sent'[j] = sent[j]
        /\ sent'[Len(sent) + 1] = frame
    BY <1>1
  <2> QED
    BY <2>1 DEF SentFrames
<1>3. SentBytes \subseteq SentBytes'
  BY <1>2 DEF SentBytes
<1>4. Encode(frame) \in Seq(SentBytes')
  BY <1>2, EncodeTyped DEF SentBytes
<1>5. sent' \in Seq(Sendable)
  BY <1>1
<1>6. wire \in Seq(SentBytes') /\ rxBuffer' \in Seq(SentBytes')
  BY <1>3, SeqMonotonic DEF TransportInv, Sends
<1>7. delivered' \in Seq(SentFrames')
  BY <1>2, SeqMonotonic DEF TransportInv, Sends
<1> QED
  BY <1>4, <1>5, <1>6, <1>7

LEMMA SendKeepsInv ==
    ASSUME TransportInv, NEW frame \in Sendable, Send(frame)
    PROVE  TransportInv'
<1>1. Sends(frame)
  BY DEF Send
<1>2. wire' \in Seq(SentBytes')
  BY <1>1, SendsWiden DEF Send
<1>3. intact' \in Seq(Sendable) /\ UNCHANGED <<connected, reply, aligned>>
  BY DEF Send, Sends, TransportInv
<1> QED
  BY <1>1, <1>2, <1>3, SendsWiden DEF TransportInv

LEMMA SendAlteredKeepsInv ==
    ASSUME TransportInv, NEW frame \in Sendable,
           NEW k \in 1..Len(Encode(frame)), NEW digit \in Digits,
           SendAltered(frame, k, digit)
    PROVE  TransportInv'
<1>1. Sends(frame)
  BY DEF SendAltered
<1>2. Plain(digit) \in SentBytes'
  BY DEF Plain, SentBytes
<1>3. Encode(frame) \in Seq(SentBytes') /\ wire \in Seq(SentBytes')
  BY <1>1, SendsWiden
<1>4. [Encode(frame) EXCEPT ![k] = Plain(digit)] \in Seq(SentBytes')
  BY <1>2, <1>3, ExceptSeq
<1>5. wire' \in Seq(SentBytes')
  BY <1>3, <1>4 DEF SendAltered
<1>6. /\ intact' \in Seq(Sendable) /\ aligned' \in BOOLEAN
      /\ UNCHANGED <<connected, reply>>
  BY DEF SendAltered, Sends, TransportInv
<1> QED
  BY <1>1, <1>5, <1>6, SendsWiden DEF TransportInv

LEMMA SendCutKeepsInv ==
    ASSUME TransportInv, NEW frame \in Sendable,
           NEW k \in 1..Len(Encode(frame)),
           SendCut(frame, k)
    PROVE  TransportInv'
<1>1. Sends(frame)
  BY DEF SendCut
<1>2. Encode(frame) \in Seq(SentBytes') /\ wire \in Seq(SentBytes')
  BY <1>1, SendsWiden
<1>3. k - 1 \in 0..Len(Encode(frame))
  BY <1>2
<1>4. /\ SubSeq(Encode(frame), 1, k - 1) \in Seq(SentBytes')
      /\ SubSeq(Encode(frame), k + 1, Len(Encode(frame))) \in Seq(SentBytes')
  BY <1>2, <1>3, SlicesTyped
<1>5. wire' \in Seq(SentBytes')
  BY <1>2, <1>4 DEF SendCut
<1>6. /\ intact' \in Seq(Sendable) /\ aligned' \in BOOLEAN
      /\ UNCHANGED <<connected, reply>>
  BY DEF SendCut, Sends, TransportInv
<1> QED
  BY <1>1, <1>5, <1>6, SendsWiden DEF TransportInv

LEMMA TransportInvNext ==
    TransportInv /\ [TransportNext]_transportVars => TransportInv'
<1> SUFFICES ASSUME TransportInv, [TransportNext]_transportVars
             PROVE  TransportInv'
  OBVIOUS
<1>1. CASE SetConnected
  <2>1. \A S : <<>> \in Seq(S)
    BY EmptySeq
  <2> QED
    BY <1>1, <2>1, Zenon DEF SetConnected, TransportInv
<1>2. CASE SetDisconnected
  <2>1. UNCHANGED <<sent, SentFrames, SentBytes>>
    BY <1>2 DEF SetDisconnected, SentFrames, SentBytes
  <2>2. \A S : <<>> \in Seq(S)
    BY EmptySeq
  <2> QED
    BY <1>2, <2>1, <2>2 DEF SetDisconnected, TransportInv
<1>3. CASE \E n \in 0..Len(wire) : Feed(n)
  BY <1>3, FeedKeepsInv
<1>4. CASE \E frame \in Sendable : Send(frame)
  BY <1>4, SendKeepsInv
<1>5. CASE \E frame \in Sendable : \E k \in 1..Len(Encode(frame)) : SendCut(frame, k)
  BY <1>5, SendCutKeepsInv
<1>6. CASE \E frame \in Sendable : \E k \in 1..Len(Encode(frame)) :
               \E digit \in Digits : SendAltered(frame, k, digit)
  BY <1>6, SendAlteredKeepsInv
<1>7. CASE UNCHANGED transportVars
  BY <1>7 DEF transportVars, TransportInv, SentFrames, SentBytes
<1> QED
  BY <1>1, <1>2, <1>3, <1>4, <1>5, <1>6, <1>7 DEF TransportNext

LEMMA TransportInvAlways == TransportSpec => []TransportInv
BY TransportInvInit, TransportInvNext, PTL DEF TransportSpec

-----------------------------------------------------------------------------
(* What follows from it.                                                   *)

\* Every variable keeps its type, whatever happens to the bytes: what
\* feed_bytes returns is a frame that encode_message could have sent.
THEOREM TransportTyped == TransportSpec => []TransportTypeOK
<1>1. TransportInv => TransportTypeOK
  <2> SUFFICES ASSUME TransportInv PROVE TransportTypeOK
    OBVIOUS
  <2>1. SentFrames \subseteq Sendable
    BY ElementOfSeq DEF TransportInv, SentFrames
  <2>2. SentBytes \subseteq Bytes
    BY <2>1 DEF SentBytes, Bytes
  <2>3. /\ wire \in Seq(Bytes) /\ rxBuffer \in Seq(Bytes)
        /\ delivered \in Seq(Sendable)
    BY <2>1, <2>2, SeqMonotonic DEF TransportInv
  <2> QED
    BY <2>3 DEF TransportInv, TransportTypeOK
<1> QED
  BY <1>1, TransportInvAlways, PTL

\* With bytes altered or lost at any place and chunks of any size, a frame
\* that feed_bytes returns is one of those sent on the connection.
THEOREM OnlyFramesSent == TransportSpec => []OnlySentFrames
<1>1. TransportInv => OnlySentFrames
  <2> SUFFICES ASSUME TransportInv, NEW i \in 1..Len(delivered)
               PROVE  \E j \in 1..Len(sent) : delivered[i] = sent[j]
    BY DEF OnlySentFrames
  <2>1. delivered[i] \in SentFrames
    BY ElementOfSeq DEF TransportInv
  <2> QED
    BY <2>1 DEF SentFrames
<1> QED
  BY <1>1, TransportInvAlways, PTL

-----------------------------------------------------------------------------
(* The length field says how long a frame is.                              *)

LEMMA Division ==
    ASSUME NEW n \in Nat, NEW d \in Nat, d > 0
    PROVE  n \div d \in Nat /\ n % d \in 0..(d - 1) /\ n = d * (n \div d) + (n % d)
OBVIOUS

LEMMA DivisionIsUnique ==
    ASSUME NEW d \in Nat, d > 0, NEW q \in Nat, NEW r \in Nat, r < d
    PROVE  (d * q + r) \div d = q
OBVIOUS

LEMMA ProductGrows ==
    ASSUME NEW a \in Nat, NEW b \in Nat, NEW d \in Nat, a <= b
    PROVE  d * a <= d * b
<1>1. d * (b - a) >= 0
  OBVIOUS
<1>2. d * (b - a) = d * b - d * a
  OBVIOUS
<1> QED
  BY <1>1, <1>2

\* Dividing twice is dividing by the product.
LEMMA DivisionByProduct ==
    ASSUME NEW n \in Nat, NEW d \in Nat, d > 0, NEW e \in Nat, e > 0
    PROVE  n \div (d * e) = (n \div d) \div e
<1> DEFINE q == n \div d
           s == q \div e
           r == n % d
           t == q % e
<1>1. q \in Nat /\ r \in 0..(d - 1) /\ n = d * q + r
  BY Division
<1>2. s \in Nat /\ t \in 0..(e - 1) /\ q = e * s + t
  BY <1>1, Division
<1> HIDE DEF q, r, s, t
<1>3. d * t <= d * (e - 1)
  BY <1>2, ProductGrows
<1>4. d * (e - 1) = d * e - d /\ d * e \in Nat /\ d * e > 0
  OBVIOUS
<1>5. d * t + r \in Nat /\ d * t + r < d * e
  BY <1>1, <1>2, <1>3, <1>4
<1>6. d * (e * s + t) + r = (d * e) * s + (d * t + r)
  BY <1>1, <1>2
<1>7. ((d * e) * s + (d * t + r)) \div (d * e) = s
  BY <1>2, <1>4, <1>5, DivisionIsUnique
<1>8. n \div (d * e) = s
  BY <1>1, <1>2, <1>6, <1>7
<1> QED
  BY <1>8 DEF q, s

\* u32::from_be_bytes reads what u32::to_be_bytes wrote, if it fits the field.
LEMMA LengthReadBack ==
    ASSUME NEW n \in 0..MaxPayload, NEW bytes,
           \A k \in 1..LengthSize : bytes[k].digit = LengthField(n)[k]
    PROVE  PayloadLen(bytes) = n
<1> DEFINE q1 == n \div Base
           q2 == q1 \div Base
           q3 == q2 \div Base
<1>1. Base \in Nat /\ Base > 0 /\ n \in Nat /\ n < Base * Base * Base * Base
  BY TransportAssumption
<1>2. q1 \in Nat /\ n % Base \in 0..(Base - 1) /\ n = Base * q1 + (n % Base)
  BY <1>1, Division
<1>3. q2 \in Nat /\ q1 % Base \in 0..(Base - 1) /\ q1 = Base * q2 + (q1 % Base)
  BY <1>1, <1>2, Division
<1>4. q3 \in Nat /\ q2 % Base \in 0..(Base - 1) /\ q2 = Base * q3 + (q2 % Base)
  BY <1>1, <1>3, Division
<1>5. n \div (Base * Base) = q2
  BY <1>1, DivisionByProduct
<1>6. n \div (Base * Base * Base) = q3
  <2>1. Base * Base \in Nat /\ Base * Base > 0
    BY <1>1
  <2>2. n \div ((Base * Base) * Base) = (n \div (Base * Base)) \div Base
    BY <1>1, <2>1, DivisionByProduct
  <2> QED
    BY <1>5, <2>2
<1> HIDE DEF q1, q2, q3
<1>7. q3 < Base
  <2> SUFFICES ASSUME q3 >= Base PROVE FALSE
    BY <1>1, <1>4
  <2>1. Base * Base <= Base * q3
    BY <1>1, <1>4, ProductGrows
  <2>2. q2 \in Nat /\ Base * Base \in Nat /\ Base * Base <= q2
    BY <1>1, <1>3, <1>4, <2>1
  <2>3. Base * (Base * Base) <= Base * q2
    BY <1>1, <2>2, ProductGrows
  <2>4. Base * (Base * Base) \in Nat /\ Base * (Base * Base) <= q1
    BY <1>1, <1>2, <1>3, <2>2, <2>3
  <2>5. Base * (Base * (Base * Base)) <= Base * q1
    BY <1>1, <1>2, <2>4, ProductGrows
  <2>6. Base * (Base * (Base * Base)) = Base * Base * Base * Base
    BY <1>1
  <2> QED
    BY <1>1, <1>2, <2>5, <2>6
<1>8. q3 % Base = q3
  BY <1>1, <1>4, <1>7
<1>9. LengthField(n) = <<q3, q2 % Base, q1 % Base, n % Base>>
  BY <1>5, <1>6, <1>8 DEF LengthField, q1
<1>10. /\ bytes[1].digit = q3 /\ bytes[2].digit = q2 % Base
       /\ bytes[3].digit = q1 % Base /\ bytes[4].digit = n % Base
  BY <1>9 DEF LengthSize
<1>11. /\ q3 * Base + (q2 % Base) = q2 /\ q2 * Base + (q1 % Base) = q1
       /\ q1 * Base + (n % Base) = n
  BY <1>1, <1>2, <1>3, <1>4
<1> QED
  BY <1>10, <1>11 DEF PayloadLen

\* Elements of a concatenation, counted from where each part begins.
LEMMA Joined ==
    ASSUME NEW S, NEW s \in Seq(S), NEW t \in Seq(S)
    PROVE  /\ s \o t \in Seq(S)
           /\ Len(s \o t) = Len(s) + Len(t)
           /\ \A k \in 1..Len(s) : (s \o t)[k] = s[k]
           /\ \A k \in 1..Len(t) : (s \o t)[Len(s) + k] = t[k]
<1>1. /\ s \o t \in Seq(S) /\ Len(s) \in Nat /\ Len(t) \in Nat
      /\ Len(s \o t) = Len(s) + Len(t)
      /\ \A i \in 1..(Len(s) + Len(t)) : (s \o t)[i] = IF i <= Len(s) THEN s[i] ELSE t[i - Len(s)]
  BY ConcatProperties
<1>2. \A k \in 1..Len(s) : k \in 1..(Len(s) + Len(t)) /\ k <= Len(s)
  BY <1>1
<1>3. \A k \in 1..Len(t) : /\ Len(s) + k \in 1..(Len(s) + Len(t))
                           /\ ~(Len(s) + k <= Len(s)) /\ (Len(s) + k) - Len(s) = k
  BY <1>1
<1> QED
  BY <1>1, <1>2, <1>3

\* Where in an encoded frame everything is.
LEMMA EncodeShape ==
    ASSUME NEW frame \in Sendable
    PROVE  /\ Len(frame[2]) \in 0..MaxPayload
           /\ Len(Encode(frame)) = HeaderSize + Len(frame[2]) + ChecksumSize
           /\ \A k \in 1..LengthSize :
                  Encode(frame)[k] = Plain(LengthField(Len(frame[2]))[k])
           /\ Encode(frame)[HeaderSize] = Plain(frame[1])
           /\ \A k \in 1..Len(frame[2]) :
                  Encode(frame)[HeaderSize + k] = Plain(frame[2][k])
           /\ \A k \in 1..ChecksumSize :
                  Encode(frame)[HeaderSize + Len(frame[2]) + k]
                      = [digit |-> SumDigit, sumOf |-> <<frame, k>>]
<1> DEFINE n == Len(frame[2])
           Field(k) == Plain(LengthField(n)[k])
           Body(k) == Plain(frame[2][k])
           Sum(k) == [digit |-> SumDigit, sumOf |-> <<frame, k>>]
           field == [k \in 1..LengthSize |-> Field(k)]
           kind == <<Plain(frame[1])>>
           body == [k \in 1..n |-> Body(k)]
           sum == [k \in 1..ChecksumSize |-> Sum(k)]
           S == {Field(k) : k \in 1..LengthSize} \cup {Plain(frame[1])}
                \cup {Body(k) : k \in 1..n} \cup {Sum(k) : k \in 1..ChecksumSize}
<1>1. /\ frame[2] \in Seq(Digits) /\ n \in Nat /\ n <= MaxPayload
      /\ ChecksumSize \in Nat /\ MaxPayload \in Nat /\ LengthSize = 4 /\ HeaderSize = 5
  BY SizesTyped, DigitsTyped DEF Sendable
<1>2. Encode(frame) = ((field \o kind) \o body) \o sum
  BY DEF Encode
<1>3. /\ \A k \in 1..LengthSize : Field(k) \in S
      /\ Plain(frame[1]) \in S
      /\ \A k \in 1..n : Body(k) \in S
      /\ \A k \in 1..ChecksumSize : Sum(k) \in S
  OBVIOUS
<1> HIDE DEF n, Field, Body, Sum, S
<1>4. /\ field \in Seq(S) /\ Len(field) = LengthSize
      /\ \A k \in 1..LengthSize : field[k] = Field(k)
  <2>1. field \in [1..LengthSize -> S] /\ LengthSize \in Nat
    BY <1>1, <1>3
  <2> QED
    BY <2>1, ArrayIsSeq
<1>5. kind \in Seq(S) /\ Len(kind) = 1 /\ kind[1] = Plain(frame[1])
  BY <1>3
<1>6. body \in Seq(S) /\ Len(body) = n /\ \A k \in 1..n : body[k] = Body(k)
  <2>1. body \in [1..n -> S]
    BY <1>3
  <2> QED
    BY <1>1, <2>1, ArrayIsSeq
<1>7. /\ sum \in Seq(S) /\ Len(sum) = ChecksumSize
      /\ \A k \in 1..ChecksumSize : sum[k] = Sum(k)
  <2>1. sum \in [1..ChecksumSize -> S]
    BY <1>3
  <2> QED
    BY <1>1, <2>1, ArrayIsSeq
<1> HIDE DEF field, kind, body, sum
<1> DEFINE head == field \o kind
           front == head \o body
<1>8. /\ head \in Seq(S) /\ Len(head) = HeaderSize
      /\ \A k \in 1..LengthSize : head[k] = field[k]
      /\ head[HeaderSize] = kind[1]
  <2>1. field \in Seq(S) /\ kind \in Seq(S)
    BY <1>4, <1>5
  <2>2. /\ head \in Seq(S) /\ Len(head) = Len(field) + Len(kind)
        /\ \A k \in 1..Len(field) : head[k] = field[k]
        /\ \A k \in 1..Len(kind) : head[Len(field) + k] = kind[k]
    BY <2>1, Joined
  <2>3. /\ Len(head) = LengthSize + 1
        /\ \A k \in 1..LengthSize : head[k] = field[k]
        /\ \A k \in 1..1 : head[LengthSize + k] = kind[k]
    BY <1>4, <1>5, <2>2, Zenon
  <2>4. 1 \in 1..1 /\ LengthSize + 1 = HeaderSize
    BY <1>1
  <2> QED
    BY <2>2, <2>3, <2>4, Zenon
<1> HIDE DEF head
<1>9. /\ front \in Seq(S) /\ Len(front) = HeaderSize + n
      /\ \A k \in 1..HeaderSize : front[k] = head[k]
      /\ \A k \in 1..n : front[HeaderSize + k] = body[k]
  <2>1. head \in Seq(S) /\ body \in Seq(S)
    BY <1>6, <1>8
  <2>2. /\ front \in Seq(S) /\ Len(front) = Len(head) + Len(body)
        /\ \A k \in 1..Len(head) : front[k] = head[k]
        /\ \A k \in 1..Len(body) : front[Len(head) + k] = body[k]
    BY <2>1, Joined
  <2> QED
    BY <1>6, <1>8, <2>2, Zenon
<1> HIDE DEF front
<1>10. /\ Len(front \o sum) = HeaderSize + n + ChecksumSize
       /\ \A k \in 1..(HeaderSize + n) : (front \o sum)[k] = front[k]
       /\ \A k \in 1..ChecksumSize : (front \o sum)[HeaderSize + n + k] = sum[k]
  <2>1. front \in Seq(S) /\ sum \in Seq(S)
    BY <1>7, <1>9
  <2>2. /\ Len(front \o sum) = Len(front) + Len(sum)
        /\ \A k \in 1..Len(front) : (front \o sum)[k] = front[k]
        /\ \A k \in 1..Len(sum) : (front \o sum)[Len(front) + k] = sum[k]
    BY <2>1, Joined
  <2> QED
    BY <1>7, <1>9, <2>2, Zenon
<1>11. Encode(frame) = front \o sum
  BY <1>2 DEF front, head
<1>12. /\ \A k \in 1..HeaderSize : k \in 1..(HeaderSize + n)
       /\ \A k \in 1..n : HeaderSize + k \in 1..(HeaderSize + n)
       /\ \A k \in 1..LengthSize : k \in 1..HeaderSize
       /\ HeaderSize \in 1..HeaderSize
  BY <1>1
<1>13. /\ \A k \in 1..LengthSize : Encode(frame)[k] = Field(k)
       /\ Encode(frame)[HeaderSize] = Plain(frame[1])
       /\ \A k \in 1..n : Encode(frame)[HeaderSize + k] = Body(k)
       /\ \A k \in 1..ChecksumSize : Encode(frame)[HeaderSize + n + k] = Sum(k)
       /\ Len(Encode(frame)) = HeaderSize + n + ChecksumSize
  <2>1. \A k \in 1..HeaderSize : Encode(frame)[k] = head[k]
    BY <1>9, <1>10, <1>11, <1>12, Zenon
  <2>2. \A k \in 1..LengthSize : Encode(frame)[k] = Field(k)
    BY <1>4, <1>8, <1>12, <2>1, Zenon
  <2>3. Encode(frame)[HeaderSize] = Plain(frame[1])
    BY <1>5, <1>8, <1>12, <2>1, Zenon
  <2>4. \A k \in 1..n : Encode(frame)[HeaderSize + k] = Body(k)
    BY <1>6, <1>9, <1>10, <1>11, <1>12, Zenon
  <2>5. \A k \in 1..ChecksumSize : Encode(frame)[HeaderSize + n + k] = Sum(k)
    BY <1>7, <1>10, <1>11, Zenon
  <2> QED
    BY <1>10, <1>11, <2>2, <2>3, <2>4, <2>5, Zenon
<1>14. n \in 0..MaxPayload
  BY <1>1
<1> QED
  BY <1>13, <1>14 DEF n, Field, Body, Sum

-----------------------------------------------------------------------------
(* A frame on the stream.                                                  *)

\* The stream has the frame, after its first bytes.
Whole(stream, from, frame) ==
    \A k \in 1..Len(Encode(frame)) : stream[from + k] = Encode(frame)[k]

\* The stream has it with one byte altered, which is not of its length.
Spoilt(stream, from, frame) ==
    \E j \in HeaderSize..Len(Encode(frame)) : \E digit \in Digits :
        /\ digit # Encode(frame)[j].digit
        /\ \A k \in 1..Len(Encode(frame)) :
               stream[from + k] = IF k = j THEN Plain(digit) ELSE Encode(frame)[k]

LEMMA LengthOfFrame ==
    ASSUME NEW frame \in Sendable
    PROVE  /\ Len(frame[2]) \in 0..MaxPayload
           /\ Len(Encode(frame)) = HeaderSize + Len(frame[2]) + ChecksumSize
BY EncodeShape, Zenon

LEMMA SizeOfFrame ==
    ASSUME NEW frame \in Sendable
    PROVE  /\ Len(Encode(frame)) \in MinFrameSize..MaxFrameSize
           /\ MinFrameSize \in Nat /\ MinFrameSize > HeaderSize
           /\ MaxFrameSize \in Nat /\ HeaderSize = 5 /\ LengthSize = 4
BY LengthOfFrame, SizesTyped DEF MinFrameSize, MaxFrameSize

\* The digits of an encoded frame, and what its checksum is of.
LEMMA EncodeDigits ==
    ASSUME NEW frame \in Sendable
    PROVE  /\ \A k \in 1..LengthSize :
                  Encode(frame)[k].digit = LengthField(Len(frame[2]))[k]
           /\ Encode(frame)[HeaderSize].digit = frame[1]
           /\ \A k \in 1..Len(frame[2]) :
                  Encode(frame)[HeaderSize + k].digit = frame[2][k]
           /\ \A k \in 1..ChecksumSize :
                  Encode(frame)[HeaderSize + Len(frame[2]) + k].sumOf = <<frame, k>>
<1>1. \A d : Plain(d).digit = d
  BY DEF Plain
<1>2. \A k \in 1..ChecksumSize : [digit |-> SumDigit, sumOf |-> <<frame, k>>].sumOf = <<frame, k>>
  OBVIOUS
<1> QED
  BY <1>1, <1>2, EncodeShape, Zenon

\* Its length can be read from the stream, altered or not.
LEMMA LengthOnStream ==
    ASSUME NEW frame \in Sendable, NEW bytes,
           Whole(bytes, 0, frame) \/ Spoilt(bytes, 0, frame)
    PROVE  /\ PayloadLen(bytes) = Len(frame[2])
           /\ FrameLen(bytes) = Len(Encode(frame))
<1>1. \A k \in 1..LengthSize : bytes[k] = Encode(frame)[k]
  <2>1. \A k \in 1..LengthSize : k \in 1..Len(Encode(frame)) /\ 0 + k = k
    BY SizeOfFrame
  <2>2. \A j \in HeaderSize..Len(Encode(frame)), k \in 1..LengthSize : k # j
    BY SizeOfFrame
  <2> QED
    BY <2>1, <2>2, Zenon DEF Whole, Spoilt
<1>2. \A k \in 1..LengthSize : bytes[k].digit = LengthField(Len(frame[2]))[k]
  BY <1>1, EncodeDigits, ZenonT(30)
<1>3. PayloadLen(bytes) = Len(frame[2])
  BY <1>2, EncodeShape, LengthReadBack
<1> QED
  BY <1>3, EncodeShape DEF FrameLen

\* A frame that nothing befell decodes to itself.
LEMMA WholeDecodes ==
    ASSUME NEW frame \in Sendable, NEW bytes, Whole(bytes, 0, frame)
    PROVE  DecodeResult(bytes) = "frame" /\ Content(bytes) = frame
<1> DEFINE n == Len(frame[2])
<1>1. PayloadLen(bytes) = n /\ n \in 0..MaxPayload
  BY LengthOnStream, EncodeShape
<1>2. \A k \in 1..Len(Encode(frame)) : bytes[k] = Encode(frame)[k]
  BY SizeOfFrame DEF Whole
<1>3. /\ HeaderSize \in 1..Len(Encode(frame))
      /\ \A k \in 1..n : HeaderSize + k \in 1..Len(Encode(frame))
      /\ \A k \in 1..ChecksumSize : HeaderSize + n + k \in 1..Len(Encode(frame))
  BY LengthOfFrame, SizesTyped
<1>4. bytes[HeaderSize].digit = frame[1]
  BY <1>2, <1>3, EncodeDigits, Zenon
<1>5. \A k \in 1..n : bytes[HeaderSize + k].digit = frame[2][k]
  BY <1>2, <1>3, EncodeDigits, ZenonT(30)
<1>6. frame[1] \in KnownTypes /\ frame = <<frame[1], frame[2]>> /\ frame[2] \in Seq(Digits)
  BY DigitsTyped DEF Sendable
<1>7. Content(bytes) = frame
  <2>1. [k \in 1..n |-> bytes[HeaderSize + k].digit] = frame[2]
    BY <1>5, <1>6
  <2> QED
    BY <1>1, <1>4, <1>6, <2>1, Zenon DEF Content
<1>8. SumMatches(bytes)
  <2>1. \A k \in 1..ChecksumSize : bytes[HeaderSize + n + k].sumOf = <<frame, k>>
    BY <1>2, <1>3, EncodeDigits, ZenonT(30)
  <2> QED
    BY <1>1, <1>7, <2>1, Zenon DEF SumMatches
<1>9. ~(n > MaxPayload)
  BY <1>1, SizesTyped
<1>10. bytes[HeaderSize].digit \in KnownTypes
  BY <1>4, <1>6, Zenon
<1>11. DecodeResult(bytes) = "frame"
  BY <1>1, <1>8, <1>9, <1>10, Zenon DEF DecodeResult
<1> QED
  BY <1>7, <1>11

\* A frame of which one byte was altered does not decode.
LEMMA SpoiltDoesNotDecode ==
    ASSUME NEW frame \in Sendable, NEW bytes, Spoilt(bytes, 0, frame)
    PROVE  DecodeResult(bytes) # "frame"
<1> SUFFICES ASSUME SumMatches(bytes)
             PROVE  FALSE
  BY DEF DecodeResult
<1> DEFINE n == Len(frame[2])
<1>1. PayloadLen(bytes) = n /\ n \in 0..MaxPayload
  BY LengthOnStream, EncodeShape
<1>2. PICK j \in HeaderSize..Len(Encode(frame)), digit \in Digits :
        /\ digit # Encode(frame)[j].digit
        /\ \A k \in 1..Len(Encode(frame)) :
               bytes[0 + k] = IF k = j THEN Plain(digit) ELSE Encode(frame)[k]
  BY DEF Spoilt
<1>3. \A k \in 1..Len(Encode(frame)) :
          bytes[k] = IF k = j THEN Plain(digit) ELSE Encode(frame)[k]
  BY <1>2, SizeOfFrame
<1>4. /\ HeaderSize \in 1..Len(Encode(frame)) /\ j \in 1..Len(Encode(frame))
      /\ \A k \in 1..n : HeaderSize + k \in 1..Len(Encode(frame))
      /\ \A k \in 1..ChecksumSize : HeaderSize + n + k \in 1..Len(Encode(frame))
      /\ 1 \in 1..ChecksumSize
  BY LengthOfFrame, SizesTyped
<1>5. CASE j > HeaderSize + n
  <2>1. PICK i \in 1..ChecksumSize : j = HeaderSize + n + i
    <3>1. j - HeaderSize - n \in 1..ChecksumSize
      BY <1>1, <1>2, <1>5, LengthOfFrame, SizesTyped
    <3>2. j = HeaderSize + n + (j - HeaderSize - n)
      BY <1>1, <1>4, SizeOfFrame
    <3> QED
      BY <3>1, <3>2
  <2>2. bytes[j].sumOf = <<>>
    BY <1>3, <1>4 DEF Plain
  <2>3. bytes[j].sumOf = <<Content(bytes), i>>
    BY <1>1, <2>1 DEF SumMatches
  <2>4. <<Content(bytes), i>> # <<>>
    OBVIOUS
  <2> QED
    BY <2>2, <2>3, <2>4, Zenon
<1>6. CASE j <= HeaderSize + n
  <2>1. HeaderSize + n + 1 # j
    BY <1>1, <1>2, <1>6, SizeOfFrame
  <2>2. bytes[HeaderSize + n + 1].sumOf = <<frame, 1>>
    <3>1. bytes[HeaderSize + n + 1] = Encode(frame)[HeaderSize + n + 1]
      BY <1>3, <1>4, <2>1, Zenon
    <3>2. Encode(frame)[HeaderSize + n + 1].sumOf = <<frame, 1>>
      BY <1>4, EncodeDigits, Zenon
    <3> QED
      BY <3>1, <3>2, Zenon
  <2>3. bytes[HeaderSize + n + 1].sumOf = <<Content(bytes), 1>>
    BY <1>1, <1>4 DEF SumMatches
  <2>4. Content(bytes) = frame
    BY <2>2, <2>3
  <2>5. /\ bytes[HeaderSize].digit = frame[1]
        /\ [k \in 1..n |-> bytes[HeaderSize + k].digit] = frame[2]
    BY <1>1, <2>4, Zenon DEF Content
  <2>6. bytes[j].digit = digit
    BY <1>3, <1>4 DEF Plain
  <2>7. CASE j = HeaderSize
    BY <1>2, <2>5, <2>6, <2>7, EncodeDigits, Zenon
  <2>8. CASE j # HeaderSize
    <3>1. j - HeaderSize \in 1..n /\ j = HeaderSize + (j - HeaderSize)
      BY <1>1, <1>2, <1>6, <2>8, SizeOfFrame
    <3>2. PICK i \in 1..n : j = HeaderSize + i
      BY <3>1
    <3>3. bytes[HeaderSize + i].digit = frame[2][i]
      BY <2>5
    <3> QED
      BY <1>2, <3>2, <3>3, <2>6, EncodeDigits, Zenon
  <2> QED
    BY <2>7, <2>8
<1> QED
  BY <1>1, <1>2, <1>5, <1>6, SizeOfFrame

-----------------------------------------------------------------------------
(* The frames on the stream.                                               *)

\* One frame on the stream: a whole one is the next of the good frames.
Segment(stream, good, from, to, a, b) ==
    \E frame \in Sendable :
        /\ to = from + Len(Encode(frame))
        /\ \/ Whole(stream, from, frame) /\ b = a + 1 /\ good[b] = frame
           \/ Spoilt(stream, from, frame) /\ b = a

\* The stream is cut into m frames, and has the good frames but the first
\* ones, which were returned already.
Framed(stream, good, done, m, cut, at) ==
    /\ cut[0] = 0 /\ cut[m] = Len(stream)
    /\ at[0] = done /\ at[m] = Len(good)
    /\ \A i, j \in 0..m : i <= j => cut[i] <= cut[j]
    /\ \A i \in 1..m : Segment(stream, good, cut[i - 1], cut[i], at[i - 1], at[i])

Framable(stream, good, done) ==
    \E m \in Nat :
        \E cut \in [0..m -> 0..Len(stream)], at \in [0..m -> 0..Len(good)] :
            Framed(stream, good, done, m, cut, at)

\* A frame is the same wherever on a stream it is.
LEMMA SegmentMoves ==
    ASSUME NEW s, NEW g, NEW f \in Nat, NEW t \in Nat, NEW a \in Nat, NEW b \in Nat,
           Segment(s, g, f, t, a, b),
           NEW s2, NEW g2, NEW f2 \in Nat, NEW t2 \in Nat, t2 - f2 = t - f,
           \A k \in 1..(t - f) : s2[f2 + k] = s[f + k],
           b # a => g2[b] = g[b]
    PROVE  Segment(s2, g2, f2, t2, a, b)
<1>1. PICK frame \in Sendable :
        /\ t = f + Len(Encode(frame))
        /\ \/ Whole(s, f, frame) /\ b = a + 1 /\ g[b] = frame
           \/ Spoilt(s, f, frame) /\ b = a
  BY DEF Segment
<1> DEFINE size == Len(Encode(frame))
<1>2. size \in Nat /\ t = f + size
  BY <1>1, SizeOfFrame
<1> HIDE DEF size
<1>3. t - f = size /\ t2 = f2 + size
  BY <1>2
<1>4. \A k \in 1..size : s2[f2 + k] = s[f + k]
  BY <1>3, Zenon
<1>5. Whole(s, f, frame) => Whole(s2, f2, frame)
  BY <1>4, Zenon DEF Whole, size
<1>6. Spoilt(s, f, frame) => Spoilt(s2, f2, frame)
  BY <1>4, ZenonT(30) DEF Spoilt, size
<1>7. b = a + 1 => g2[b] = g[b]
  OBVIOUS
<1> QED
  BY <1>1, <1>3, <1>5, <1>6, <1>7, Zenon DEF Segment, size

\* A frame, whole or spoilt, joins those on the stream.
LEMMA FrameJoins ==
    ASSUME NEW B, NEW s \in Seq(B), NEW e \in Seq(B),
           NEW g \in Seq(Sendable), NEW done \in Nat, Framable(s, g, done),
           NEW frame \in Sendable, Len(e) = Len(Encode(frame)), NEW g2,
           \/ Whole(e, 0, frame) /\ g2 = Append(g, frame)
           \/ Spoilt(e, 0, frame) /\ g2 = g
    PROVE  Framable(s \o e, g2, done)
<1>1. PICK m \in Nat : \E cut \in [0..m -> 0..Len(s)], at \in [0..m -> 0..Len(g)] :
          Framed(s, g, done, m, cut, at)
  BY DEF Framable
<1>2. PICK cut \in [0..m -> 0..Len(s)], at \in [0..m -> 0..Len(g)] :
          Framed(s, g, done, m, cut, at)
  BY <1>1
<1> DEFINE stream == s \o e
           cut2 == [i \in 0..(m + 1) |-> IF i <= m THEN cut[i] ELSE Len(stream)]
           at2 == [i \in 0..(m + 1) |-> IF i <= m THEN at[i] ELSE Len(g2)]
<1>3. /\ stream \in Seq(B) /\ Len(s) \in Nat /\ Len(e) \in Nat /\ Len(stream) \in Nat
      /\ Len(stream) = Len(s) + Len(e)
      /\ \A k \in 1..Len(s) : stream[k] = s[k]
      /\ \A k \in 1..Len(e) : stream[Len(s) + k] = e[k]
  <2>1. Len(s) \in Nat /\ Len(e) \in Nat
    BY LenProperties
  <2>2. /\ stream \in Seq(B)
        /\ Len(stream) = Len(s) + Len(e)
        /\ \A k \in 1..Len(s) : stream[k] = s[k]
        /\ \A k \in 1..Len(e) : stream[Len(s) + k] = e[k]
    <3>1. \A u, v \in Seq(B) :
            /\ u \o v \in Seq(B)
            /\ Len(u \o v) = Len(u) + Len(v)
            /\ \A k \in 1..Len(u) : (u \o v)[k] = u[k]
            /\ \A k \in 1..Len(v) : (u \o v)[Len(u) + k] = v[k]
      BY Joined
    <3> QED
      BY <3>1, Zenon
  <2>3. Len(stream) \in Nat
    BY <2>2, LenProperties
  <2> QED
    BY <2>1, <2>2, <2>3, Zenon
<1> HIDE DEF stream
<1>4. /\ Len(g) \in Nat /\ Len(g2) \in Nat /\ Len(g) <= Len(g2)
      /\ \A k \in 1..Len(g) : g2[k] = g[k]
  <2>1. Len(g) \in Nat
    BY LenProperties
  <2>2. CASE g2 = Append(g, frame)
    BY <2>1, <2>2, AppendProperties
  <2>3. CASE g2 = g
    BY <2>1, <2>3
  <2> QED
    BY <2>2, <2>3
<1>5. cut2 \in [0..(m + 1) -> 0..Len(stream)]
  BY <1>3
<1>6. at2 \in [0..(m + 1) -> 0..Len(g2)]
  BY <1>4
<1>7. /\ \A i \in 0..m : cut2[i] = cut[i] /\ at2[i] = at[i]
      /\ cut2[m + 1] = Len(stream) /\ at2[m + 1] = Len(g2)
  OBVIOUS
<1> HIDE DEF cut2, at2
<1>8. \A i, j \in 0..(m + 1) : i <= j => cut2[i] <= cut2[j]
  <2>1. \A i, j \in 0..m : i <= j => cut2[i] <= cut2[j]
    BY <1>2, <1>7 DEF Framed
  <2>2. \A i \in 0..(m + 1) : cut2[i] <= cut2[m + 1]
    BY <1>3, <1>5, <1>7
  <2>3. \A i, j \in 0..(m + 1) : i <= j => j = m + 1 \/ (i \in 0..m /\ j \in 0..m)
    OBVIOUS
  <2> QED
    BY <2>1, <2>2, <2>3, Zenon
<1>9. ASSUME NEW i \in 1..m
      PROVE  Segment(stream, g2, cut2[i - 1], cut2[i], at2[i - 1], at2[i])
  <2>1. Segment(s, g, cut[i - 1], cut[i], at[i - 1], at[i])
    BY <1>2 DEF Framed
  <2>2. /\ i \in 0..m /\ i - 1 \in 0..m
        /\ cut[i] \in 0..Len(s) /\ cut[i - 1] \in 0..Len(s)
        /\ at[i] \in 0..Len(g) /\ at[i - 1] \in 0..Len(g)
    BY <1>2
  <2>3. \A k \in 1..(cut[i] - cut[i - 1]) : stream[cut[i - 1] + k] = s[cut[i - 1] + k]
    <3> SUFFICES ASSUME NEW k \in 1..(cut[i] - cut[i - 1])
                 PROVE  stream[cut[i - 1] + k] = s[cut[i - 1] + k]
      OBVIOUS
    <3>1. cut[i - 1] + k \in 1..Len(s)
      BY <1>3, <2>2, SMTT(30)
    <3> QED
      BY <1>3, <3>1, Zenon
  <2>4. at[i] # at[i - 1] => g2[at[i]] = g[at[i]]
    <3>1. at[i] = at[i - 1] \/ at[i] = at[i - 1] + 1
      BY <2>1 DEF Segment
    <3>2. at[i] # at[i - 1] => at[i] \in 1..Len(g)
      BY <2>2, <3>1
    <3> QED
      BY <1>4, <3>2
  <2>5. /\ cut[i] \in Nat /\ cut[i - 1] \in Nat /\ at[i] \in Nat /\ at[i - 1] \in Nat
    BY <2>2
  <2>6. Segment(stream, g2, cut[i - 1], cut[i], at[i - 1], at[i])
    <3> DEFINE f == cut[i - 1]
               t == cut[i]
               a == at[i - 1]
               b == at[i]
    <3>1. f \in Nat /\ t \in Nat /\ a \in Nat /\ b \in Nat
      BY <2>5
    <3>2. /\ Segment(s, g, f, t, a, b) /\ t - f = t - f
          /\ \A k \in 1..(t - f) : stream[f + k] = s[f + k]
          /\ b # a => g2[b] = g[b]
      BY <2>1, <2>3, <2>4
    <3> HIDE DEF f, t, a, b
    <3>3. Segment(stream, g2, f, t, a, b)
      BY <3>1, <3>2, SegmentMoves
    <3> QED
      BY <3>3 DEF f, t, a, b
  <2> QED
    BY <1>7, <2>2, <2>6
<1>10. Segment(stream, g2, cut2[m], cut2[m + 1], at2[m], at2[m + 1])
  <2>1. cut2[m] = Len(s) /\ at2[m] = Len(g)
    BY <1>2, <1>7 DEF Framed
  <2>2. cut2[m + 1] = Len(s) + Len(Encode(frame))
    BY <1>3, <1>7
  <2>3. \A k \in 1..Len(Encode(frame)) : stream[Len(s) + k] = e[0 + k]
    <3>1. \A k \in 1..Len(e) : 0 + k = k
      BY <1>3
    <3>2. \A k \in 1..Len(e) : e[0 + k] = e[k]
      BY <3>1, Zenon
    <3>3. \A k \in 1..Len(e) : stream[Len(s) + k] = e[0 + k]
      BY <1>3, <3>2, Zenon
    <3> QED
      BY <3>3, Zenon
  <2>4. Whole(e, 0, frame) => Whole(stream, Len(s), frame)
    BY <2>3, Zenon DEF Whole
  <2>5. Spoilt(e, 0, frame) => Spoilt(stream, Len(s), frame)
    BY <2>3, Zenon DEF Spoilt
  <2>6. CASE Whole(e, 0, frame) /\ g2 = Append(g, frame)
    <3>1. at2[m + 1] = Len(g) + 1 /\ g2[Len(g) + 1] = frame
      BY <1>7, <2>6, AppendProperties
    <3> QED
      BY <2>1, <2>2, <2>4, <2>6, <3>1, Zenon DEF Segment
  <2>7. CASE Spoilt(e, 0, frame) /\ g2 = g
    BY <1>7, <2>1, <2>2, <2>5, <2>7, Zenon DEF Segment
  <2> QED
    BY <2>6, <2>7
<1>11. \A i \in 1..(m + 1) :
          Segment(stream, g2, cut2[i - 1], cut2[i], at2[i - 1], at2[i])
  <2>1. \A i \in 1..(m + 1) : i \in 1..m \/ (i = m + 1 /\ i - 1 = m)
    OBVIOUS
  <2> QED
    BY <1>9, <1>10, <2>1
<1>12. cut2[0] = 0 /\ at2[0] = done
  BY <1>2, <1>7 DEF Framed
<1>13. Framed(stream, g2, done, m + 1, cut2, at2)
  BY <1>7, <1>8, <1>11, <1>12, Zenon DEF Framed
<1>14. m + 1 \in Nat
  OBVIOUS
<1> QED
  BY <1>5, <1>6, <1>13, <1>14, Zenon DEF Framable, stream

\* What is left of a sequence without its first n elements.
LEMMA Suffix ==
    ASSUME NEW S, NEW seq \in Seq(S), NEW n \in 0..Len(seq)
    PROVE  /\ SubSeq(seq, n + 1, Len(seq)) \in Seq(S)
           /\ Len(SubSeq(seq, n + 1, Len(seq))) = Len(seq) - n
           /\ \A k \in 1..(Len(seq) - n) : SubSeq(seq, n + 1, Len(seq))[k] = seq[n + k]
<1>1. Len(seq) \in Nat /\ n \in Nat /\ n <= Len(seq)
  BY LenProperties
<1>2. SubSeq(seq, n + 1, Len(seq)) \in Seq(S)
  BY SlicesTyped
<1> QED
  BY <1>1, <1>2

\* The first frame leaves the stream.
LEMMA FrameLeaves ==
    ASSUME NEW B, NEW s \in Seq(B), s # <<>>,
           NEW g, NEW done \in Nat, Len(g) \in Nat, Framable(s, g, done)
    PROVE  \E frame \in Sendable, next \in 0..Len(g) :
               /\ Len(Encode(frame)) <= Len(s)
               /\ \/ Whole(s, 0, frame) /\ next = done + 1 /\ g[next] = frame
                  \/ Spoilt(s, 0, frame) /\ next = done
               /\ Framable(SubSeq(s, Len(Encode(frame)) + 1, Len(s)), g, next)
<1>1. PICK m \in Nat : \E cut \in [0..m -> 0..Len(s)], at \in [0..m -> 0..Len(g)] :
          Framed(s, g, done, m, cut, at)
  BY DEF Framable
<1>2. PICK cut \in [0..m -> 0..Len(s)], at \in [0..m -> 0..Len(g)] :
          Framed(s, g, done, m, cut, at)
  BY <1>1
<1>3. Len(s) \in Nat /\ Len(s) > 0
  BY EmptySeq, LenProperties
<1>4. m >= 1
  BY <1>2, <1>3 DEF Framed
<1>5. /\ 0 \in 0..m /\ 1 \in 0..m /\ 1 \in 1..m /\ 1 - 1 = 0
      /\ cut[0] = 0 /\ at[0] = done /\ cut[1] \in 0..Len(s) /\ at[1] \in 0..Len(g)
  BY <1>2, <1>4 DEF Framed
<1>6. Segment(s, g, cut[0], cut[1], at[0], at[1])
  BY <1>2, <1>5, Zenon DEF Framed
<1>7. PICK frame \in Sendable :
        /\ cut[1] = 0 + Len(Encode(frame))
        /\ \/ Whole(s, 0, frame) /\ at[1] = done + 1 /\ g[at[1]] = frame
           \/ Spoilt(s, 0, frame) /\ at[1] = done
  BY <1>5, <1>6, Zenon DEF Segment
<1> DEFINE size == cut[1]
           rest == SubSeq(s, size + 1, Len(s))
           cut2 == [i \in 0..(m - 1) |-> cut[i + 1] - size]
           at2 == [i \in 0..(m - 1) |-> at[i + 1]]
<1>8. size = Len(Encode(frame)) /\ size \in 0..Len(s)
  BY <1>5, <1>7, SizeOfFrame
<1> HIDE DEF size
<1>9. /\ Len(rest) = Len(s) - size
      /\ \A k \in 1..(Len(s) - size) : rest[k] = s[size + k]
  <2>1. size \in Nat /\ Len(s) \in Nat /\ size <= Len(s)
    BY <1>3, <1>8
  <2> QED
    BY <2>1, Suffix DEF rest
<1> HIDE DEF rest
<1>10. \A i \in 0..(m - 1) : i + 1 \in 0..m /\ cut[1] <= cut[i + 1]
  BY <1>2, <1>4, <1>5 DEF Framed
<1>11. /\ cut2 \in [0..(m - 1) -> 0..Len(rest)]
       /\ at2 \in [0..(m - 1) -> 0..Len(g)]
       /\ \A i \in 0..(m - 1) : cut2[i] = cut[i + 1] - size /\ at2[i] = at[i + 1]
  <2>1. ASSUME NEW i \in 0..(m - 1)
        PROVE  cut[i + 1] - size \in 0..Len(rest) /\ at[i + 1] \in 0..Len(g)
    <3>1. cut[i + 1] \in 0..Len(s) /\ at[i + 1] \in 0..Len(g) /\ size <= cut[i + 1]
      BY <1>10 DEF size
    <3> QED
      BY <1>3, <1>8, <1>9, <3>1
  <2> QED
    BY <2>1
<1> HIDE DEF cut2, at2
<1>12. ASSUME NEW i \in 1..(m - 1)
       PROVE  Segment(rest, g, cut2[i - 1], cut2[i], at2[i - 1], at2[i])
  <2>1. /\ i + 1 \in 1..m /\ (i + 1) - 1 = i /\ i \in 0..m /\ i + 1 \in 0..m
        /\ i - 1 \in 0..(m - 1) /\ i \in 0..(m - 1) /\ (i - 1) + 1 = i
    BY <1>4
  <2> DEFINE f == cut[i]
             t == cut[i + 1]
             a == at[i]
             b == at[i + 1]
             f2 == cut2[i - 1]
             t2 == cut2[i]
  <2>2. Segment(s, g, f, t, a, b)
    BY <1>2, <2>1, Zenon DEF Framed
  <2>3. f2 = f - size /\ t2 = t - size /\ at2[i - 1] = a /\ at2[i] = b
    BY <1>11, <2>1, Zenon
  <2>4. /\ f \in 0..Len(s) /\ t \in 0..Len(s) /\ a \in 0..Len(g) /\ b \in 0..Len(g)
        /\ f2 \in 0..Len(rest) /\ t2 \in 0..Len(rest) /\ size \in 0..Len(s)
    BY <1>2, <1>8, <1>11, <2>1
  <2> HIDE DEF f, t, a, b, f2, t2
  <2>5. /\ f \in Nat /\ t \in Nat /\ a \in Nat /\ b \in Nat /\ f2 \in Nat /\ t2 \in Nat
        /\ size \in Nat /\ t2 - f2 = t - f
    BY <1>3, <2>3, <2>4
  <2>6. \A k \in 1..(t - f) : rest[f2 + k] = s[f + k]
    <3> SUFFICES ASSUME NEW k \in 1..(t - f)
                 PROVE  rest[f2 + k] = s[f + k]
      OBVIOUS
    <3>1. f2 + k \in 1..(Len(s) - size) /\ size + (f2 + k) = f + k
      BY <1>3, <2>3, <2>4, <2>5, SMTT(30)
    <3>2. rest[f2 + k] = s[size + (f2 + k)]
      BY <1>9, <3>1
    <3> QED
      BY <3>1, <3>2
  <2>7. PICK fr \in Sendable :
          /\ t = f + Len(Encode(fr))
          /\ \/ Whole(s, f, fr) /\ b = a + 1 /\ g[b] = fr
             \/ Spoilt(s, f, fr) /\ b = a
    BY <2>2, Zenon DEF Segment
  <2>8. t2 = f2 + Len(Encode(fr)) /\ t - f = Len(Encode(fr))
    <3>1. Len(Encode(fr)) \in Nat
      BY SizeOfFrame
    <3> QED
      BY <2>5, <2>7, <3>1
  <2>9. \A k \in 1..Len(Encode(fr)) : rest[f2 + k] = s[f + k]
    BY <2>6, <2>8, Zenon
  <2>10. Segment(rest, g, f2, t2, a, b)
    <3>1. Whole(s, f, fr) => Whole(rest, f2, fr)
      BY <2>9, Zenon DEF Whole
    <3>2. Spoilt(s, f, fr) => Spoilt(rest, f2, fr)
      BY <2>9, Zenon DEF Spoilt
    <3> QED
      BY <2>7, <2>8, <3>1, <3>2, Zenon DEF Segment
  <2> QED
    BY <2>3, <2>10 DEF f2, t2
<1>13. Framed(rest, g, at[1], m - 1, cut2, at2)
  <2>1. 0 \in 0..(m - 1) /\ m - 1 \in 0..(m - 1) /\ 0 + 1 = 1 /\ (m - 1) + 1 = m
    BY <1>4
  <2>2. cut2[0] = 0
    <3>1. cut2[0] = size - size /\ size \in Nat
      BY <1>8, <1>11, <2>1 DEF size
    <3> QED
      BY <3>1
  <2>3. cut2[m - 1] = Len(rest)
    <3>1. cut2[m - 1] = Len(s) - size
      BY <1>2, <1>11, <2>1, Zenon DEF Framed
    <3> QED
      BY <1>9, <3>1
  <2>4. at2[0] = at[1] /\ at2[m - 1] = Len(g)
    BY <1>2, <1>11, <2>1, Zenon DEF Framed
  <2>5. \A i, j \in 0..(m - 1) : i <= j => cut2[i] <= cut2[j]
    <3> SUFFICES ASSUME NEW i \in 0..(m - 1), NEW j \in 0..(m - 1), i <= j
                 PROVE  cut2[i] <= cut2[j]
      OBVIOUS
    <3>1. i + 1 \in 0..m /\ j + 1 \in 0..m /\ i + 1 <= j + 1
      BY <1>4
    <3>2. cut[i + 1] <= cut[j + 1]
      BY <1>2, <3>1 DEF Framed
    <3>3. /\ cut2[i] = cut[i + 1] - size /\ cut2[j] = cut[j + 1] - size
          /\ cut[i + 1] \in 0..Len(s) /\ cut[j + 1] \in 0..Len(s) /\ size \in 0..Len(s)
      BY <1>2, <1>8, <1>11, <3>1
    <3> QED
      BY <1>3, <3>2, <3>3, SMTT(30)
  <2> QED
    BY <1>12, <2>2, <2>3, <2>4, <2>5, Zenon DEF Framed
<1>14. Framable(rest, g, at[1])
  <2>1. m - 1 \in Nat
    BY <1>4
  <2> QED
    BY <1>11, <1>13, <2>1, Zenon DEF Framable
<1>15. Len(Encode(frame)) <= Len(s)
  BY <1>3, <1>8
<1>16. Framable(SubSeq(s, Len(Encode(frame)) + 1, Len(s)), g, at[1])
  BY <1>8, <1>14, Zenon DEF rest
<1> QED
  BY <1>5, <1>7, <1>15, <1>16, Zenon

-----------------------------------------------------------------------------
(* The channel.                                                            *)

\* While no byte was lost and no length altered: what was returned is the
\* first of the undamaged frames, the others are on the stream with the
\* damaged ones between them, and "none" means that no frame is complete.
ChannelInv ==
    aligned =>
        /\ Len(delivered) <= Len(intact)
        /\ \A i \in 1..Len(delivered) : delivered[i] = intact[i]
        /\ Framable(rxBuffer \o wire, intact, Len(delivered))
        /\ reply = "none" => ~Complete(rxBuffer)

\* Feeding a chunk leaves the stream as it is.
LEMMA FeedingJoins ==
    ASSUME NEW B, NEW s \in Seq(B), NEW t \in Seq(B), NEW n \in 0..Len(t)
    PROVE  (s \o SubSeq(t, 1, n)) \o SubSeq(t, n + 1, Len(t)) = s \o t
<1>1. SubSeq(t, 1, n) \in Seq(B) /\ SubSeq(t, n + 1, Len(t)) \in Seq(B)
  BY SlicesTyped
<1>2. SubSeq(t, 1, n) \o SubSeq(t, n + 1, Len(t)) = t
  <2>1. /\ 1 \in 1..(Len(t) + 1) /\ n \in (1 - 1)..Len(t) /\ Len(t) \in n..Len(t)
    BY LenProperties
  <2>2. SubSeq(t, 1, n) \o SubSeq(t, n + 1, Len(t)) = SubSeq(t, 1, Len(t))
    BY <2>1, ConcatAdjacentSubSeq
  <2> QED
    BY <2>2, SubSeqFull
<1>3. (s \o SubSeq(t, 1, n)) \o SubSeq(t, n + 1, Len(t))
          = s \o (SubSeq(t, 1, n) \o SubSeq(t, n + 1, Len(t)))
  <2> DEFINE p == SubSeq(t, 1, n)
             q == SubSeq(t, n + 1, Len(t))
  <2>1. p \in Seq(B) /\ q \in Seq(B)
    BY <1>1
  <2> HIDE DEF p, q
  <2>2. (s \o p) \o q = s \o (p \o q)
    BY <2>1, ConcatAssociative
  <2> QED
    BY <2>2 DEF p, q
<1> QED
  BY <1>2, <1>3

\* Draining a frame takes it from the front of the stream.
LEMMA DrainingCuts ==
    ASSUME NEW B, NEW s \in Seq(B), NEW t \in Seq(B), NEW n \in 0..Len(s)
    PROVE  SubSeq(s, n + 1, Len(s)) \o t = SubSeq(s \o t, n + 1, Len(s \o t))
<1> DEFINE u == s \o t
           v == SubSeq(s, n + 1, Len(s))
           w == SubSeq(u, n + 1, Len(u))
<1>1. /\ Len(s) \in Nat /\ Len(t) \in Nat /\ n \in Nat /\ n <= Len(s)
  BY LenProperties
<1>2. /\ u \in Seq(B) /\ Len(u) = Len(s) + Len(t)
      /\ \A k \in 1..Len(s) : u[k] = s[k]
      /\ \A k \in 1..Len(t) : u[Len(s) + k] = t[k]
  BY Joined
<1>3. /\ v \in Seq(B) /\ Len(v) = Len(s) - n
      /\ \A k \in 1..(Len(s) - n) : v[k] = s[n + k]
  BY Suffix
<1>4. n \in 0..Len(u)
  BY <1>1, <1>2
<1>5. /\ w \in Seq(B) /\ Len(w) = Len(u) - n
      /\ \A k \in 1..(Len(u) - n) : w[k] = u[n + k]
  <2> HIDE DEF u
  <2> QED
    BY <1>2, <1>4, Suffix
<1>6. /\ v \o t \in Seq(B) /\ Len(v \o t) = Len(v) + Len(t)
      /\ \A k \in 1..Len(v) : (v \o t)[k] = v[k]
      /\ \A k \in 1..Len(t) : (v \o t)[Len(v) + k] = t[k]
  <2> HIDE DEF v
  <2>1. v \in Seq(B)
    BY <1>3
  <2> QED
    BY <2>1, Joined
<1> HIDE DEF u, v, w
<1>7. Len(v \o t) = Len(w)
  BY <1>1, <1>2, <1>3, <1>5, <1>6
<1>8. ASSUME NEW k \in 1..Len(v \o t)
      PROVE  (v \o t)[k] = w[k]
  <2>1. k \in 1..(Len(s) + Len(t) - n) /\ k \in 1..(Len(u) - n)
    BY <1>1, <1>2, <1>3, <1>6
  <2>2. w[k] = u[n + k]
    BY <1>5, <2>1
  <2>3. CASE k <= Len(s) - n
    <3>1. k \in 1..(Len(s) - n) /\ k \in 1..Len(v) /\ n + k \in 1..Len(s)
      BY <1>1, <1>3, <2>1, <2>3
    <3> QED
      BY <1>2, <1>3, <1>6, <2>2, <3>1, Zenon
  <2>4. CASE ~(k <= Len(s) - n)
    <3> DEFINE i == k - (Len(s) - n)
    <3>1. /\ i \in 1..Len(t) /\ k = (Len(s) - n) + i /\ n + k = Len(s) + i
      BY <1>1, <2>1, <2>4
    <3> HIDE DEF i
    <3>2. (v \o t)[k] = t[i]
      BY <1>3, <1>6, <3>1, Zenon
    <3>3. u[n + k] = t[i]
      BY <1>2, <3>1, Zenon
    <3> QED
      BY <2>2, <3>2, <3>3
  <2> QED
    BY <2>3, <2>4
<1>9. v \o t = w
  BY <1>5, <1>6, <1>7, <1>8, SeqEqual
<1> QED
  BY <1>9 DEF u, v, w

\* A length is announced by the first four bytes.
LEMMA LengthOfPrefix ==
    ASSUME NEW s, NEW t, \A k \in 1..LengthSize : s[k] = t[k]
    PROVE  PayloadLen(s) = PayloadLen(t) /\ FrameLen(s) = FrameLen(t)
<1>1. /\ s[1] = t[1] /\ s[2] = t[2] /\ s[3] = t[3] /\ s[4] = t[4]
  BY DEF LengthSize
<1> QED
  BY <1>1, Zenon DEF PayloadLen, FrameLen

\* feed_bytes returns the next undamaged frame or none, and keeps in step.
LEMMA FeedStaysInStep ==
    ASSUME TransportInv, ChannelInv, aligned, NEW n \in 0..Len(wire), Feed(n)
    PROVE  /\ ChannelInv'
           /\ \/ delivered' = delivered
              \/ /\ Len(delivered) < Len(intact)
                 /\ delivered' = Append(delivered, intact[Len(delivered) + 1])
<1> DEFINE buffer == rxBuffer \o SubSeq(wire, 1, n)
           tail == SubSeq(wire, n + 1, Len(wire))
           stream == rxBuffer \o wire
<1>1. /\ FeedBytes(SubSeq(wire, 1, n)) /\ wire' = tail
      /\ aligned' /\ intact' = intact
  BY DEF Feed
<1>2. /\ rxBuffer \in Seq(SentBytes) /\ wire \in Seq(SentBytes)
      /\ delivered \in Seq(SentFrames) /\ Len(delivered) \in Nat
      /\ intact \in Seq(Sendable) /\ Len(intact) \in Nat
  BY LenProperties DEF TransportInv
<1>3. /\ buffer \in Seq(SentBytes) /\ tail \in Seq(SentBytes)
      /\ stream \in Seq(SentBytes) /\ buffer \o tail = stream
  <2>1. SubSeq(wire, 1, n) \in Seq(SentBytes) /\ tail \in Seq(SentBytes)
    BY <1>2, SlicesTyped
  <2>2. buffer \in Seq(SentBytes) /\ stream \in Seq(SentBytes)
    BY <1>2, <2>1, ConcatProperties
  <2> QED
    BY <1>2, <2>1, <2>2, FeedingJoins
<1>4. /\ Len(delivered) <= Len(intact)
      /\ \A i \in 1..Len(delivered) : delivered[i] = intact[i]
      /\ Framable(stream, intact, Len(delivered))
  BY DEF ChannelInv
<1>5. CASE ~Complete(buffer)
  <2>1. rxBuffer' = buffer /\ reply' = "none" /\ delivered' = delivered
    BY <1>1, <1>5 DEF FeedBytes
  <2>2. rxBuffer' \o wire' = stream
    BY <1>1, <1>3, <2>1
  <2>3. ~Complete(rxBuffer')
    BY <1>5, <2>1, Zenon
  <2> HIDE DEF stream, buffer, tail
  <2> QED
    BY <1>1, <1>4, <2>1, <2>2, <2>3, Zenon DEF ChannelInv
<1>6. CASE Complete(buffer)
  <2> DEFINE bytes == SubSeq(buffer, 1, FrameLen(buffer))
  <2>1. /\ reply' = DecodeResult(bytes)
        /\ rxBuffer' = SubSeq(buffer, FrameLen(buffer) + 1, Len(buffer))
        /\ delivered' = IF reply' = "frame"
                        THEN Append(delivered, Content(bytes)) ELSE delivered
    BY <1>1, <1>6 DEF FeedBytes
  <2> HIDE DEF buffer, stream, tail, bytes
  <2>2. /\ Len(buffer) \in Nat /\ Len(tail) \in Nat /\ Len(buffer) >= MinFrameSize
        /\ Len(buffer) >= FrameLen(buffer)
    BY <1>3, <1>6, LenProperties DEF Complete
  <2>3. /\ Len(stream) = Len(buffer) + Len(tail)
        /\ \A k \in 1..Len(buffer) : stream[k] = buffer[k]
    <3>1. buffer \in Seq(SentBytes) /\ tail \in Seq(SentBytes)
      BY <1>3
    <3>2. /\ Len(buffer \o tail) = Len(buffer) + Len(tail)
          /\ \A k \in 1..Len(buffer) : (buffer \o tail)[k] = buffer[k]
      BY <3>1, Joined
    <3> QED
      BY <1>3, <3>2
  <2>4. stream # <<>>
    <3>1. MinFrameSize \in Nat /\ MinFrameSize > 0
      BY SizesTyped DEF MinFrameSize
    <3>2. Len(stream) > 0
      BY <2>2, <2>3, <3>1
    <3> QED
      BY <3>2, EmptySeq
  <2>5. PICK frame \in Sendable, next \in 0..Len(intact) :
          /\ Len(Encode(frame)) <= Len(stream)
          /\ \/ /\ Whole(stream, 0, frame) /\ next = Len(delivered) + 1
                /\ intact[next] = frame
             \/ Spoilt(stream, 0, frame) /\ next = Len(delivered)
          /\ Framable(SubSeq(stream, Len(Encode(frame)) + 1, Len(stream)), intact, next)
    BY <1>2, <1>3, <1>4, <2>4, FrameLeaves
  <2> DEFINE size == Len(Encode(frame))
  <2>6. FrameLen(buffer) = size
    <3>1. FrameLen(stream) = size
      BY <2>5, LengthOnStream
    <3>2. \A k \in 1..LengthSize : k \in 1..Len(buffer)
      BY <2>2, SizesTyped DEF MinFrameSize
    <3>3. FrameLen(stream) = FrameLen(buffer)
      BY <2>3, <3>2, LengthOfPrefix
    <3> QED
      BY <3>1, <3>3
  <2>7. size \in 0..Len(buffer)
    BY <2>2, <2>6, SizeOfFrame
  <2>8. \A k \in 1..size : bytes[0 + k] = stream[0 + k]
    <3> HIDE DEF size
    <3>1. ASSUME NEW k \in 1..size
          PROVE  bytes[k] = stream[k]
      <4>1. /\ size \in Nat /\ 1 \in Int /\ size \in Int
            /\ k \in 1..(size - 1 + 1) /\ 1 + k - 1 = k /\ k \in 1..Len(buffer)
        BY <2>2, <2>7, <3>1
      <4>2. \A i \in 1..size : buffer[i] \in SentBytes
        BY <1>3, <2>2, <2>7, ElementOfSeq
      <4>3. bytes = SubSeq(buffer, 1, size)
        BY <2>6 DEF bytes
      <4>4. bytes[k] = buffer[1 + k - 1]
        BY <4>1, <4>2, <4>3, SubSeqProperties
      <4> QED
        BY <2>3, <4>1, <4>4
    <3>2. \A k \in 1..size : 0 + k = k
      BY <2>2, <2>7
    <3> QED
      BY <3>1, <3>2
  <2>9. /\ Whole(stream, 0, frame) => Whole(bytes, 0, frame)
        /\ Spoilt(stream, 0, frame) => Spoilt(bytes, 0, frame)
    BY <2>8, Zenon DEF Whole, Spoilt
  <2>10. rxBuffer' \o wire' = SubSeq(stream, size + 1, Len(stream))
    <3> HIDE DEF size
    <3>1. SubSeq(buffer, size + 1, Len(buffer)) \o tail
              = SubSeq(buffer \o tail, size + 1, Len(buffer \o tail))
      BY <1>3, <2>7, DrainingCuts
    <3> QED
      BY <1>1, <1>3, <2>1, <2>6, <3>1
  <2>11. Framable(rxBuffer' \o wire', intact, next)
    BY <2>5, <2>10, Zenon
  <2>12. reply' # "none"
    BY <2>1, DecodeResultTyped DEF Refusals
  <2>13. CASE Whole(stream, 0, frame) /\ next = Len(delivered) + 1 /\ intact[next] = frame
    <3>1. reply' = "frame" /\ Content(bytes) = frame
      BY <2>1, <2>9, <2>13, WholeDecodes
    <3>2. delivered' = Append(delivered, frame)
      BY <2>1, <3>1
    <3>3. Len(delivered) < Len(intact)
      BY <1>2, <2>13
    <3>4. /\ Len(delivered') = Len(delivered) + 1
          /\ \A i \in 1..Len(delivered') : delivered'[i] = intact[i]
      <4>1. frame \in {frame} \cup SentFrames /\ delivered \in Seq({frame} \cup SentFrames)
        BY <1>2, SeqMonotonic
      <4>2. /\ Len(delivered') = Len(delivered) + 1
            /\ \A i \in 1..Len(delivered) : delivered'[i] = delivered[i]
            /\ delivered'[Len(delivered) + 1] = frame
        BY <3>2, <4>1, AppendProperties
      <4>3. \A i \in 1..Len(delivered') : i \in 1..Len(delivered) \/ i = Len(delivered) + 1
        BY <1>2, <4>2
      <4> QED
        BY <1>4, <2>13, <4>2, <4>3, Zenon
    <3>5. Len(delivered') <= Len(intact)
      BY <1>2, <3>3, <3>4
    <3>6. ChannelInv'
      BY <1>1, <2>11, <2>12, <2>13, <3>4, <3>5, Zenon DEF ChannelInv
    <3> QED
      BY <2>13, <3>2, <3>3, <3>6
  <2>14. CASE Spoilt(stream, 0, frame) /\ next = Len(delivered)
    <3>1. delivered' = delivered
      BY <2>1, <2>9, <2>14, SpoiltDoesNotDecode
    <3>2. ChannelInv'
      BY <1>1, <1>4, <2>11, <2>12, <2>14, <3>1, Zenon DEF ChannelInv
    <3> QED
      BY <3>1, <3>2
  <2> QED
    BY <2>5, <2>13, <2>14
<1> QED
  BY <1>5, <1>6

\* What is put on the wire is put on the stream.
LEMMA StreamGrows ==
    ASSUME NEW B, NEW s \in Seq(B), NEW t \in Seq(B), NEW u \in Seq(B)
    PROVE  s \o t \in Seq(B) /\ s \o (t \o u) = (s \o t) \o u
BY ConcatProperties, ConcatAssociative

\* A frame that is sent, or arrives with a byte of its type, its payload or
\* its checksum altered, joins the stream.
LEMMA SendStaysInStep ==
    ASSUME TransportInv, ChannelInv, NEW frame \in Sendable, Send(frame)
    PROVE  ChannelInv'
<1> SUFFICES ASSUME aligned PROVE ChannelInv'
  BY DEF ChannelInv, Send
<1> DEFINE e == Encode(frame)
           stream == rxBuffer \o wire
<1>1. /\ rxBuffer \in Seq(SentBytes') /\ wire \in Seq(SentBytes') /\ e \in Seq(SentBytes')
      /\ intact \in Seq(Sendable) /\ Len(intact) \in Nat /\ Len(delivered) \in Nat
  <2>1. Sends(frame)
    BY DEF Send
  <2>2. /\ rxBuffer' \in Seq(SentBytes') /\ wire \in Seq(SentBytes') /\ e \in Seq(SentBytes')
    BY <2>1, SendsWiden
  <2>3. intact \in Seq(Sendable) /\ delivered \in Seq(SentFrames)
    BY DEF TransportInv
  <2> QED
    BY <2>1, <2>2, <2>3, LenProperties DEF Sends
<1>2. /\ wire' = wire \o e /\ rxBuffer' = rxBuffer /\ intact' = Append(intact, frame)
      /\ delivered' = delivered /\ reply' = reply
  BY DEF Send, Sends
<1>3. /\ Len(delivered) <= Len(intact)
      /\ \A i \in 1..Len(delivered) : delivered[i] = intact[i]
      /\ Framable(stream, intact, Len(delivered))
      /\ reply = "none" => ~Complete(rxBuffer)
  BY DEF ChannelInv
<1>4. Whole(e, 0, frame)
  <2>1. \A k \in 1..Len(Encode(frame)) : 0 + k = k
    BY SizeOfFrame
  <2> QED
    BY <2>1 DEF Whole
<1>5. Len(e) = Len(Encode(frame))
  OBVIOUS
<1> HIDE DEF e, stream
<1>6. stream \in Seq(SentBytes') /\ rxBuffer \o (wire \o e) = stream \o e
  BY <1>1, StreamGrows, SMTT(30) DEF stream
<1>7. Framable(stream \o e, Append(intact, frame), Len(delivered))
  BY <1>1, <1>3, <1>4, <1>5, <1>6, FrameJoins
<1>8. Framable(rxBuffer' \o wire', intact', Len(delivered'))
  BY <1>2, <1>6, <1>7
<1>9. /\ Len(delivered) <= Len(intact')
      /\ \A i \in 1..Len(delivered) : delivered[i] = intact'[i]
  BY <1>1, <1>2, <1>3, AppendProperties
<1> QED
  BY <1>2, <1>3, <1>8, <1>9, Zenon DEF ChannelInv

LEMMA SendAlteredStaysInStep ==
    ASSUME TransportInv, ChannelInv, NEW frame \in Sendable,
           NEW k \in 1..Len(Encode(frame)), NEW digit \in Digits,
           SendAltered(frame, k, digit), aligned'
    PROVE  ChannelInv'
<1> DEFINE e == [Encode(frame) EXCEPT ![k] = Plain(digit)]
           stream == rxBuffer \o wire
<1>1. Sends(frame) /\ aligned /\ k > LengthSize /\ digit # Encode(frame)[k].digit
  BY DEF SendAltered, TransportInv
<1>2. /\ wire' = wire \o e /\ rxBuffer' = rxBuffer /\ intact' = intact
      /\ delivered' = delivered /\ reply' = reply
  BY DEF SendAltered, Sends
<1>3. /\ rxBuffer \in Seq(SentBytes') /\ wire \in Seq(SentBytes')
      /\ Encode(frame) \in Seq(SentBytes')
      /\ intact \in Seq(Sendable) /\ Len(delivered) \in Nat
  <2>1. /\ rxBuffer' \in Seq(SentBytes') /\ wire \in Seq(SentBytes')
        /\ Encode(frame) \in Seq(SentBytes')
    BY <1>1, SendsWiden
  <2>2. intact \in Seq(Sendable) /\ delivered \in Seq(SentFrames)
    BY DEF TransportInv
  <2> QED
    BY <1>2, <2>1, <2>2, LenProperties
<1>4. /\ e \in Seq(SentBytes') /\ Len(e) = Len(Encode(frame))
      /\ \A i \in 1..Len(Encode(frame)) :
             e[i] = IF i = k THEN Plain(digit) ELSE Encode(frame)[i]
  <2>1. Plain(digit) \in SentBytes'
    BY DEF Plain, SentBytes
  <2> QED
    BY <1>3, <2>1, ExceptSeq
<1>5. /\ Len(delivered) <= Len(intact)
      /\ \A i \in 1..Len(delivered) : delivered[i] = intact[i]
      /\ Framable(stream, intact, Len(delivered))
      /\ reply = "none" => ~Complete(rxBuffer)
  BY <1>1 DEF ChannelInv
<1> HIDE DEF e, stream
<1>6. Spoilt(e, 0, frame)
  <2>1. \A i \in 1..Len(Encode(frame)) : 0 + i = i
    BY SizeOfFrame
  <2>2. \A i \in 1..Len(Encode(frame)) :
            e[0 + i] = IF i = k THEN Plain(digit) ELSE Encode(frame)[i]
    BY <1>4, <2>1
  <2>3. k \in HeaderSize..Len(Encode(frame))
    BY <1>1, SizeOfFrame
  <2> QED
    BY <1>1, <2>2, <2>3, Zenon DEF Spoilt
<1>7. stream \in Seq(SentBytes') /\ rxBuffer \o (wire \o e) = stream \o e
  BY <1>3, <1>4, StreamGrows, SMTT(30) DEF stream
<1>8. Framable(stream \o e, intact, Len(delivered))
  BY <1>3, <1>4, <1>5, <1>6, <1>7, FrameJoins
<1>9. Framable(rxBuffer' \o wire', intact', Len(delivered'))
  BY <1>2, <1>7, <1>8
<1> QED
  BY <1>2, <1>5, <1>9, Zenon DEF ChannelInv

\* A connection begins with nothing on the stream.
LEMMA NothingIsFramable == Framable(<<>> \o <<>>, <<>>, Len(<<>>))
<1> DEFINE none == [i \in 0..0 |-> 0]
<1>1. <<>> \o <<>> = <<>> /\ Len(<<>>) = 0
  BY EmptySeq, ConcatEmptySeq
<1>2. none \in [0..0 -> 0..0] /\ none[0] = 0 /\ \A i \in 0..0 : i = 0
  OBVIOUS
<1>3. \A i \in 1..0 : FALSE
  OBVIOUS
<1> HIDE DEF none
<1>4. \A i, j \in 0..0 : i <= j => none[i] <= none[j]
  BY <1>2
<1>5. Framed(<<>>, <<>>, 0, 0, none, none)
  BY <1>1, <1>2, <1>3, <1>4, Zenon DEF Framed
<1>6. 0 \in Nat
  OBVIOUS
<1>7. none \in [0..0 -> 0..Len(<<>>)]
  BY <1>1, <1>2
<1> QED
  BY <1>1, <1>5, <1>6, <1>7, Zenon DEF Framable

LEMMA ConnectStaysInStep ==
    ASSUME SetConnected
    PROVE  ChannelInv'
<1>1. /\ wire' = <<>> /\ rxBuffer' = <<>> /\ intact' = <<>> /\ delivered' = <<>>
  BY DEF SetConnected
<1>2. Len(<<>>) = 0 /\ Len(delivered') = 0 /\ Len(intact') = 0
  BY <1>1, EmptySeq
<1>3. ~Complete(rxBuffer')
  <2>1. MinFrameSize \in Nat /\ MinFrameSize > 0
    BY SizesTyped DEF MinFrameSize
  <2> QED
    BY <1>1, <1>2, <2>1 DEF Complete
<1>4. Framable(rxBuffer' \o wire', intact', Len(delivered'))
  BY <1>1, NothingIsFramable, Zenon
<1>5. Len(delivered') <= Len(intact') /\ \A i \in 1..Len(delivered') : delivered'[i] = intact'[i]
  BY <1>2
<1> QED
  BY <1>3, <1>4, <1>5, Zenon DEF ChannelInv

LEMMA ChannelInvNext ==
    ASSUME TransportInv, ChannelInv, [TransportNext]_transportVars
    PROVE  ChannelInv'
<1>1. CASE SetConnected
  BY <1>1, ConnectStaysInStep
<1>2. CASE SetDisconnected
  BY <1>2 DEF SetDisconnected, ChannelInv
<1>3. ASSUME NEW n \in 0..Len(wire), Feed(n)
      PROVE  ChannelInv'
  <2>1. CASE aligned
    BY <1>3, <2>1, FeedStaysInStep
  <2>2. CASE ~aligned
    BY <1>3, <2>2 DEF Feed, ChannelInv
  <2> QED
    BY <2>1, <2>2
<1>4. ASSUME NEW frame \in Sendable, Send(frame)
      PROVE  ChannelInv'
  BY <1>4, SendStaysInStep
<1>5. ASSUME NEW frame \in Sendable, NEW k \in 1..Len(Encode(frame)), SendCut(frame, k)
      PROVE  ChannelInv'
  BY <1>5 DEF SendCut, ChannelInv
<1>6. ASSUME NEW frame \in Sendable, NEW k \in 1..Len(Encode(frame)), NEW digit \in Digits,
             SendAltered(frame, k, digit)
      PROVE  ChannelInv'
  <2>1. CASE aligned'
    BY <1>6, <2>1, SendAlteredStaysInStep
  <2>2. CASE ~aligned'
    BY <2>2 DEF ChannelInv
  <2> QED
    BY <2>1, <2>2
<1>7. CASE UNCHANGED transportVars
  BY <1>7 DEF transportVars, ChannelInv
<1> QED
  BY <1>1, <1>2, <1>3, <1>4, <1>5, <1>6, <1>7 DEF TransportNext

\* When feed_bytes says "none" on a connection on which only types, payloads
\* and checksums were altered, nothing but the beginning of one frame waits
\* in its buffer, and once the wire is empty every undamaged frame is out.
THEOREM NothingHeldBack == TransportSpec => []NothingIsHeldBack
<1>1. TransportInit => TransportInv /\ ChannelInv
  BY TransportInvInit DEF TransportInit, ChannelInv
<1>2. TransportInv /\ ChannelInv /\ [TransportNext]_transportVars
          => TransportInv' /\ ChannelInv'
  BY TransportInvNext, ChannelInvNext
<1>3. TransportInv /\ ChannelInv => NothingIsHeldBack
  <2> SUFFICES ASSUME TransportInv, ChannelInv, aligned, reply = "none"
               PROVE  /\ Len(rxBuffer) < MaxFrameSize
                      /\ wire = <<>> => delivered = intact /\ rxBuffer = <<>>
    BY DEF NothingIsHeldBack
  <2> DEFINE stream == rxBuffer \o wire
  <2>1. /\ rxBuffer \in Seq(SentBytes) /\ wire \in Seq(SentBytes)
        /\ delivered \in Seq(SentFrames) /\ Len(delivered) \in Nat
        /\ intact \in Seq(Sendable) /\ Len(intact) \in Nat
        /\ Len(rxBuffer) \in Nat
    BY LenProperties DEF TransportInv
  <2>2. /\ stream \in Seq(SentBytes) /\ Len(stream) = Len(rxBuffer) + Len(wire)
        /\ \A k \in 1..Len(rxBuffer) : stream[k] = rxBuffer[k]
    <3>1. rxBuffer \in Seq(SentBytes) /\ wire \in Seq(SentBytes)
      BY <2>1
    <3> QED
      BY <3>1, Joined
  <2>3. /\ Len(delivered) <= Len(intact)
        /\ \A i \in 1..Len(delivered) : delivered[i] = intact[i]
        /\ Framable(stream, intact, Len(delivered)) /\ ~Complete(rxBuffer)
    BY DEF ChannelInv
  <2> HIDE DEF stream
  <2>4. CASE stream = <<>>
    <3>1. Len(stream) = 0 /\ Len(wire) \in Nat
      BY <2>1, <2>4, EmptySeq, LenProperties
    <3>2. Len(rxBuffer) = 0 /\ MaxFrameSize \in Nat /\ MaxFrameSize > 0
      BY <2>1, <2>2, <3>1, SizesTyped DEF MaxFrameSize, MinFrameSize
    <3>3. rxBuffer = <<>>
      BY <2>1, <3>2, EmptySeq
    <3>4. Len(delivered) = Len(intact)
      <4>1. PICK m \in Nat : \E cut \in [0..m -> 0..Len(stream)],
                                at \in [0..m -> 0..Len(intact)] :
                Framed(stream, intact, Len(delivered), m, cut, at)
        BY <2>3 DEF Framable
      <4>2. PICK cut \in [0..m -> 0..Len(stream)], at \in [0..m -> 0..Len(intact)] :
                Framed(stream, intact, Len(delivered), m, cut, at)
        BY <4>1
      <4>3. CASE m = 0
        BY <4>2, <4>3 DEF Framed
      <4>4. CASE m >= 1
        <5>1. /\ 0 \in 0..m /\ 1 \in 0..m /\ 1 \in 1..m /\ 1 - 1 = 0
          BY <4>4
        <5>2. /\ Segment(stream, intact, cut[0], cut[1], at[0], at[1]) /\ cut[0] = 0
          BY <4>2, <5>1, Zenon DEF Framed
        <5>3. PICK frame \in Sendable : cut[1] = 0 + Len(Encode(frame))
          BY <5>2, Zenon DEF Segment
        <5>4. cut[1] \in 0..Len(stream)
          BY <4>2, <5>1
        <5> QED
          BY <3>1, <5>3, <5>4, SizeOfFrame
      <4> QED
        BY <4>3, <4>4
    <3>5. delivered = intact
      <4>1. SentFrames \subseteq Sendable
        BY ElementOfSeq DEF TransportInv, SentFrames
      <4>2. delivered \in Seq(Sendable)
        BY <2>1, <4>1, SeqMonotonic
      <4> QED
        BY <2>1, <2>3, <3>4, <4>2, SeqEqual
    <3> QED
      BY <3>2, <3>3, <3>5
  <2>5. CASE stream # <<>>
    <3>1. PICK frame \in Sendable, next \in 0..Len(intact) :
            /\ Len(Encode(frame)) <= Len(stream)
            /\ Whole(stream, 0, frame) \/ Spoilt(stream, 0, frame)
      BY <2>1, <2>2, <2>3, <2>5, FrameLeaves
    <3>2. FrameLen(stream) = Len(Encode(frame))
      BY <3>1, LengthOnStream
    <3>3. Len(rxBuffer) < Len(Encode(frame))
      <4> SUFFICES ASSUME Len(rxBuffer) >= Len(Encode(frame)) PROVE FALSE
        BY <2>1, SizeOfFrame
      <4>1. Len(rxBuffer) >= MinFrameSize /\ \A k \in 1..LengthSize : k \in 1..Len(rxBuffer)
        BY <2>1, SizeOfFrame
      <4>2. FrameLen(stream) = FrameLen(rxBuffer)
        BY <2>2, <4>1, LengthOfPrefix
      <4> QED
        BY <2>3, <3>2, <4>1, <4>2 DEF Complete
    <3>4. Len(rxBuffer) < MaxFrameSize
      BY <2>1, <3>3, SizeOfFrame
    <3>5. wire # <<>>
      <4>1. wire = <<>> => Len(wire) = 0
        BY EmptySeq
      <4> QED
        BY <2>1, <2>2, <3>1, <3>3, <4>1, SizeOfFrame
    <3> QED
      BY <3>4, <3>5
  <2> QED
    BY <2>4, <2>5
<1> QED
  BY <1>1, <1>2, <1>3, PTL DEF TransportSpec

\* A call of feed_bytes takes one frame from the channel or none.
LEMMA FeedIsReceive ==
    ASSUME TransportInv, ChannelInv, NEW n \in 0..Len(wire), Feed(n)
    PROVE  \/ Channel!Receive
           \/ /\ (IF aligned THEN intact ELSE <<>>)' = IF aligned THEN intact ELSE <<>>
              /\ (IF aligned THEN delivered ELSE <<>>)' = IF aligned THEN delivered ELSE <<>>
<1>1. aligned' = aligned /\ intact' = intact
  BY DEF Feed
<1>2. CASE aligned
  <2>1. \/ delivered' = delivered
        \/ /\ Len(delivered) < Len(intact)
           /\ delivered' = Append(delivered, intact[Len(delivered) + 1])
    BY <1>2, FeedStaysInStep
  <2> QED
    BY <1>1, <1>2, <2>1, Zenon DEF Channel!Receive
<1>3. CASE ~aligned
  BY <1>1, <1>3
<1> QED
  BY <1>2, <1>3

\* Connecting, disconnecting and losing the framing reset the channel.
LEMMA MisalignedIsReset ==
    ASSUME ~aligned'
    PROVE  Channel!Reset
BY DEF Channel!Reset

\* As long as no byte was lost and no length altered, the transport is a
\* channel: the undamaged frames of a connection come out of feed_bytes in
\* the order of encode_message, each once, whatever was altered of the other
\* frames and however the bytes are cut into chunks.
THEOREM TransportImplementsChannel == TransportSpec => DeliversInOrder
<1>1. TransportInit => TransportInv /\ ChannelInv
  BY TransportInvInit DEF TransportInit, ChannelInv
<1>2. TransportInv /\ ChannelInv /\ [TransportNext]_transportVars
          => TransportInv' /\ ChannelInv'
  BY TransportInvNext, ChannelInvNext
<1>3. TransportInit => Channel!ChannelInit
  BY DEF TransportInit, Channel!ChannelInit
<1> DEFINE submitted == IF aligned THEN intact ELSE <<>>
           returned == IF aligned THEN delivered ELSE <<>>
<1>4. TransportInv /\ ChannelInv /\ [TransportNext]_transportVars
          => [Channel!ChannelNext]_<<submitted, returned>>
  <2> SUFFICES ASSUME TransportInv, ChannelInv, [TransportNext]_transportVars
               PROVE  Channel!ChannelNext \/ UNCHANGED <<submitted, returned>>
    OBVIOUS
  <2>1. CASE SetConnected
    BY <2>1 DEF SetConnected, Channel!ChannelNext, Channel!Reset
  <2>2. CASE SetDisconnected
    BY <2>2, MisalignedIsReset DEF SetDisconnected, Channel!ChannelNext
  <2>3. ASSUME NEW n \in 0..Len(wire), Feed(n)
        PROVE  Channel!ChannelNext \/ UNCHANGED <<submitted, returned>>
    BY <2>3, FeedIsReceive, Zenon DEF Channel!ChannelNext
  <2>4. ASSUME NEW frame \in Sendable, Send(frame)
        PROVE  Channel!ChannelNext
    <3>1. /\ aligned' = aligned /\ intact' = Append(intact, frame)
          /\ delivered' = delivered
      BY <2>4 DEF Send, Sends
    <3>2. CASE aligned
      BY <3>1, <3>2, Zenon DEF Channel!ChannelNext, Channel!Submit
    <3>3. CASE ~aligned
      BY <3>1, <3>3, MisalignedIsReset DEF Channel!ChannelNext
    <3> QED
      BY <3>2, <3>3
  <2>5. ASSUME NEW frame \in Sendable, NEW k \in 1..Len(Encode(frame)), SendCut(frame, k)
        PROVE  Channel!ChannelNext
    BY <2>5, MisalignedIsReset DEF SendCut, Channel!ChannelNext
  <2>6. ASSUME NEW frame \in Sendable, NEW k \in 1..Len(Encode(frame)),
               NEW digit \in Digits, SendAltered(frame, k, digit)
        PROVE  Channel!ChannelNext \/ UNCHANGED <<submitted, returned>>
    <3>1. /\ aligned' = (aligned /\ k > LengthSize) /\ intact' = intact
          /\ delivered' = delivered /\ aligned \in BOOLEAN
      BY <2>6 DEF SendAltered, Sends, TransportInv
    <3>2. CASE aligned'
      BY <3>1, <3>2
    <3>3. CASE ~aligned'
      BY <3>3, MisalignedIsReset DEF Channel!ChannelNext
    <3> QED
      BY <3>2, <3>3
  <2>7. CASE UNCHANGED transportVars
    BY <2>7 DEF transportVars
  <2> QED
    BY <2>1, <2>2, <2>3, <2>4, <2>5, <2>6, <2>7 DEF TransportNext
<1> QED
  BY <1>1, <1>2, <1>3, <1>4, PTL
     DEF TransportSpec, DeliversInOrder, Channel!ChannelSpec
=============================================================================
