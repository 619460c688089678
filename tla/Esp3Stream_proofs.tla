-------------------------- MODULE Esp3Stream_proofs --------------------------
(***************************************************************************)
(* Proofs about the parser, for every CRC, every size of the buffer and    *)
(* every stream of bytes, and about the stream in front of it, for all     *)
(* frames, all noise and any number of lost bytes and connections.         *)
(***************************************************************************)
EXTENDS Esp3Stream, TLAPS

-----------------------------------------------------------------------------
(* The parser.                                                             *)

(* What each state knows of the bytes in the buffer. *)
Position ==
  /\ state = "SYNC"       => frame = <<>> /\ body_read = 0
  /\ state = "HEADER"     => Len(frame) >= 1 /\ Len(frame) <= 4 /\ body_read = 0
  /\ state = "CRC_HEADER" => Len(frame) = 5
  /\ state = "DATA"       => Len(frame) = 6 + body_read /\ body_read < body_expected
  /\ state = "CRC_DATA"   => Len(frame) = 6 + body_expected

(* What has been checked of them. *)
Checked ==
  /\ state # "SYNC" => frame[1] = Sync
  /\ state \in {"CRC_HEADER", "DATA", "CRC_DATA"} => body_expected = BodyLength(frame)
  /\ state \in {"DATA", "CRC_DATA"} => frame[6] = Crc(Header(frame))

ParserInv == ParserTypeOK /\ Position /\ Checked /\ WholeFrames

(* The next byte belongs to the buffer.                                    *)
LEMMA InvInBounds == ParserInv => InBounds
<1> SUFFICES ASSUME ParserInv PROVE InBounds
  OBVIOUS
<1>1. /\ frame \in Seq(Byte) /\ MaxFrame \in Nat /\ MaxFrame >= 7
      /\ body_expected \in Nat /\ body_expected <= MaxFrame - 7
      /\ body_read \in Nat /\ state \in States
  BY MaxFrameAssumption DEF ParserInv, ParserTypeOK
<1>2. Len(frame) \in Nat /\ Position
  BY <1>1 DEF ParserInv
<1>3. CASE state = "SYNC"
  <2>1. Len(<<>>) = 0
    OBVIOUS
  <2> QED
    BY <1>1, <1>2, <1>3, <2>1 DEF Position, InBounds
<1>4. CASE state = "HEADER"
  BY <1>1, <1>2, <1>4 DEF Position, InBounds
<1>5. CASE state = "CRC_HEADER"
  <2>1. Len(frame) = 5
    BY <1>2, <1>5 DEF Position
  <2> QED
    BY <1>1, <2>1 DEF InBounds
<1>6. CASE state = "DATA"
  BY <1>1, <1>2, <1>6 DEF Position, InBounds
<1>7. CASE state = "CRC_DATA"
  BY <1>1, <1>2, <1>7 DEF Position, InBounds
<1> QED
  BY <1>1, <1>3, <1>4, <1>5, <1>6, <1>7 DEF States

(* The parser starts right.                                                *)
LEMMA InitInv == ParserInit => ParserInv
  BY MaxFrameAssumption
  DEF ParserInit, ParserInv, ParserTypeOK, Position, Checked, WholeFrames, States

(* What Append leaves as it was.                                           *)
LEMMA AppendFacts ==
  ASSUME NEW f \in Seq(Byte), NEW b \in Byte
  PROVE  /\ Append(f, b) \in Seq(Byte)
         /\ Len(Append(f, b)) = Len(f) + 1
         /\ \A i \in 1 .. Len(f) : Append(f, b)[i] = f[i]
         /\ Append(f, b)[Len(f) + 1] = b
         /\ Len(f) >= 5 => /\ Header(Append(f, b)) = Header(f)
                           /\ BodyLength(Append(f, b)) = BodyLength(f)
  BY DEF Header, BodyLength

(* The bytes of a header give a length.                                    *)
LEMMA BodyLengthNat ==
  ASSUME NEW f \in Seq(Byte), Len(f) >= 5
  PROVE  BodyLength(f) \in Nat
<1>1. f[2] \in Byte /\ f[3] \in Byte /\ f[4] \in Byte
  OBVIOUS
<1>2. \A x \in Byte : x \in Nat
  BY DEF Byte
<1>3. \A x, y, z \in Nat : 256 * x + y + z \in Nat
  OBVIOUS
<1> QED
  BY <1>1, <1>2, <1>3 DEF BodyLength

(* A byte keeps the invariant.                                             *)
LEMMA FeedKeepsInv ==
  ASSUME ParserInv, NEW b \in Byte, Feed(b)
  PROVE  ParserInv'
<1> USE DEF ParserInv
<1> DEFINE f == Append(frame, b)
<1>1. /\ frame \in Seq(Byte) /\ f \in Seq(Byte)
      /\ Len(frame) \in Nat
      /\ Len(f) = Len(frame) + 1
      /\ \A i \in 1 .. Len(frame) : f[i] = frame[i]
      /\ f[Len(frame) + 1] = b
      /\ Len(frame) >= 5 => Header(f) = Header(frame) /\ BodyLength(f) = BodyLength(frame)
      /\ Len(f) >= 5 => BodyLength(f) \in Nat
  <2>1. frame \in Seq(Byte)
    BY DEF ParserTypeOK
  <2>2. /\ f \in Seq(Byte)
        /\ Len(f) = Len(frame) + 1
        /\ \A i \in 1 .. Len(frame) : f[i] = frame[i]
        /\ f[Len(frame) + 1] = b
        /\ Len(frame) >= 5 => Header(f) = Header(frame) /\ BodyLength(f) = BodyLength(frame)
    BY <2>1, AppendFacts
  <2> HIDE DEF f
  <2> QED
    BY <2>1, <2>2, BodyLengthNat
<1> HIDE DEF f
<1>2. <<>> \in Seq(Byte)
  OBVIOUS
<1>3. ASSUME Reset, out' = <<>> PROVE ParserInv'
  BY <1>2, <1>3, MaxFrameAssumption
  DEF Reset, ParserTypeOK, Position, Checked, WholeFrames, States
<1>4. CASE FeedSync(b)
  <2>1. CASE b = Sync
    <3>1. /\ frame' = <<b>> /\ state' = "HEADER" /\ out' = <<>>
          /\ UNCHANGED <<body_expected, body_read>>
      BY <1>4, <2>1 DEF FeedSync
    <3>2. <<b>> \in Seq(Byte) /\ Len(<<b>>) = 1 /\ <<b>>[1] = b
      OBVIOUS
    <3>3. /\ frame' \in Seq(Byte) /\ Len(frame') = 1 /\ frame'[1] = Sync
          /\ state = "SYNC" /\ body_read = 0
      BY <1>4, <2>1, <3>1, <3>2 DEF FeedSync, Position
    <3>4. ParserTypeOK'
      BY <1>2, <3>1, <3>3 DEF ParserTypeOK, States
    <3> QED
      BY <3>1, <3>3, <3>4 DEF Position, Checked, WholeFrames
  <2>2. CASE b # Sync
    BY <1>2, <1>4, <2>2 DEF FeedSync, ParserTypeOK, Position, Checked, WholeFrames, States
  <2> QED
    BY <2>1, <2>2
<1>5. CASE FeedHeader(b)
  <2>1. /\ state = "HEADER" /\ Len(frame) >= 1 /\ Len(frame) <= 4 /\ body_read = 0
        /\ frame[1] = Sync /\ out' = <<>>
    BY <1>5 DEF FeedHeader, Position, Checked
  <2>2. CASE Len(f) < 5
    <3>1. frame' = f /\ UNCHANGED <<state, body_expected, body_read>>
      BY <1>5, <2>2 DEF FeedHeader, f
    <3> QED
      BY <1>1, <1>2, <2>1, <2>2, <3>1 DEF ParserTypeOK, Position, Checked, WholeFrames
  <2>3. CASE Len(f) >= 5 /\ Fits(BodyLength(f))
    <3>1. /\ frame' = f /\ state' = "CRC_HEADER" /\ body_expected' = BodyLength(f)
          /\ body_read' = body_read
      BY <1>1, <1>5, <2>3 DEF FeedHeader, f
    <3>2. BodyLength(f) \in 0 .. MaxFrame - 7
      BY <1>1, <2>3, MaxFrameAssumption DEF Fits
    <3> QED
      BY <1>1, <1>2, <2>1, <2>3, <3>1, <3>2
      DEF ParserTypeOK, Position, Checked, WholeFrames, States
  <2>4. CASE Len(f) >= 5 /\ ~Fits(BodyLength(f))
    BY <1>1, <1>3, <1>5, <2>1, <2>4 DEF FeedHeader, f
  <2> QED
    BY <1>1, <2>2, <2>3, <2>4
<1>6. CASE FeedCrcHeader(b)
  <2>1. /\ state = "CRC_HEADER" /\ Len(frame) = 5 /\ frame[1] = Sync
        /\ body_expected = BodyLength(frame) /\ out' = <<>>
    BY <1>6 DEF FeedCrcHeader, Position, Checked
  <2>2. CASE b = Crc(Header(frame))
    <3>1. /\ frame' = f /\ body_read' = 0 /\ body_expected' = body_expected
          /\ state' = IF body_expected = 0 THEN "CRC_DATA" ELSE "DATA"
      BY <1>6, <2>2 DEF FeedCrcHeader, f
    <3> QED
      BY <1>1, <1>2, <2>1, <2>2, <3>1 DEF ParserTypeOK, Position, Checked, WholeFrames, States
  <2>3. CASE b # Crc(Header(frame))
    BY <1>3, <1>6, <2>1, <2>3 DEF FeedCrcHeader
  <2> QED
    BY <2>2, <2>3
<1>7. CASE FeedData(b)
  <2>1. /\ state = "DATA" /\ Len(frame) = 6 + body_read /\ body_read < body_expected
        /\ body_expected = BodyLength(frame) /\ frame[1] = Sync
        /\ frame[6] = Crc(Header(frame))
    BY <1>7 DEF FeedData, Position, Checked
  <2>2. /\ frame' = f /\ body_read' = body_read + 1 /\ body_expected' = body_expected
        /\ state' = IF body_read + 1 >= body_expected THEN "CRC_DATA" ELSE "DATA"
        /\ out' = <<>>
    BY <1>7 DEF FeedData, f
  <2> QED
    BY <1>1, <1>2, <2>1, <2>2 DEF ParserTypeOK, Position, Checked, WholeFrames, States
<1>8. CASE FeedCrcData(b)
  <2>1. /\ state = "CRC_DATA" /\ Len(frame) = 6 + body_expected
        /\ body_expected = BodyLength(frame) /\ frame[1] = Sync
        /\ frame[6] = Crc(Header(frame))
    BY <1>8 DEF FeedCrcData, Position, Checked
  <2>2. CASE b # Crc(Body(frame, body_expected))
    BY <1>3, <1>8, <2>2 DEF FeedCrcData
  <2>3. CASE b = Crc(Body(frame, body_expected))
    <3>1. Reset /\ out' = f
      BY <1>8, <2>3 DEF FeedCrcData, f
    <3>2. Body(f, body_expected) = Body(frame, body_expected)
      BY <1>1, <2>1 DEF Body, ParserTypeOK
    <3>3. body_expected \in Nat
      BY DEF ParserTypeOK
    <3>4. f[1] = Sync /\ f[6] = Crc(Header(f)) /\ BodyLength(f) = body_expected
      BY <1>1, <2>1, <3>3
    <3>5. Len(f) = 7 + body_expected /\ f[Len(f)] = Crc(Body(f, body_expected))
      BY <1>1, <2>1, <2>3, <3>2, <3>3
    <3>6. WellFormed(f)
      BY <3>3, <3>4, <3>5 DEF WellFormed
    <3> QED
      BY <1>1, <1>2, <3>1, <3>6, MaxFrameAssumption
      DEF Reset, ParserTypeOK, Position, Checked, WholeFrames, States
  <2> QED
    BY <2>2, <2>3
<1> QED
  BY <1>4, <1>5, <1>6, <1>7, <1>8 DEF Feed

(* So does a new start, and a step of something else.                      *)
LEMMA ParserStep ==
  ASSUME ParserInv, [(\E b \in Byte : Feed(b)) \/ ParserInit']_parser
  PROVE  ParserInv'
<1>1. CASE \E b \in Byte : Feed(b)
  BY <1>1, FeedKeepsInv
<1>2. CASE ParserInit'
  BY <1>2, MaxFrameAssumption
  DEF ParserInit, ParserInv, ParserTypeOK, Position, Checked, WholeFrames, States
<1>3. CASE UNCHANGED parser
  BY <1>3 DEF parser, ParserInv, ParserTypeOK, Position, Checked, WholeFrames
<1> QED
  BY <1>1, <1>2, <1>3

(* Whatever bytes come, the parser knows where in a frame it is.           *)
THEOREM ParserInvariant == ParserSpec => []ParserInv
<1>1. ParserInv /\ [(\E b \in Byte : Feed(b)) \/ ParserInit']_parser => ParserInv'
  BY ParserStep
<1> QED
  BY InitInv, <1>1, PTL DEF ParserSpec

(* Whatever length a header claims, no byte is written behind the buffer.  *)
THEOREM ParserInBounds == ParserSpec => []InBounds
  BY ParserInvariant, InvInBounds, PTL

(* Only whole frames with both checksums right are passed on.              *)
THEOREM ParserWholeFrames == ParserSpec => []WholeFrames
<1>1. ParserInv => WholeFrames
  BY DEF ParserInv
<1> QED
  BY ParserInvariant, <1>1, PTL

-----------------------------------------------------------------------------
(* The stream.                                                             *)

(* While a frame is sent in step, the buffer holds its first bytes and the *)
(* rest is still to come.                                                  *)
Prefix ==
  inStep /\ rest # <<>> =>
    /\ state # "SYNC" /\ current \in Frames
    /\ Len(current) = Len(frame) + Len(rest)
    /\ \A i \in 1 .. Len(frame) : frame[i] = current[i]
    /\ \A i \in 1 .. Len(rest)  : rest[i] = current[Len(frame) + i]

StreamInv == ParserInv /\ TypeOK /\ OwnBytes /\ Prefix /\ InStepDelivered

(* The first byte and the others.                                          *)
LEMMA HeadTail ==
  ASSUME NEW s \in Seq(Byte), s # <<>>
  PROVE  /\ Head(s) \in Byte /\ Head(s) = s[1]
         /\ Tail(s) \in Seq(Byte) /\ Len(Tail(s)) = Len(s) - 1
         /\ \A i \in 1 .. Len(s) - 1 : Tail(s)[i] = s[i + 1]
  OBVIOUS

(* What the parser sees is a step of the parser.                           *)
LEMMA StepIsParserStep ==
  ASSUME TypeOK, [Next]_vars
  PROVE  [(\E b \in Byte : Feed(b)) \/ ParserInit']_parser
<1>1. ASSUME NEW f \in Frames, SendFrame(f) PROVE \E b \in Byte : Feed(b)
  <2>1. f \in Seq(Byte) /\ f # <<>>
    BY FramesAssumption DEF WellFormed
  <2>2. Head(f) \in Byte
    BY <2>1, HeadTail
  <2> QED
    BY <1>1, <2>2 DEF SendFrame, Receive
<1>2. CASE SendByte
  <2>1. Head(rest) \in Byte
    BY <1>2, HeadTail DEF SendByte, TypeOK
  <2> QED
    BY <1>2, <2>1 DEF SendByte, Receive
<1>3. CASE ByteLost
  BY <1>3 DEF ByteLost
<1>4. ASSUME NEW b \in Noise, ByteAdded(b) PROVE \E x \in Byte : Feed(x)
  BY <1>4, NoiseAssumption DEF ByteAdded, Receive
<1>5. CASE Reconnect
  BY <1>5 DEF Reconnect, Reset, ParserInit
<1>6. CASE UNCHANGED vars
  BY <1>6 DEF vars
<1> QED
  BY <1>1, <1>2, <1>3, <1>4, <1>5, <1>6 DEF Next

(* A byte makes the buffer, and what is passed on, longer by one at most.  *)
LEMMA FeedGrowsByOne ==
  ASSUME ParserInv, NEW b \in Byte, Feed(b)
  PROVE  Len(frame') <= Len(frame) + 1 /\ Len(out') <= Len(frame) + 1
<1>1. /\ frame \in Seq(Byte) /\ Len(frame) \in Nat
      /\ Len(Append(frame, b)) = Len(frame) + 1
      /\ Len(<<>>) = 0 /\ Len(<<b>>) = 1
  BY DEF ParserInv, ParserTypeOK
<1>2. frame' \in {<<>>, <<b>>, frame, Append(frame, b)}
  BY DEF Feed, FeedSync, FeedHeader, FeedCrcHeader, FeedData, FeedCrcData, Reset
<1>3. out' \in {<<>>, Append(frame, b)}
  BY DEF Feed, FeedSync, FeedHeader, FeedCrcHeader, FeedData, FeedCrcData
<1>4. Len(frame') = 0 \/ Len(frame') = 1 \/ Len(frame') = Len(frame) \/ Len(frame') = Len(frame) + 1
  BY <1>1, <1>2
<1>5. Len(out') = 0 \/ Len(out') = Len(frame) + 1
  BY <1>1, <1>3
<1>6. \A n \in Nat : 0 <= n + 1 /\ 1 <= n + 1 /\ n <= n + 1 /\ n + 1 <= n + 1
  OBVIOUS
<1>7. Len(frame') <= Len(frame) + 1
  BY <1>1, <1>4, <1>6
<1>8. Len(out') <= Len(frame) + 1
  BY <1>1, <1>5, <1>6
<1> QED
  BY <1>7, <1>8

(* No more bytes are held, or passed on, than this client has sent.        *)
LEMMA ReceiveKeepsOwn ==
  ASSUME ParserInv, TypeOK, OwnBytes, NEW b \in Byte, Receive(b)
  PROVE  OwnBytes' /\ received' \in 0 .. MaxFrame
<1>1. Feed(b) /\ received' = IF received < MaxFrame THEN received + 1 ELSE received
  BY DEF Receive
<1>2. Len(frame') <= Len(frame) + 1 /\ Len(out') <= Len(frame) + 1
  BY <1>1, FeedGrowsByOne
<1>3. Len(frame) < MaxFrame /\ Len(frame) <= received
  BY InvInBounds DEF InBounds, OwnBytes
<1>4. ParserInv'
  BY <1>1, FeedKeepsInv
<1>5. Len(frame) \in Nat /\ Len(frame') \in Nat /\ Len(out') \in Nat
  BY <1>4 DEF ParserInv, ParserTypeOK
<1>6. received \in Nat /\ received <= MaxFrame /\ MaxFrame \in Nat
  BY MaxFrameAssumption DEF TypeOK
<1> QED
  BY <1>1, <1>2, <1>3, <1>5, <1>6 DEF OwnBytes

(* The next byte of a frame sent in step is taken for what it is, and the  *)
(* last one completes the frame.                                           *)
LEMMA SendByteInStep ==
  ASSUME ParserInv, TypeOK, Prefix, inStep, SendByte
  PROVE  Prefix' /\ InStepDelivered'
<1> DEFINE b == Head(rest)
           f == Append(frame, b)
           n == Len(frame)
<1>1. /\ rest \in Seq(Byte) /\ rest # <<>> /\ rest' = Tail(rest)
      /\ Feed(b) /\ UNCHANGED <<current, inStep>>
  BY DEF SendByte, Receive, TypeOK
<1>2. /\ b \in Byte /\ b = rest[1]
      /\ rest' \in Seq(Byte) /\ Len(rest') = Len(rest) - 1 /\ Len(rest) \in Nat
      /\ \A i \in 1 .. Len(rest) - 1 : rest'[i] = rest[i + 1]
  BY <1>1, HeadTail
<1>3. /\ state # "SYNC" /\ current \in Frames
      /\ Len(current) = n + Len(rest)
      /\ \A i \in 1 .. n : frame[i] = current[i]
      /\ \A i \in 1 .. Len(rest) : rest[i] = current[n + i]
  BY <1>1 DEF Prefix
<1>4. /\ current \in Seq(Byte) /\ Len(current) <= MaxFrame /\ Len(current) >= 7
      /\ Len(current) = 7 + BodyLength(current)
      /\ current[6] = Crc(Header(current))
      /\ current[Len(current)] = Crc(Body(current, BodyLength(current)))
  BY <1>3, FramesAssumption DEF WellFormed
<1>5. /\ frame \in Seq(Byte) /\ n \in Nat /\ f \in Seq(Byte) /\ Len(f) = n + 1
      /\ \A i \in 1 .. n : f[i] = frame[i]
      /\ f[n + 1] = b
  <2>1. frame \in Seq(Byte)
    BY DEF ParserInv, ParserTypeOK
  <2> QED
    BY <1>2, <2>1, AppendFacts
<1>6. current[n + 1] = b /\ Len(rest) >= 1
  BY <1>1, <1>2, <1>3
<1>7. \A i \in 1 .. n + 1 : f[i] = current[i]
  BY <1>3, <1>5, <1>6
<1> HIDE DEF b, f
<1>8. ASSUME frame' = f, state' # "SYNC", Len(rest) >= 2
      PROVE  Prefix' /\ InStepDelivered'
  <2>1. rest' # <<>>
    BY <1>2, <1>8
  <2>2. Len(current) = Len(f) + Len(rest')
    BY <1>2, <1>3, <1>5
  <2>3. \A i \in 1 .. Len(rest') : rest'[i] = current[Len(f) + i]
    <3> SUFFICES ASSUME NEW i \in 1 .. Len(rest) - 1
                 PROVE  rest'[i] = current[n + 1 + i]
      BY <1>2, <1>5
    <3>1. rest'[i] = rest[i + 1] /\ i + 1 \in 1 .. Len(rest)
      BY <1>2
    <3>2. rest[i + 1] = current[n + (i + 1)]
      BY <1>3, <3>1
    <3> QED
      BY <1>5, <3>1, <3>2
  <2>4. \A i \in 1 .. Len(f) : f[i] = current[i]
    BY <1>5, <1>7
  <2> QED
    BY <1>1, <1>3, <1>8, <2>1, <2>2, <2>3, <2>4 DEF Prefix, InStepDelivered
<1>9. CASE FeedHeader(b)
  <2>1. state = "HEADER" /\ n >= 1 /\ n <= 4 /\ n \in Nat /\ Len(f) = n + 1
    BY <1>5, <1>9 DEF FeedHeader, ParserInv, Position
  <2>2. Len(rest) >= 2
    BY <1>2, <1>3, <1>4, <1>5, <2>1
  <2>3. CASE Len(f) < 5
    <3>1. frame' = f /\ state' = state
      BY <1>9, <2>3 DEF FeedHeader, f
    <3> QED
      BY <1>8, <2>1, <2>2, <3>1
  <2>4. CASE ~(Len(f) < 5)
    <3>1. n = 4
      <4>1. ~(n + 1 < 5) /\ n \in Nat /\ n <= 4
        BY <2>1, <2>4
      <4> HIDE DEF n
      <4> QED
        BY <4>1
    <3>2. BodyLength(f) = BodyLength(current)
      BY <1>7, <3>1 DEF BodyLength
    <3>3. BodyLength(current) \in Nat
      BY <1>4, BodyLengthNat
    <3>4. Fits(BodyLength(f))
      BY <1>4, <3>2, <3>3 DEF Fits
    <3>5. frame' = f /\ state' = "CRC_HEADER"
      BY <1>9, <2>4, <3>4 DEF FeedHeader, f
    <3> QED
      BY <1>8, <2>2, <3>5
  <2> QED
    BY <2>3, <2>4
<1>10. CASE FeedCrcHeader(b)
  <2>1. state = "CRC_HEADER" /\ n = 5
    BY <1>10 DEF FeedCrcHeader, ParserInv, Position
  <2>2. Len(rest) >= 2
    BY <1>2, <1>3, <1>4, <1>5, <2>1
  <2>3. Header(frame) = Header(current)
    BY <1>3, <2>1 DEF Header
  <2>4. b = Crc(Header(frame))
    BY <1>4, <1>6, <2>1, <2>3
  <2>5. frame' = f /\ state' \in {"CRC_DATA", "DATA"}
    BY <1>10, <2>4 DEF FeedCrcHeader, f
  <2> QED
    BY <1>8, <2>2, <2>5
<1>11. ASSUME state \in {"DATA", "CRC_DATA"}
       PROVE  body_expected = BodyLength(current) /\ body_expected \in Nat /\ n >= 6
  <2>1. body_expected = BodyLength(frame) /\ body_expected \in Nat /\ body_read \in Nat
    BY <1>11 DEF ParserInv, ParserTypeOK, Checked
  <2>2. n >= 6
    BY <1>5, <1>11, <2>1 DEF ParserInv, Position
  <2>3. BodyLength(frame) = BodyLength(current)
    BY <1>3, <1>5, <2>2 DEF BodyLength
  <2> QED
    BY <2>1, <2>2, <2>3
<1>12. CASE FeedData(b)
  <2>1. state = "DATA" /\ n = 6 + body_read /\ body_read < body_expected /\ body_read \in Nat
    BY <1>12 DEF FeedData, ParserInv, ParserTypeOK, Position
  <2>2. Len(rest) >= 2
    BY <1>2, <1>3, <1>4, <1>5, <1>11, <2>1
  <2>3. frame' = f /\ state' \in {"CRC_DATA", "DATA"}
    BY <1>12 DEF FeedData, f
  <2> QED
    BY <1>8, <2>2, <2>3
<1>13. CASE FeedCrcData(b)
  <2>1. state = "CRC_DATA" /\ n = 6 + body_expected
    BY <1>13 DEF FeedCrcData, ParserInv, Position
  <2>2. body_expected = BodyLength(current) /\ body_expected \in Nat
    BY <1>11, <2>1
  <2>3. Len(current) = n + 1 /\ Len(rest) = 1
    BY <1>2, <1>3, <1>4, <1>5, <2>1, <2>2
  <2>4. rest' = <<>>
    BY <1>2, <2>3
  <2>5. \A i \in 1 .. body_expected : frame[6 + i] = current[6 + i]
    BY <1>3, <1>5, <2>1, <2>2
  <2>6. Body(frame, body_expected) = Body(current, BodyLength(current))
    BY <2>2, <2>5 DEF Body
  <2>7. b = Crc(Body(frame, body_expected))
    BY <1>4, <1>6, <2>3, <2>6
  <2>8. out' = f
    BY <1>13, <2>7 DEF FeedCrcData, f
  <2>9. f = current
    BY <1>4, <1>5, <1>7, <2>3
  <2> QED
    BY <1>1, <2>4, <2>8, <2>9 DEF Prefix, InStepDelivered
<1>14. ~FeedSync(b)
  BY <1>3 DEF FeedSync
<1> QED
  BY <1>1, <1>9, <1>10, <1>12, <1>13, <1>14 DEF Feed, b

(* The invariant, step by step.                                            *)
LEMMA StepKeepsInv ==
  ASSUME StreamInv, [Next]_vars
  PROVE  StreamInv'
<1>1. ParserInv /\ TypeOK /\ OwnBytes /\ Prefix /\ InStepDelivered
  BY DEF StreamInv
<1>2. ParserInv'
  <2>1. [(\E b \in Byte : Feed(b)) \/ ParserInit']_parser
    BY <1>1, StepIsParserStep
  <2> QED
    BY <1>1, <2>1, ParserStep
<1>3. ParserTypeOK'
  BY <1>2 DEF ParserInv
<1>4. ASSUME ~inStep', TypeOK', OwnBytes' PROVE StreamInv'
  BY <1>2, <1>4 DEF StreamInv, Prefix, InStepDelivered
<1>5. ASSUME NEW fr \in Frames, SendFrame(fr) PROVE StreamInv'
  <2>1. /\ fr \in Seq(Byte) /\ fr # <<>> /\ fr[1] = Sync /\ Len(fr) >= 7
    BY FramesAssumption DEF WellFormed
  <2>2. /\ Head(fr) = Sync /\ Sync \in Byte /\ Tail(fr) \in Seq(Byte)
        /\ Len(Tail(fr)) = Len(fr) - 1
        /\ \A i \in 1 .. Len(fr) - 1 : Tail(fr)[i] = fr[i + 1]
    BY <2>1, HeadTail DEF Byte, Sync
  <2>3. /\ current' = fr /\ rest' = Tail(fr) /\ inStep' = (state = "SYNC")
        /\ Receive(Sync) /\ UNCHANGED <<disturbed, connects>>
    BY <1>5, <2>2 DEF SendFrame
  <2>4. OwnBytes' /\ received' \in 0 .. MaxFrame
    BY <1>1, <2>2, <2>3, ReceiveKeepsOwn
  <2>5. TypeOK'
    BY <1>1, <1>3, <2>2, <2>3, <2>4 DEF TypeOK
  <2>6. CASE state # "SYNC"
    BY <1>4, <2>3, <2>4, <2>5, <2>6
  <2>7. CASE state = "SYNC"
    <3>1. frame' = <<Sync>> /\ state' = "HEADER"
      BY <2>3, <2>7 DEF Receive, Feed, FeedSync, FeedHeader, FeedCrcHeader, FeedData, FeedCrcData
    <3>2. Len(<<Sync>>) = 1 /\ <<Sync>>[1] = Sync /\ rest' # <<>>
      <4>1. Len(rest') >= 6
        BY <2>1, <2>2, <2>3
      <4>2. Len(<<>>) = 0 /\ Len(<<Sync>>) = 1 /\ <<Sync>>[1] = Sync
        OBVIOUS
      <4> QED
        BY <4>1, <4>2
    <3>3. Prefix'
      BY <2>1, <2>2, <2>3, <3>1, <3>2 DEF Prefix
    <3> QED
      BY <1>2, <2>4, <2>5, <3>2, <3>3 DEF StreamInv, InStepDelivered
  <2> QED
    BY <2>6, <2>7
<1>6. CASE SendByte
  <2>1. Head(rest) \in Byte /\ Tail(rest) \in Seq(Byte)
    BY <1>1, <1>6, HeadTail DEF SendByte, TypeOK
  <2>2. /\ rest' = Tail(rest) /\ Receive(Head(rest))
        /\ UNCHANGED <<current, inStep, disturbed, connects>>
    BY <1>6 DEF SendByte
  <2>3. OwnBytes' /\ received' \in 0 .. MaxFrame
    BY <1>1, <2>1, <2>2, ReceiveKeepsOwn
  <2>4. TypeOK'
    BY <1>1, <1>3, <2>1, <2>2, <2>3 DEF TypeOK
  <2>5. CASE inStep
    BY <1>1, <1>2, <1>6, <2>3, <2>4, <2>5, SendByteInStep DEF StreamInv
  <2>6. CASE ~inStep
    BY <1>4, <2>2, <2>3, <2>4, <2>6
  <2> QED
    BY <2>5, <2>6
<1>7. Disturb => inStep' = FALSE /\ disturbed' \in 0 .. MaxDisturbed
  BY <1>1, BoundsAssumption DEF Disturb, TypeOK
<1>8. CASE ByteLost
  <2>1. Disturb /\ rest # <<>> /\ rest' = Tail(rest)
        /\ UNCHANGED <<parser, current, received, connects>>
    BY <1>8 DEF ByteLost
  <2>2. rest' \in Seq(Byte)
    BY <1>1, <2>1, HeadTail DEF TypeOK
  <2>3. OwnBytes'
    BY <1>1, <2>1 DEF OwnBytes, parser
  <2>4. TypeOK'
    BY <1>1, <1>3, <1>7, <2>1, <2>2 DEF TypeOK
  <2> QED
    BY <1>4, <1>7, <2>1, <2>3, <2>4
<1>9. ASSUME NEW b \in Noise, ByteAdded(b) PROVE StreamInv'
  <2>1. Disturb /\ Receive(b) /\ UNCHANGED <<current, rest, connects>> /\ b \in Byte
    BY <1>9, NoiseAssumption DEF ByteAdded
  <2>2. OwnBytes' /\ received' \in 0 .. MaxFrame
    BY <1>1, <2>1, ReceiveKeepsOwn
  <2>3. TypeOK'
    BY <1>1, <1>3, <1>7, <2>1, <2>2 DEF TypeOK
  <2> QED
    BY <1>4, <1>7, <2>1, <2>2, <2>3
<1>10. CASE Reconnect
  <2>1. /\ connects' \in 0 .. MaxConnects /\ frame' = <<>> /\ out' = <<>>
        /\ rest' = <<>> /\ inStep' = FALSE /\ received' = 0
        /\ UNCHANGED <<current, disturbed>>
    BY <1>1, <1>10, BoundsAssumption DEF Reconnect, Reset, TypeOK
  <2>2. OwnBytes'
    BY <2>1 DEF OwnBytes
  <2>3. rest' \in Seq(Byte) /\ received' \in 0 .. MaxFrame
    BY <2>1, MaxFrameAssumption
  <2>4. TypeOK'
    BY <1>1, <1>3, <2>1, <2>3 DEF TypeOK
  <2> QED
    BY <1>4, <2>1, <2>2, <2>4
<1>11. CASE UNCHANGED vars
  BY <1>1, <1>2, <1>3, <1>11
  DEF vars, parser, sender, StreamInv, TypeOK, OwnBytes, Prefix, InStepDelivered
<1> QED
  BY <1>5, <1>6, <1>8, <1>9, <1>10, <1>11 DEF Next

(* The stream starts right.                                                *)
LEMMA StartKeepsInv == Init => StreamInv
<1> SUFFICES ASSUME Init PROVE StreamInv
  OBVIOUS
<1>1. ParserInv
  BY InitInv DEF Init
<1>2. frame = <<>> /\ out = <<>> /\ current = <<>> /\ rest = <<>> /\ inStep = FALSE
      /\ received = 0 /\ disturbed = 0 /\ connects = 0
  BY DEF Init, ParserInit
<1>3. TypeOK
  <2>1. /\ rest \in Seq(Byte) /\ received \in 0 .. MaxFrame
        /\ disturbed \in 0 .. MaxDisturbed /\ connects \in 0 .. MaxConnects
    BY <1>2, MaxFrameAssumption, BoundsAssumption
  <2> QED
    BY <1>1, <1>2, <2>1 DEF TypeOK, ParserInv
<1>4. OwnBytes
  BY <1>2 DEF OwnBytes
<1> QED
  BY <1>1, <1>2, <1>3, <1>4 DEF StreamInv, Prefix, InStepDelivered

(* The inductive invariant holds.                                          *)
THEOREM StreamInvariant == Spec => []StreamInv
<1>1. StreamInv /\ [Next]_vars => StreamInv'
  BY StepKeepsInv
<1> QED
  BY StartKeepsInv, <1>1, PTL DEF Spec

(* A stream drives the parser by bytes and new starts only.                *)
THEOREM StreamImplementsParser == Spec => ParserSpec
<1>1. Init => ParserInit
  BY DEF Init
<1>2. StreamInv /\ [Next]_vars => [(\E b \in Byte : Feed(b)) \/ ParserInit']_parser
  BY StepIsParserStep DEF StreamInv
<1> QED
  BY StreamInvariant, <1>1, <1>2, PTL DEF Spec, ParserSpec

(* No length that a client claims leads past the end of the buffer.        *)
THEOREM StreamInBounds == Spec => []InBounds
  BY StreamImplementsParser, ParserInBounds, PTL

(* Only whole frames with both checksums right go to the radio module.     *)
THEOREM StreamWholeFrames == Spec => []WholeFrames
  BY StreamImplementsParser, ParserWholeFrames, PTL

(* Types, room for every next byte, and no client's bytes in a frame of    *)
(* the next client of its slot.                                            *)
THEOREM StreamSafe == Spec => []Safety
<1>1. StreamInv => TypeOK /\ OwnBytes
  BY DEF StreamInv
<1>2. Spec => [](TypeOK /\ OwnBytes)
  BY StreamInvariant, <1>1, PTL
<1>3. TypeOK /\ OwnBytes /\ InBounds => Safety
  BY DEF Safety
<1> QED
  BY <1>2, <1>3, StreamInBounds, PTL

(* A frame sent in step is delivered as it is, with its last byte.         *)
THEOREM StreamDelivers == Spec => []InStepDelivered
<1>1. StreamInv => InStepDelivered
  BY DEF StreamInv
<1> QED
  BY StreamInvariant, <1>1, PTL

=============================================================================
