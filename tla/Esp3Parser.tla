----------------------------- MODULE Esp3Parser -----------------------------
(***************************************************************************)
(* The parser of ESP3 frames, src/main/esp3_parser.c, as a step per byte.  *)
(*                                                                         *)
(*   sync | data length (2), optional length, type | CRC | body | CRC      *)
(*                                                                         *)
(* The frame buffer holds what `frame' holds up to `pos', so that pos is   *)
(* the length of `frame'.  The CRC is a parameter.  Statistics are left    *)
(* out.                                                                    *)
(***************************************************************************)
EXTENDS Integers, Sequences

CONSTANTS
  Crc(_),    \* esp3_crc8_buf
  MaxFrame   \* EUL_ESP3_MAX_FRAME, the size of the buffer

ASSUME MaxFrameAssumption == MaxFrame \in Nat /\ MaxFrame >= 7

VARIABLES
  state,          \* where in a frame the next byte belongs
  frame,          \* the bytes of the frame so far
  body_expected,  \* length of the body, from the header
  body_read,      \* bytes of the body so far
  out             \* the frame this byte completed and cb was called with, or <<>>

parser == <<state, frame, body_expected, body_read, out>>

Byte   == 0 .. 255
Sync   == 85  \* ESP3_SYNC, 0x55
States == {"SYNC", "HEADER", "CRC_HEADER", "DATA", "CRC_DATA"}

Header(f) == <<f[2], f[3], f[4], f[5]>>
BodyLength(f) == 256 * f[2] + f[3] + f[4]
Body(f, n) == [i \in 1 .. n |-> f[6 + i]]

(* esp3_parser_init. *)
ParserInit ==
  /\ state = "SYNC" /\ frame = <<>> /\ body_expected = 0 /\ body_read = 0
  /\ out = <<>>

(* reset_parser. *)
Reset == state' = "SYNC" /\ frame' = <<>> /\ body_expected' = 0 /\ body_read' = 0

FeedSync(b) ==
  /\ state = "SYNC"
  /\ IF b = Sync THEN frame' = <<b>> /\ state' = "HEADER"
                 ELSE UNCHANGED <<frame, state>>
  /\ out' = <<>>
  /\ UNCHANGED <<body_expected, body_read>>

(* Fault: forgets the byte of the second CRC. *)
FitsButOne(n) == 6 + n <= MaxFrame

(* Sync, header, both CRCs and the body. *)
Fits(n) == 7 + n <= MaxFrame

FeedHeader(b) ==
  LET f == Append(frame, b)
      n == BodyLength(f)
  IN  /\ state = "HEADER"
      /\ IF Len(f) < 5
         THEN frame' = f /\ UNCHANGED <<state, body_expected, body_read>>
         ELSE IF Fits(n)
         THEN frame' = f /\ state' = "CRC_HEADER" /\ body_expected' = n /\ UNCHANGED body_read
         ELSE Reset
      /\ out' = <<>>

(* Fault: an empty body is waited for. *)
FeedCrcHeaderWaits(b) ==
  /\ state = "CRC_HEADER"
  /\ IF b = Crc(Header(frame))
     THEN /\ frame' = Append(frame, b) /\ body_read' = 0
          /\ state' = "DATA"
          /\ UNCHANGED body_expected
     ELSE Reset
  /\ out' = <<>>

(* A wrong header is dropped, whatever of it may have been a sync byte. *)
FeedCrcHeader(b) ==
  /\ state = "CRC_HEADER"
  /\ IF b = Crc(Header(frame))
     THEN /\ frame' = Append(frame, b) /\ body_read' = 0
          /\ state' = IF body_expected = 0 THEN "CRC_DATA" ELSE "DATA"
          /\ UNCHANGED body_expected
     ELSE Reset
  /\ out' = <<>>

FeedData(b) ==
  /\ state = "DATA"
  /\ frame' = Append(frame, b) /\ body_read' = body_read + 1
  /\ state' = IF body_read + 1 >= body_expected THEN "CRC_DATA" ELSE "DATA"
  /\ out' = <<>>
  /\ UNCHANGED body_expected

(* Fault: a damaged body is passed on. *)
FeedCrcDataUnchecked(b) ==
  /\ state = "CRC_DATA"
  /\ out' = Append(frame, b)
  /\ Reset

FeedCrcData(b) ==
  /\ state = "CRC_DATA"
  /\ out' = IF b = Crc(Body(frame, body_expected)) THEN Append(frame, b) ELSE <<>>
  /\ Reset

(* One turn of the loop in esp3_parser_feed. *)
Feed(b) == FeedSync(b) \/ FeedHeader(b) \/ FeedCrcHeader(b) \/ FeedData(b) \/ FeedCrcData(b)

(* Any bytes at all, and a new start of the parser at any time. *)
ParserSpec ==
  ParserInit /\ [][(\E b \in Byte : Feed(b)) \/ ParserInit']_parser

-----------------------------------------------------------------------------
(* Types of the parser's variables (esp3_parser.h:22-37): the body that is *)
(* expected fits, and never is more of it read than expected.              *)
ParserTypeOK ==
  /\ state \in States
  /\ frame \in Seq(Byte) /\ out \in Seq(Byte)
  /\ body_expected \in 0 .. MaxFrame - 7 /\ body_read \in 0 .. body_expected

(* The next byte always has room in the buffer (esp3_parser.c:64-70): the  *)
(* length that a sender claims in its header never leads past its end.     *)
InBounds == Len(frame) < MaxFrame

WellFormed(f) ==
  /\ Len(f) >= 7 /\ f[1] = Sync
  /\ Len(f) = 7 + BodyLength(f)
  /\ f[6] = Crc(Header(f))
  /\ f[Len(f)] = Crc(Body(f, BodyLength(f)))

(* Whatever bytes come in, and whenever the parser is started anew: what   *)
(* is passed on - to the radio module, for frames of clients - is one      *)
(* whole frame with both its checksums right.                              *)
WholeFrames == out # <<>> => WellFormed(out)

=============================================================================
