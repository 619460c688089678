---------------------------- MODULE MC_Esp3Stream ----------------------------
(* An instance of Esp3Stream for TLC, with the CRC that ESP3 uses.         *)
EXTENDS Esp3Stream, Bitwise

CONSTANT MaxBody

(* What esp3_crc8 makes of each value of crc ^ data: polynomial 0x07, from *)
(* the highest bit on.                                                     *)
Crc8Table ==
  [x \in Byte |->
    LET shifted[i \in 0 .. 8] ==
          IF i = 0 THEN x
          ELSE LET c == shifted[i - 1]
               IN  IF c >= 128 THEN ((2 * c) % 256) ^^ 7 ELSE 2 * c
    IN  shifted[8]]

(* esp3_crc8_buf. *)
Crc8Buf(bytes) ==
  LET upto[i \in 0 .. Len(bytes)] ==
        IF i = 0 THEN 0 ELSE Crc8Table[upto[i - 1] ^^ bytes[i]]
  IN  upto[Len(bytes)]

(* All frames with a body of sync and other bytes, data or optional, up to *)
(* the size of the buffer.                                                 *)
Bodies == UNION {[1 .. n -> {1, Sync}] : n \in 0 .. MaxBody}
FrameOf(opt, type, body) ==
  LET head == <<0, Len(body) - opt, opt, type>>
  IN  <<Sync>> \o head \o <<Crc8Buf(head)>> \o body \o <<Crc8Buf(body)>>
MCFrames == {FrameOf(0, type, body) : type \in {1, Sync}, body \in Bodies}
            \cup {FrameOf(Len(body), 1, body) : body \in Bodies}

=============================================================================
