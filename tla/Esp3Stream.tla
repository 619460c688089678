----------------------------- MODULE Esp3Stream -----------------------------
(***************************************************************************)
(* A byte stream into the gateway - a TCP client, the USB host - and the   *)
(* parser at its end (client_rx_task in src/main/tcp_server.c, usb_rx_task *)
(* in src/main/usb_cdc_gateway.c).                                         *)
(*                                                                         *)
(* The sender (external) sends frames; bytes get lost, and bytes that      *)
(* belong to no frame come in between.  A connection may end in the middle *)
(* of a frame; the next client of the slot then starts a stream of its own.*)
(***************************************************************************)
EXTENDS Esp3Parser

CONSTANTS
  Frames,        \* the frames that senders send
  Noise,         \* bytes that belong to no frame
  MaxDisturbed,  \* bound of the model: bytes lost or added
  MaxConnects    \* bound of the model: connections after the first

ASSUME FramesAssumption ==
  \A f \in Frames : f \in Seq(Byte) /\ WellFormed(f) /\ Len(f) <= MaxFrame
ASSUME NoiseAssumption  == Noise \subseteq Byte
ASSUME BoundsAssumption == MaxDisturbed \in Nat /\ MaxConnects \in Nat

VARIABLES
  current,    \* the frame being sent, or sent last
  rest,       \* what is still to be sent of it
  inStep,     \* history: its first byte met the parser between two frames,
              \* and none of its bytes was lost or added to
  received,   \* history: bytes of this connection, counted up to MaxFrame
  disturbed, connects

sender == <<current, rest, inStep, received, disturbed, connects>>
vars   == <<parser, sender>>

Init ==
  /\ ParserInit
  /\ current = <<>> /\ rest = <<>> /\ inStep = FALSE /\ received = 0
  /\ disturbed = 0 /\ connects = 0

(* The loops of the RX tasks: recv, then esp3_parser_feed byte by byte. *)
Receive(b) == Feed(b) /\ received' = IF received < MaxFrame THEN received + 1 ELSE received

SendFrame(f) ==
  /\ rest = <<>>
  /\ current' = f /\ rest' = Tail(f) /\ inStep' = (state = "SYNC")
  /\ Receive(Head(f))
  /\ UNCHANGED <<disturbed, connects>>

SendByte ==
  /\ rest # <<>> /\ rest' = Tail(rest)
  /\ Receive(Head(rest))
  /\ UNCHANGED <<current, inStep, disturbed, connects>>

Disturb == disturbed < MaxDisturbed /\ disturbed' = disturbed + 1 /\ inStep' = FALSE

ByteLost ==
  /\ Disturb
  /\ rest # <<>> /\ rest' = Tail(rest)
  /\ UNCHANGED <<parser, current, received, connects>>

ByteAdded(b) ==
  /\ Disturb
  /\ Receive(b)
  /\ UNCHANGED <<current, rest, connects>>

(* spawn_client starts the parser of its slot anew. *)
Reconnect ==
  /\ connects < MaxConnects /\ connects' = connects + 1
  /\ Reset /\ out' = <<>>
  /\ rest' = <<>> /\ inStep' = FALSE /\ received' = 0
  /\ UNCHANGED <<current, disturbed>>

Next == \/ \E f \in Frames : SendFrame(f)
        \/ SendByte \/ ByteLost
        \/ \E b \in Noise : ByteAdded(b)
        \/ Reconnect

Spec == Init /\ [][Next]_vars

-----------------------------------------------------------------------------
(* Types of all variables.                                                 *)
TypeOK ==
  /\ ParserTypeOK
  /\ current \in Frames \cup {<<>>} /\ rest \in Seq(Byte)
  /\ inStep \in BOOLEAN /\ received \in 0 .. MaxFrame
  /\ disturbed \in 0 .. MaxDisturbed /\ connects \in 0 .. MaxConnects

(* No byte that one client sent ends up in a frame of the next client of   *)
(* its slot (tcp_server.c:323).                                            *)
OwnBytes == Len(frame) <= received /\ Len(out) <= received

(* Types, room for the next byte, and only the client's own bytes.         *)
Safety == TypeOK /\ InBounds /\ OwnBytes

(* A frame that begins while the parser looks for one is delivered, as it  *)
(* is, with its last byte: also an empty one, and one full of sync bytes.  *)
InStepDelivered == inStep /\ rest = <<>> => out = current

=============================================================================
