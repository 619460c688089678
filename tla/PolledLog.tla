------------------------------ MODULE PolledLog ------------------------------
(***************************************************************************)
(* The two text logs of the portal and the browser that polls them: the    *)
(* web console (src/main/console_log.c) and the event log                  *)
(* (src/main/event_log.c).  Both are rings of numbered lines, dumped in    *)
(* one go under their mutex into a response buffer of fixed size; what     *)
(* does not fit is left for the next poll.  The two differ in the shape of *)
(* a line; a behaviour is about one of them.                               *)
(*                                                                         *)
(* Abstracted: a line is its number and the length of its text, made of    *)
(* characters that JSON does not escape; numbers print with a fixed width, *)
(* so the part before the text has the fixed length HeaderLen.             *)
(***************************************************************************)
EXTENDS Integers, Sequences

CONSTANTS
  RingSize,    \* EUL_CONSOLE_RING_SIZE, EVT_RING
  Lens,        \* lengths of texts
  StartLen,    \* length of what opens the response
  HeaderLen,   \* length of a line's JSON up to its text (events: up to its tag)
  TagLen,      \* length of an event's tag
  Limit,       \* buf_size - reserve
  Polls,       \* polls a browser can have under way at a time
  MaxSeq,      \* bound of the model: lines per boot
  MaxResets    \* bound of the model: reboots and page loads

ASSUME RingSizeAssumption == RingSize \in Nat \ {0}
ASSUME LensAssumption     == Lens \subseteq Nat /\ TagLen \in Nat
ASSUME RoomAssumption     == /\ StartLen \in Nat /\ HeaderLen \in Nat \ {0} /\ Limit \in Nat
                             /\ StartLen + HeaderLen + TagLen + 20 < Limit
ASSUME BoundsAssumption   == MaxSeq \in Nat /\ MaxResets \in Nat

VARIABLES
  log,       \* which of the two logs: "console" or "events"
  ring,      \* s_ring: number (0: empty) and text length
  head,      \* s_head
  next_seq,  \* s_next_seq
  poll,      \* state of a poll, its argument, its answer
  cursor,    \* conSeq or evtSeq of the page
  shown,     \* history: lines of this boot that the page took
  stale,     \* history: the cursor is from before the last reboot
  resets

ringVars == <<log, ring, head, next_seq>>
pageVars == <<cursor, shown, stale>>
vars == <<ringVars, poll, pageVars, resets>>

Places == 0 .. RingSize - 1
Empty == [seq |-> 0, len |-> 0]
IdlePoll == [st |-> "idle", since |-> 0, size |-> 0, lines |-> <<>>]

Init ==
  /\ log \in {"console", "events"}
  /\ ring = [p \in Places |-> Empty] /\ head = 0 /\ next_seq = 1
  /\ poll = [q \in Polls |-> IdlePoll]
  /\ cursor = 0 /\ shown = {} /\ stale = FALSE
  /\ resets = 0

-----------------------------------------------------------------------------

Put ==
  /\ next_seq <= MaxSeq
  /\ \E len \in Lens : ring' = [ring EXCEPT ![head] = [seq |-> next_seq, len |-> len]]
  /\ next_seq' = next_seq + 1
  /\ head' = (head + 1) % RingSize
  /\ UNCHANGED <<log, poll, pageVars, resets>>

PushLine == log = "console" /\ Put
AddEvent == log = "events" /\ Put

-----------------------------------------------------------------------------
(* append_json_str copies while more than six bytes are left, and says     *)
(* nothing about what it leaves out.                                       *)
Copied(p, len) == LET room == Limit - p - 6
                  IN  IF room <= 0 THEN 0 ELSE IF len < room THEN len ELSE room

(* The response so far, r, with line e added, or closed for good.  After   *)
(* the first line a comma is written.                                      *)
Comma(r)  == IF r.lines = <<>> THEN r.size ELSE r.size + 1
Full(r)   == [r EXCEPT !.full = TRUE]
Extended(r, size, e, copied) ==
  [size |-> size, full |-> FALSE,
   lines |-> Append(r.lines, [seq |-> e.seq, whole |-> copied = e.len])]

(* Fault: the room is not looked at. *)
ConsoleLineUnchecked(r, e) ==
  LET text == Comma(r) + HeaderLen
  IN  Extended(r, text + e.len + 2, e, e.len)

ConsoleLine(r, e) ==
  LET text == Comma(r) + HeaderLen
      n    == Copied(text, e.len)
  IN  IF Comma(r) >= Limit \/ text >= Limit \/ text + n + 2 >= Limit
      THEN Full(r) ELSE Extended(r, text + n + 2, e, n)

EventLine(r, e) ==
  LET tag  == Comma(r) + HeaderLen
      text == tag + Copied(tag, TagLen) + 9
      n    == Copied(text, e.len)
  IN  IF Comma(r) >= Limit \/ tag >= Limit \/ text + 1 >= Limit \/ text + n + 3 >= Limit
      THEN Full(r) ELSE Extended(r, text + n + 2, e, n)

Line(r, e) == IF log = "console" THEN ConsoleLine(r, e) ELSE EventLine(r, e)

(* Fault, in Visited: an empty slot ends the loop. *)
VisitedBreaks(r, since, e) ==
  IF r.full \/ e.seq = 0 THEN Full(r) ELSE IF e.seq <= since THEN r ELSE Line(r, e)

(* What the oldest line but i adds to the response so far: nothing if the  *)
(* response is closed, the place is empty or the page has the line.        *)
Opened == [size |-> StartLen, full |-> FALSE, lines |-> <<>>]
At(i)  == ring[(head + i) % RingSize]
Visited(r, since, e) == IF r.full \/ e.seq = 0 \/ e.seq <= since THEN r ELSE Line(r, e)

(* console_log_dump_since and event_log_dump_since: oldest line first,     *)
(* until one does not fit.                                                 *)
Dump(since) ==
  LET upto[i \in 0 .. RingSize] ==
        IF i = 0 THEN Opened ELSE Visited(upto[i - 1], since, At(i - 1))
  IN  upto[RingSize]

(* h_console and h_events, in the one httpd task. *)
Serve(q) ==
  /\ poll[q].st = "asked"
  /\ LET r == Dump(poll[q].since) IN
     poll' = [poll EXCEPT ![q].st = "answered", ![q].size = r.size, ![q].lines = r.lines]
  /\ UNCHANGED <<ringVars, pageVars, resets>>

-----------------------------------------------------------------------------
(* pollConsole and pollEvents.                                             *)

PollSend(q) ==
  /\ poll[q].st = "idle"
  /\ poll' = [poll EXCEPT ![q] = [IdlePoll EXCEPT !.st = "asked", !.since = cursor]]
  /\ UNCHANGED <<ringVars, pageVars, resets>>

(* Fault: the newest line, also when the response ended before it. *)
LastSeqNewest(q) == next_seq - 1

LastSeq(q) == LET l == poll[q].lines
              IN  IF l = <<>> THEN poll[q].since ELSE l[Len(l)].seq
Lines(q)   == {poll[q].lines[k] : k \in DOMAIN poll[q].lines}

(* A paused console takes the lines too, only it does not print them.      *)
PollAnswered(q) ==
  /\ poll[q].st = "answered"
  /\ poll' = [poll EXCEPT ![q] = IdlePoll]
  /\ cursor' = LastSeq(q)
  /\ shown' = shown \cup {l.seq : l \in Lines(q)}
  /\ UNCHANGED <<ringVars, stale, resets>>

PollLost(q) ==
  /\ poll[q].st # "idle"
  /\ poll' = [poll EXCEPT ![q] = IdlePoll]
  /\ UNCHANGED <<ringVars, pageVars, resets>>

Reset == /\ resets < MaxResets
         /\ resets' = resets + 1
         /\ shown' = {}

PageLoad ==
  /\ Reset
  /\ poll' = [q \in Polls |-> IdlePoll]
  /\ cursor' = 0 /\ stale' = FALSE
  /\ UNCHANGED ringVars

(* The gateway restarts; an open page keeps its cursor and still gets the  *)
(* answers that are already with it.                                       *)
Reboot ==
  /\ Reset
  /\ poll' = [q \in Polls |-> IF poll[q].st = "answered" THEN poll[q] ELSE IdlePoll]
  /\ ring' = [p \in Places |-> Empty] /\ head' = 0 /\ next_seq' = 1
  /\ stale' = (cursor # 0 \/ \E q \in Polls : poll[q].st = "answered")
  /\ UNCHANGED <<log, cursor>>

Next == \/ PushLine \/ AddEvent \/ PageLoad \/ Reboot
        \/ \E q \in Polls : PollSend(q) \/ Serve(q) \/ PollAnswered(q) \/ PollLost(q)

Spec == Init /\ [][Next]_vars

-----------------------------------------------------------------------------
Seqs == 0 .. MaxSeq

TypeOK ==
  /\ log \in {"console", "events"}
  /\ ring \in [Places -> [seq : Seqs, len : Lens \cup {0}]]
  /\ head \in Places /\ next_seq \in 1 .. MaxSeq + 1
  /\ \A q \in Polls : /\ poll[q].st \in {"idle", "asked", "answered"}
                      /\ poll[q].since \in Seqs /\ poll[q].size \in 0 .. Limit
                      /\ Len(poll[q].lines) <= RingSize
  /\ cursor \in Seqs
  /\ shown \subseteq 1 .. MaxSeq
  /\ stale \in BOOLEAN /\ resets \in 0 .. MaxResets

(* The cursor never passes a line that is in the ring and was not handed   *)
(* to the page, though responses are cut off at any line and polls overlap,*)
(* overtake one another or get lost (console_log.c:128-133, 164-167).      *)
NothingSkipped ==
  ~stale => \A p \in Places : ring[p].seq # 0 /\ ring[p].seq <= cursor => ring[p].seq \in shown

(* A response is a run of consecutive lines, oldest first, with its closing *)
(* part inside the 40 bytes kept for it (console_log.c:134-160), and only   *)
(* the text of its last line may be shortened.                              *)
ResponseSound ==
  \A q \in Polls : poll[q].st = "answered" =>
    /\ poll[q].size < Limit
    /\ \A k \in DOMAIN poll[q].lines :
          /\ poll[q].lines[k].seq = poll[q].lines[1].seq + k - 1
          /\ poll[q].lines[k].whole \/ k = Len(poll[q].lines)

(* Types, and sound responses.                                             *)
Safety == TypeOK /\ ResponseSound

(* A poll that finds newer lines gets at least one, the oldest of them.    *)
GetsOldest(q) ==
  /\ poll[q].st = "asked" /\ poll'[q].st = "answered"
  /\ \E p \in Places : ring[p].seq > poll[q].since
  => /\ poll'[q].lines # <<>>
     /\ \A p \in Places : ring[p].seq > poll[q].since => poll'[q].lines[1].seq <= ring[p].seq

(* The ring cannot block a cursor, however long its lines are: whatever a  *)
(* response has to leave out, the next poll goes on (console_log.c:128-133)*)
CursorNotBlocked == [][\A q \in Polls : GetsOldest(q)]_vars

=============================================================================
