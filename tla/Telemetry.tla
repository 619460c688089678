------------------------------ MODULE Telemetry ------------------------------
(***************************************************************************)
(* The telegram ring (src/main/telemetry.c), its streamed dump behind      *)
(* GET /api/telegrams (src/main/http_portal.c) and the browser that polls  *)
(* it with a cursor (src/web/src/main.ts).                                 *)
(*                                                                         *)
(* The UART reader and the senders put telegrams into the ring at any      *)
(* time.  The one httpd task takes the ring's head once, then copies slot  *)
(* after slot, each under the mutex but with the mutex free in between:    *)
(* sending may block.  The browser starts a poll every second whether or   *)
(* not the last one has come back.                                         *)
(*                                                                         *)
(* Abstracted: a telegram is its seq; frames that ring_put refuses change  *)
(* nothing.  Every entry fits its JSON buffer.                             *)
(***************************************************************************)
EXTENDS Integers, Sequences

CONSTANTS
  RingSize,    \* EUL_TEL_RING
  Polls,       \* polls a browser can have under way at a time
  None,        \* httpd serves no poll
  MaxSeq,      \* bound of the model: telegrams per boot
  MaxReboots   \* bound of the model: reboots

ASSUME RingSizeAssumption == RingSize \in Nat \ {0}
ASSUME NoneAssumption     == None \notin Polls
ASSUME BoundsAssumption   == MaxSeq \in Nat /\ MaxReboots \in Nat

VARIABLES
  ring,      \* s_ring: the seq in a slot, 0 if it is empty
  head,      \* s_head
  next_seq,  \* s_next_seq
  httpd,     \* the poll whose dump the httpd task runs, or None
  dump,      \* its locals head, i and since, and what it has emitted
  puts,      \* history: telegrams put since that dump took the head
  poll,      \* state of a poll, its argument and its answer
  telSeq,    \* the browser's cursor
  shown,     \* history: telegrams of this boot that the page has shown
  burst,     \* history: since then two telegrams came during one dump
  stale,     \* history: the cursor is from before the last reboot
  reboots

ringVars    == <<ring, head, next_seq>>
httpdVars   == <<httpd, dump, puts>>
browserVars == <<telSeq, shown, stale>>
telemetryVars == <<ringVars, httpdVars, burst, poll, browserVars, reboots>>

Places == 0 .. RingSize - 1
Emits(l) == {l[k] : k \in DOMAIN l}
NoDump == [head |-> 0, i |-> 0, since |-> 0, out |-> <<>>]
IdlePoll == [st |-> "idle", since |-> 0, out |-> <<>>]

RingInit ==
  /\ ring = [p \in Places |-> 0] /\ head = 0 /\ next_seq = 1
  /\ httpd = None /\ dump = NoDump /\ puts = 0
  /\ poll = [q \in Polls |-> IdlePoll]
  /\ telSeq = 0 /\ shown = {} /\ burst = FALSE /\ stale = FALSE
  /\ reboots = 0

(* ring_put. *)
Put ==
  /\ next_seq <= MaxSeq
  /\ ring' = [ring EXCEPT ![head] = next_seq]
  /\ next_seq' = next_seq + 1
  /\ head' = (head + 1) % RingSize
  /\ puts' = IF httpd # None THEN puts + 1 ELSE puts
  /\ burst' = (burst \/ puts' > 1)
  /\ UNCHANGED <<httpd, dump, poll, browserVars, reboots>>

-----------------------------------------------------------------------------
(* h_telegrams and telemetry_dump_json_stream.                             *)

DumpStart(q) ==
  /\ httpd = None /\ poll[q].st = "asked"
  /\ httpd' = q
  /\ dump' = [head |-> head, i |-> 0, since |-> poll[q].since, out |-> <<>>]
  /\ puts' = 0
  /\ poll' = [poll EXCEPT ![q].st = "served"]
  /\ UNCHANGED <<ringVars, burst, browserVars, reboots>>

(* Faults, in the definition below: the head of now instead of then; an    *)
(* empty slot ends the loop; the loop runs once too often.                 *)
DumpReadLiveHead ==
  /\ httpd # None /\ dump.i < RingSize
  /\ LET e == ring[(head + dump.i) % RingSize] IN
     dump' = [dump EXCEPT !.i = @ + 1,
                          !.out = IF e # 0 /\ e > dump.since THEN Append(@, e) ELSE @]
  /\ UNCHANGED <<ringVars, httpd, puts, burst, poll, browserVars, reboots>>
DumpReadBreaks ==
  /\ httpd # None /\ dump.i < RingSize
  /\ LET e == ring[(dump.head + dump.i) % RingSize] IN
     dump' = [dump EXCEPT !.i = IF e = 0 THEN RingSize ELSE @ + 1,
                          !.out = IF e > dump.since THEN Append(@, e) ELSE @]
  /\ UNCHANGED <<ringVars, httpd, puts, burst, poll, browserVars, reboots>>
DumpReadOneMore ==
  /\ httpd # None /\ dump.i <= RingSize
  /\ LET e == ring[(dump.head + dump.i) % RingSize] IN
     dump' = [dump EXCEPT !.i = @ + 1,
                          !.out = IF e # 0 /\ e > dump.since THEN Append(@, e) ELSE @]
  /\ UNCHANGED <<ringVars, httpd, puts, burst, poll, browserVars, reboots>>

(* One slot, in the order that was oldest first when the head was taken. *)
DumpRead ==
  /\ httpd # None /\ dump.i < RingSize
  /\ LET e == ring[(dump.head + dump.i) % RingSize] IN
     dump' = [dump EXCEPT !.i = @ + 1,
                          !.out = IF e # 0 /\ e > dump.since THEN Append(@, e) ELSE @]
  /\ UNCHANGED <<ringVars, httpd, puts, burst, poll, browserVars, reboots>>

Answer(q) == IF poll[q].st = "served"
             THEN [poll EXCEPT ![q].st = "answered", ![q].out = dump.out]
             ELSE poll

DumpEnd ==
  /\ httpd # None /\ dump.i = RingSize
  /\ poll' = Answer(httpd)
  /\ httpd' = None /\ dump' = NoDump /\ puts' = 0
  /\ UNCHANGED <<ringVars, burst, browserVars, reboots>>

(* A chunk cannot be sent: the array stays open and the fetch is rejected. *)
DumpBreaks ==
  /\ httpd # None
  /\ poll' = [poll EXCEPT ![httpd] = IF @.st = "served" THEN IdlePoll ELSE @]
  /\ httpd' = None /\ dump' = NoDump /\ puts' = 0
  /\ UNCHANGED <<ringVars, burst, browserVars, reboots>>

-----------------------------------------------------------------------------
(* pollTelegrams in the browser.                                           *)

PollSend(q) ==
  /\ poll[q].st = "idle"
  /\ poll' = [poll EXCEPT ![q] = [st |-> "asked", since |-> telSeq, out |-> <<>>]]
  /\ UNCHANGED <<ringVars, httpdVars, burst, browserVars, reboots>>

(* The last entry becomes the cursor.  Answers of two polls may overtake    *)
(* one another.                                                            *)
PollAnswered(q) ==
  LET list == poll[q].out IN
  /\ poll[q].st = "answered"
  /\ poll' = [poll EXCEPT ![q] = IdlePoll]
  /\ IF list = <<>>
     THEN UNCHANGED browserVars
     ELSE /\ telSeq' = list[Len(list)]
          /\ shown' = shown \cup Emits(list)
          /\ UNCHANGED stale
  /\ UNCHANGED <<ringVars, httpdVars, burst, reboots>>

(* The connection fails under a poll that no dump serves just now. *)
PollLost(q) ==
  /\ poll[q].st \in {"asked", "answered"}
  /\ poll' = [poll EXCEPT ![q] = IdlePoll]
  /\ UNCHANGED <<ringVars, httpdVars, burst, browserVars, reboots>>

(* The page is loaded afresh; a dump under way goes on for nobody. *)
PageLoad ==
  /\ poll' = [q \in Polls |-> IdlePoll]
  /\ telSeq' = 0 /\ shown' = {} /\ stale' = FALSE
  /\ burst' = (puts > 1)
  /\ UNCHANGED <<ringVars, httpdVars, reboots>>

(* The gateway restarts with an empty ring that counts from 1 again.  The  *)
(* page stays open, keeps its cursor and gets the answers already with it. *)
Reboot ==
  /\ reboots < MaxReboots
  /\ reboots' = reboots + 1
  /\ ring' = [p \in Places |-> 0] /\ head' = 0 /\ next_seq' = 1
  /\ httpd' = None /\ dump' = NoDump /\ puts' = 0
  /\ poll' = [q \in Polls |-> IF poll[q].st = "answered" THEN poll[q] ELSE IdlePoll]
  /\ shown' = {} /\ burst' = FALSE
  /\ stale' = (telSeq # 0 \/ \E q \in Polls : poll[q].st = "answered")
  /\ UNCHANGED telSeq

RingNext ==
  \/ Put \/ DumpRead \/ DumpEnd \/ DumpBreaks \/ PageLoad \/ Reboot
  \/ \E q \in Polls : DumpStart(q) \/ PollSend(q) \/ PollAnswered(q) \/ PollLost(q)

RingSpec == RingInit /\ [][RingNext]_telemetryVars
-----------------------------------------------------------------------------
Seqs == 0 .. MaxSeq

RingTypeOK ==
  /\ ring \in [Places -> Seqs] /\ head \in Places /\ next_seq \in 1 .. MaxSeq + 1
  /\ httpd \in Polls \cup {None}
  /\ dump.head \in Places /\ dump.i \in 0 .. RingSize /\ dump.since \in Seqs
  /\ Len(dump.out) <= RingSize /\ Emits(dump.out) \subseteq 1 .. MaxSeq
  /\ puts \in 0 .. MaxSeq /\ burst \in BOOLEAN
  /\ \A q \in Polls : /\ poll[q].st \in {"idle", "asked", "served", "answered"}
                      /\ poll[q].since \in Seqs
                      /\ Emits(poll[q].out) \subseteq 1 .. MaxSeq
  /\ telSeq \in Seqs /\ shown \subseteq 1 .. MaxSeq
  /\ stale \in BOOLEAN /\ reboots \in 0 .. MaxReboots

(* A dump emits every telegram that it was asked for, that the ring held   *)
(* when it started and still holds when it ends, however many were put     *)
(* meanwhile (telemetry.c:245-269).                                        *)
DumpComplete ==
  httpd # None /\ dump.i = RingSize =>
    \A p \in Places : ring[p] > dump.since /\ ring[p] < next_seq - puts
                        => ring[p] \in Emits(dump.out)

(* No telegram twice within one answer, also when puts overtake the reader *)
(* (telemetry.c:254-269).                                                  *)
DumpOnce == \A j, k \in DOMAIN dump.out : dump.out[j] = dump.out[k] => j = k

(* Types, and no telegram twice in an answer.                              *)
RingSafety == RingTypeOK /\ DumpOnce

(* The cursor never passes a telegram that is still in the ring and was    *)
(* never shown, over overlapping and lost polls and answers in any order   *)
(* (telemetry.c:245-247, main.ts:1042-1044), unless two telegrams came     *)
(* while one dump ran.  A page that outlives a reboot is excepted.         *)
NothingSkipped ==
  \A p \in Places : ring[p] # 0 /\ ring[p] <= telSeq => ring[p] \in shown
QuietNothingLost == ~stale /\ ~burst => NothingSkipped

=============================================================================
