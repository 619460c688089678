------------------------------ MODULE RateLimit ------------------------------
(***************************************************************************)
(* The rate limiter of the TCP handshake (src/main/tcp_server.c): a table  *)
(* of RL_SLOTS entries, keyed by the client's IP, in which the accept task *)
(* looks a connection up and the RX tasks record how its handshake ended,  *)
(* some time later and in any order.  s_rl_mtx makes each call atomic.     *)
(*                                                                         *)
(* Time runs in ticks; Window is the 60 s of the code.                     *)
(***************************************************************************)
EXTENDS Integers, FiniteSets

CONSTANTS
  Ips,         \* peer addresses
  NoIp,        \* ip_be = 0, a free entry
  RlSlots,     \* RL_SLOTS
  MaxFails,    \* CONFIG_EUL_AUTH_MAX_FAILS_PER_MIN
  Window,      \* the 60 s window, and the 60 s block
  Handshakes,  \* handshakes in progress at a time, one per client slot
  MaxTime      \* bound of the model: the last tick

ASSUME RlSlotsAssumption    == RlSlots \in Nat \ {0}
ASSUME MaxFailsAssumption   == MaxFails \in Nat \ {0}
ASSUME WindowAssumption     == Window \in Nat \ {0}
ASSUME HandshakesAssumption == IsFiniteSet(Handshakes)
ASSUME NoIpAssumption       == NoIp \notin Ips
ASSUME MaxTimeAssumption    == MaxTime \in Nat

VARIABLES
  rl,       \* s_rl
  now,      \* esp_timer_get_time()
  ip_be,    \* address whose handshake runs in a slot, or NoIp
  fails     \* history: the failures recorded within the last window, since the
            \* last success and since the entry was last lost to another
            \* address, per address: the tick, and a number that tells those
            \* of one tick apart

limiterVars == <<rl, now, ip_be, fails>>

Entries == 0 .. RlSlots - 1
Entry == [ip : Ips \cup {NoIp}, start : Nat, count : Nat, until : Nat]
FreeEntry == [ip |-> NoIp, start |-> 0, count |-> 0, until |-> 0]

LimiterInit ==
  /\ rl = [i \in Entries |-> FreeEntry]
  /\ now = 0
  /\ ip_be = [s \in Handshakes |-> NoIp]
  /\ fails = [ip \in Ips |-> {}]

-----------------------------------------------------------------------------
Known(ip)    == {i \in Entries : rl[i].ip = ip}
First(S)     == CHOOSE i \in S : \A j \in S : i <= j

(* Fault, in the definition below: the comparison turned round.            *)
NewestEntry  == First({i \in Entries : \A j \in Entries : rl[i].start >= rl[j].start})

OldestEntry  == First({i \in Entries : \A j \in Entries : rl[i].start <= rl[j].start})

(* rl_find_or_alloc: the entry of ip, else the first free one, else the    *)
(* one whose window started first, whatever it was blocking.               *)
IndexFor(ip) == IF Known(ip) # {} THEN First(Known(ip))
                ELSE IF Known(NoIp) # {} THEN First(Known(NoIp))
                ELSE OldestEntry

EntryFor(ip) == IF Known(ip) # {} THEN rl[IndexFor(ip)]
                ELSE [ip |-> ip, start |-> now, count |-> 0, until |-> 0]

Blocks(e) == e.until > now

(* What the history keeps when an address takes that entry: the failures   *)
(* of an address that loses its entry are forgotten with it.               *)
Remaining(ip) ==
  [a \in Ips |-> IF a # ip /\ a = rl[IndexFor(ip)].ip THEN {} ELSE fails[a]]

(* accept_task asks rl_is_blocked before it hands a connection to a slot; *)
(* a new address gets its entry here already, before it has failed.  A     *)
(* connection that is not blocked can still be refused.                    *)
Connect(ip) ==
  /\ rl' = [rl EXCEPT ![IndexFor(ip)] = EntryFor(ip)]
  /\ \/ UNCHANGED ip_be
     \/ /\ ~Blocks(EntryFor(ip))
        /\ \E s \in Handshakes : ip_be[s] = NoIp /\ ip_be' = [ip_be EXCEPT ![s] = ip]
  /\ fails' = Remaining(ip)
  /\ UNCHANGED now

(* Faults, in the definition below: one failure too many; a new window     *)
(* lifts the block.                                                        *)
FailedEntryLate(e) ==
  LET fresh == now - e.start > Window
      count == IF fresh THEN 1 ELSE e.count + 1
  IN  [e EXCEPT !.start = IF fresh THEN now ELSE @,
                !.count = count,
                !.until = IF count > MaxFails THEN now + Window ELSE @]
FailedEntryUnblocks(e) ==
  LET fresh == now - e.start > Window
      count == IF fresh THEN 1 ELSE e.count + 1
  IN  [e EXCEPT !.start = IF fresh THEN now ELSE @,
                !.count = count,
                !.until = IF count >= MaxFails THEN now + Window ELSE 0]

(* rl_record_fail, when the handshake of an admitted client fails. *)
FailedEntry(e) ==
  LET fresh == now - e.start > Window
      count == IF fresh THEN 1 ELSE e.count + 1
  IN  [e EXCEPT !.start = IF fresh THEN now ELSE @,
                !.count = count,
                !.until = IF count >= MaxFails THEN now + Window ELSE @]

(* What the history makes of a failure. *)
Failure(n) == [at |-> now, no |-> n]
Unused(F)  == CHOOSE n \in 0 .. Cardinality(F) : Failure(n) \notin F

RecordFail(s) ==
  LET ip == ip_be[s] IN
  /\ ip # NoIp
  /\ ip_be' = [ip_be EXCEPT ![s] = NoIp]
  /\ rl' = [rl EXCEPT ![IndexFor(ip)] = FailedEntry(EntryFor(ip))]
  /\ fails' = [Remaining(ip) EXCEPT ![ip] = @ \cup {Failure(Unused(@))}]
  /\ UNCHANGED now

(* rl_record_success: the count and the block go, the window stays. *)
RecordSuccess(s) ==
  LET ip == ip_be[s] IN
  /\ ip # NoIp
  /\ ip_be' = [ip_be EXCEPT ![s] = NoIp]
  /\ rl' = [rl EXCEPT ![IndexFor(ip)] = [EntryFor(ip) EXCEPT !.count = 0, !.until = 0]]
  /\ fails' = [Remaining(ip) EXCEPT ![ip] = {}]
  /\ UNCHANGED now

(* Time passes; failures older than a window are forgotten by the history. *)
Tick ==
  /\ now < MaxTime
  /\ now' = now + 1
  /\ fails' = [ip \in Ips |-> {f \in fails[ip] : f.at > now' - Window}]
  /\ UNCHANGED <<rl, ip_be>>

LimiterNext ==
  \/ Tick
  \/ \E ip \in Ips : Connect(ip)
  \/ \E s \in Handshakes : RecordFail(s) \/ RecordSuccess(s)

LimiterSpec == LimiterInit /\ [][LimiterNext]_limiterVars
-----------------------------------------------------------------------------
LimiterTypeOK ==
  /\ rl \in [Entries -> Entry]
  /\ now \in 0 .. MaxTime
  /\ ip_be \in [Handshakes -> Ips \cup {NoIp}]
  /\ fails \in [Ips -> SUBSET [at : 0 .. now, no : Nat]]

Guessing(ip)  == Cardinality({s \in Handshakes : ip_be[s] = ip})
IsBlocked(ip) == \E i \in Known(ip) : Blocks(rl[i])

(* The limit that really holds per window and address, over every          *)
(* interleaving of connects with the outcomes of earlier handshakes: two   *)
(* adjacent counting windows overlap a window, so 2 * MaxFails - 2         *)
(* failures can go by before a block, and the handshakes admitted by then  *)
(* still come in (tcp_server.c:94-122, 387-395).  It is a limit for as     *)
(* long as the address keeps its entry: one that loses it to another       *)
(* address (:87) starts again from nothing.                                *)
GuessesBounded ==
  \A ip \in Ips : Cardinality(fails[ip]) + Guessing(ip) <= 2 * MaxFails - 2 + Cardinality(Handshakes)

(* Types and the bound: the invariant of the run.                          *)
LimiterSafety == LimiterTypeOK /\ GuessesBounded

(* The entry of an address goes to another one: every entry is in use, no  *)
(* window started before this one, and the newcomer had no entry.          *)
GivesWay(ip) ==
  \E i \in Known(ip), other \in Ips :
    /\ Known(other) = {} /\ rl'[i].ip = other
    /\ \A j \in Entries : rl[j].ip # NoIp /\ rl[i].start <= rl[j].start

(* A block ends by time, by a success of the same address, or because      *)
(* RlSlots other addresses, none of whose windows started earlier, are     *)
(* there at a time: the last of them takes the entry and the block with it *)
(* (tcp_server.c:83-87).  Fewer addresses, or more failures of its own, do *)
(* not end it (:62-65, 105-131).                                           *)
BlockStep ==
  \A ip \in Ips : IsBlocked(ip) /\ now' = now =>
    IsBlocked(ip)' \/ (Known(ip)' # {} /\ fails'[ip] = {}) \/ GivesWay(ip)

BlockKept == [][BlockStep]_limiterVars

=============================================================================
