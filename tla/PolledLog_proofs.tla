--------------------------- MODULE PolledLog_proofs ---------------------------
(***************************************************************************)
(* Proofs about the two text logs, for any size of the ring and of the     *)
(* response, any lengths of lines, and any number of polls, lines and      *)
(* reboots.                                                                *)
(*                                                                         *)
(* Two invariants meet: the ring holds the last numbers in order           *)
(* (InOrder), so that a dump that goes through it yields consecutive lines *)
(* from the first one that is new to the page, up to where it was closed   *)
(* (Sound); and of the lines up to any number that is or may become the    *)
(* cursor, the page has all that the ring still holds (Covered).           *)
(***************************************************************************)
EXTENDS PolledLog, SequenceTheorems, WellFoundedInduction, TLAPS

Entry    == [seq : Nat, len : Nat]
LineSet  == [seq : 1 .. MaxSeq, whole : BOOLEAN]
Response == [size : Nat, full : BOOLEAN, lines : Seq(LineSet)]
PollState == [st : {"idle", "asked", "answered"}, since : Seqs, size : Nat, lines : Seq(LineSet)]
Numbers(l) == {l[k].seq : k \in DOMAIN l}

Types ==
  /\ log \in {"console", "events"}
  /\ ring \in [Places -> [seq : Seqs, len : Lens \cup {0}]]
  /\ head \in Places /\ next_seq \in 1 .. MaxSeq + 1
  /\ poll \in [Polls -> PollState]
  /\ \A q \in Polls : poll[q].size <= Limit /\ Len(poll[q].lines) <= RingSize
  /\ cursor \in Seqs
  /\ shown \subseteq 1 .. MaxSeq
  /\ stale \in BOOLEAN /\ resets \in 0 .. MaxResets

(* The number in the oldest place but i.                                   *)
Number(i) == IF next_seq - RingSize + i >= 1 THEN next_seq - RingSize + i ELSE 0
InOrder == \A i \in Places : At(i).seq = Number(i)

(* The lines of a response.                                                *)
Consecutive(l) == /\ \A k \in DOMAIN l : l[k].seq = l[1].seq + k - 1
                  /\ \A k \in DOMAIN l : l[k].whole \/ k = Len(l)

(* The response r of a dump for since that has gone through i places: it   *)
(* begins with the oldest line that is new, and goes on up to the last one *)
(* there or, if it is closed, not further.  A line that was shortened      *)
(* leaves no room for another.                                             *)
Sound(r, since, i) ==
  /\ r \in Response
  /\ Len(r.lines) <= i
  /\ StartLen <= r.size /\ r.size < Limit
  /\ Consecutive(r.lines)
  /\ r.lines = <<>> => /\ r.size = StartLen /\ ~r.full
                       /\ \A j \in 0 .. i - 1 : Number(j) <= since
  /\ r.lines # <<>> => /\ r.lines[1].seq > since
                       /\ ~r.lines[Len(r.lines)].whole => r.size >= Limit - 4
                       /\ r.lines[Len(r.lines)].seq <= Number(i - 1)
                       /\ r.full \/ r.lines[Len(r.lines)].seq = Number(i - 1)
                       /\ \A j \in 0 .. i - 1 : Number(j) > since => r.lines[1].seq <= Number(j)

Answers ==
  \A q \in Polls : poll[q].st = "answered" => poll[q].size < Limit /\ Consecutive(poll[q].lines)

(* Of the lines up to n the page has, or gets with the lines in new, all   *)
(* that are still in the ring.                                             *)
Covered(n, new) ==
  /\ n < next_seq
  /\ \A p \in Places : ring[p].seq # 0 /\ ring[p].seq <= n => ring[p].seq \in shown \cup new

Coverage ==
  ~stale =>
    /\ Covered(cursor, {})
    /\ \A q \in Polls : poll[q].st = "asked" => Covered(poll[q].since, {})
    /\ \A q \in Polls : poll[q].st = "answered" => Covered(LastSeq(q), Numbers(poll[q].lines))

(* The inductive invariant.                                                *)
LogInv == Types /\ InOrder /\ Answers /\ Coverage

USE RingSizeAssumption, LensAssumption, RoomAssumption, BoundsAssumption

-----------------------------------------------------------------------------
(* Places of the ring.                                                     *)

LEMMA Wraps ==
  ASSUME NEW a \in 0 .. 2 * RingSize - 1
  PROVE  a % RingSize = IF a < RingSize THEN a ELSE a - RingSize
  OBVIOUS

LEMMA PlaceIsAt ==
  ASSUME head \in Places, NEW p \in Places
  PROVE  \E i \in Places : p = (head + i) % RingSize
  <1>1. CASE p >= head
    <2>1. p - head \in Places /\ head + (p - head) = p
      BY <1>1 DEF Places
    <2>2. p \in 0 .. 2 * RingSize - 1
      BY DEF Places
    <2>3. p % RingSize = p
      BY <2>2, Wraps DEF Places
    <2> QED BY <2>1, <2>3
  <1>2. CASE p < head
    <2>1. p - head + RingSize \in Places /\ head + (p - head + RingSize) = p + RingSize
      BY <1>2 DEF Places
    <2>2. p + RingSize \in 0 .. 2 * RingSize - 1
      BY DEF Places
    <2>3. (p + RingSize) % RingSize = p
      BY <2>2, Wraps DEF Places
    <2> QED BY <2>1, <2>3
  <1> QED BY <1>1, <1>2 DEF Places

LEMMA AtPlace ==
  ASSUME head \in Places, NEW i \in Places
  PROVE  (head + i) % RingSize \in Places
  <1>1. head + i \in 0 .. 2 * RingSize - 1
    BY DEF Places
  <1> QED BY <1>1, Wraps DEF Places

LEMMA AtTyped ==
  ASSUME Types, NEW i \in Places
  PROVE  At(i) \in Entry /\ At(i).seq \in Seqs
  <1>1. (head + i) % RingSize \in Places
    BY AtPlace DEF Types
  <1>2. ring[(head + i) % RingSize] \in [seq : Seqs, len : Lens \cup {0}]
    BY <1>1 DEF Types
  <1>3. Lens \cup {0} \subseteq Nat /\ Seqs \subseteq Nat
    BY DEF Seqs
  <1> QED BY <1>2, <1>3 DEF At, Entry

(* The next line goes to the place of the oldest.                          *)
LEMMA PutInOrder ==
  ASSUME Types, InOrder, Put
  PROVE  InOrder'
  <1> SUFFICES ASSUME NEW i \in Places PROVE At(i)'.seq = Number(i)'
    BY DEF InOrder, Places
  <1>1. PICK len \in Lens : ring' = [ring EXCEPT ![head] = [seq |-> next_seq, len |-> len]]
    BY DEF Put
  <1>2. next_seq' = next_seq + 1 /\ head' = (head + 1) % RingSize
    BY DEF Put
  <1>3. head \in 0 .. RingSize - 1 /\ i \in 0 .. RingSize - 1 /\ next_seq \in Nat \ {0}
    BY DEF Types, Places
  <1>4. head' = IF head = RingSize - 1 THEN 0 ELSE head + 1
    BY <1>2, <1>3, Wraps
  <1>5. CASE i = RingSize - 1
    <2>1. head' + i = IF head = RingSize - 1 THEN head ELSE head + RingSize
      BY <1>3, <1>4, <1>5
    <2>2. head' + i \in 0 .. 2 * RingSize - 1
      BY <1>3, <2>1
    <2>3. (head' + i) % RingSize = head
      BY <1>3, <2>1, <2>2, Wraps
    <2>4. At(i)' = [seq |-> next_seq, len |-> len]
      BY <1>1, <1>3, <2>3 DEF At, Types, Places
    <2>5. Number(i)' = next_seq
      BY <1>2, <1>3, <1>5 DEF Number
    <2> QED BY <2>4, <2>5
  <1>6. CASE i # RingSize - 1
    <2>1. i + 1 \in Places
      BY <1>3, <1>6 DEF Places
    <2>2. head + (i + 1) \in 0 .. 2 * RingSize - 1 /\ head' + i \in 0 .. 2 * RingSize - 1
      BY <1>3, <1>4, <1>6
    <2>3. (head' + i) % RingSize = (head + (i + 1)) % RingSize
      BY <1>3, <1>4, <1>6, <2>2, Wraps
    <2>4. (head + (i + 1)) % RingSize \in Places /\ (head + (i + 1)) % RingSize # head
      BY <1>3, <1>6, <2>2, Wraps DEF Places
    <2>5. At(i)' = At(i + 1)
      BY <1>1, <2>3, <2>4 DEF At, Types
    <2>6. Number(i)' = Number(i + 1)
      BY <1>2, <1>3 DEF Number
    <2> QED BY <2>1, <2>5, <2>6 DEF InOrder
  <1> QED BY <1>5, <1>6

-----------------------------------------------------------------------------
(* One line of a response.                                                 *)

LEMMA CopiedFacts ==
  ASSUME NEW p \in Nat, NEW len \in Nat
  PROVE  /\ Copied(p, len) \in 0 .. len
         /\ Copied(p, len) = len \/ p + Copied(p, len) >= Limit - 6
         /\ Copied(p, len) = 0 \/ p + Copied(p, len) <= Limit - 6
  BY DEF Copied

(* The response r can take a line.                                         *)
Open(r) ==
  /\ r \in Response /\ ~r.full /\ StartLen <= r.size /\ r.size < Limit
  /\ r.lines = <<>> => r.size = StartLen
  /\ r.lines # <<>> /\ ~r.lines[Len(r.lines)].whole => r.size >= Limit - 4

(* It is closed, or it has the line, shortened only where it ends; the     *)
(* first line is never refused, and none comes after a shortened one.      *)
Lengthened(r, e, t) ==
  \/ t = Full(r) /\ r.lines # <<>>
  \/ \E size \in Nat, whole \in BOOLEAN :
       /\ t = [size |-> size, full |-> FALSE,
               lines |-> Append(r.lines, [seq |-> e.seq, whole |-> whole])]
       /\ r.size <= size /\ size < Limit
       /\ ~whole => size >= Limit - 4
       /\ r.lines # <<>> => r.lines[Len(r.lines)].whole

LEMMA ExtendedLengthens ==
  ASSUME NEW r, NEW e \in Entry, NEW size \in Nat, NEW n \in Nat,
         r.size <= size, size < Limit, n = e.len \/ size >= Limit - 4,
         r.lines # <<>> => r.lines[Len(r.lines)].whole
  PROVE  Lengthened(r, e, Extended(r, size, e, n))
  <1>1. (n = e.len) \in BOOLEAN
    OBVIOUS
  <1>2. Extended(r, size, e, n)
          = [size |-> size, full |-> FALSE,
             lines |-> Append(r.lines, [seq |-> e.seq, whole |-> n = e.len])]
    BY DEF Extended
  <1> QED BY <1>1, <1>2 DEF Lengthened

LEMMA CommaFacts ==
  ASSUME NEW r, Open(r)
  PROVE  /\ Comma(r) \in Nat /\ r.size <= Comma(r)
         /\ r.lines = <<>> => Comma(r) = StartLen
         /\ r.lines # <<>> /\ ~r.lines[Len(r.lines)].whole => Comma(r) >= Limit - 3
  <1>1. r.size \in Nat
    BY DEF Open, Response
  <1> QED BY <1>1 DEF Open, Comma

LEMMA ConsoleLengthens ==
  ASSUME NEW r, Open(r), NEW e \in Entry
  PROVE  Lengthened(r, e, ConsoleLine(r, e))
  <1> DEFINE text == Comma(r) + HeaderLen
  <1> DEFINE n == Copied(text, e.len)
  <1> DEFINE refused == Comma(r) >= Limit \/ text >= Limit \/ text + n + 2 >= Limit
  <1>1. ConsoleLine(r, e) = IF refused THEN Full(r) ELSE Extended(r, text + n + 2, e, n)
    BY DEF ConsoleLine
  <1>2. text \in Nat /\ e.len \in Nat /\ r.size \in Nat /\ r.size <= text
    BY CommaFacts DEF Entry, Open, Response
  <1>3. n \in Nat /\ (n = e.len \/ text + n >= Limit - 6) /\ (n = 0 \/ text + n <= Limit - 6)
    <2> HIDE DEF text
    <2>1. Copied(text, e.len) \in 0 .. e.len
      BY <1>2, CopiedFacts
    <2>2. \/ Copied(text, e.len) = e.len
          \/ text + Copied(text, e.len) >= Limit - 6
      BY <1>2, CopiedFacts
    <2>3. Copied(text, e.len) = 0 \/ text + Copied(text, e.len) <= Limit - 6
      BY <1>2, CopiedFacts
    <2>4. n \in Nat
      BY <1>2, <2>1
    <2> QED BY <2>2, <2>3, <2>4
  <1>4. r.lines = <<>> => text = StartLen + HeaderLen
    BY CommaFacts
  <1>5. r.lines # <<>> /\ ~r.lines[Len(r.lines)].whole => text >= Limit - 2
    BY CommaFacts
  <1>6. Comma(r) \in Nat /\ Comma(r) <= text
    BY CommaFacts
  <1> HIDE DEF text, n
  <1>7. CASE refused
    <2>1. r.lines # <<>>
      BY <1>2, <1>3, <1>4, <1>6, <1>7
    <2> QED BY <1>1, <1>7, <2>1 DEF Lengthened
  <1>8. CASE ~refused
    <2>1. text + n + 2 \in Nat /\ r.size <= text + n + 2 /\ text + n + 2 < Limit
      BY <1>2, <1>3, <1>8
    <2>2. n = e.len \/ text + n + 2 >= Limit - 4
      BY <1>2, <1>3
    <2>3. text < Limit - 2
      BY <1>2, <1>3, <2>1
    <2>4. r.lines # <<>> => r.lines[Len(r.lines)].whole
      BY <1>2, <1>5, <2>3
    <2> QED BY <1>1, <1>3, <1>8, <2>1, <2>2, <2>4, ExtendedLengthens
  <1> QED BY <1>7, <1>8

LEMMA EventLengthens ==
  ASSUME NEW r, Open(r), NEW e \in Entry
  PROVE  Lengthened(r, e, EventLine(r, e))
  <1> DEFINE tag == Comma(r) + HeaderLen
  <1> DEFINE t == Copied(tag, TagLen)
  <1> DEFINE text == tag + t + 9
  <1> DEFINE n == Copied(text, e.len)
  <1> DEFINE refused == Comma(r) >= Limit \/ tag >= Limit \/ text + 1 >= Limit \/ text + n + 3 >= Limit
  <1>1. EventLine(r, e) = IF refused THEN Full(r) ELSE Extended(r, text + n + 2, e, n)
    BY DEF EventLine
  <1>2. tag \in Nat /\ e.len \in Nat /\ r.size \in Nat /\ r.size <= tag
    BY CommaFacts DEF Entry, Open, Response
  <1>3. t \in 0 .. TagLen
    BY <1>2, CopiedFacts
  <1> HIDE DEF t
  <1>4. text \in Nat /\ tag <= text
    BY <1>2, <1>3
  <1>5. n \in Nat /\ (n = e.len \/ text + n >= Limit - 6) /\ (n = 0 \/ text + n <= Limit - 6)
    <2> HIDE DEF text
    <2>1. Copied(text, e.len) \in 0 .. e.len
      BY <1>2, <1>4, CopiedFacts
    <2>2. \/ Copied(text, e.len) = e.len
          \/ text + Copied(text, e.len) >= Limit - 6
      BY <1>2, <1>4, CopiedFacts
    <2>3. Copied(text, e.len) = 0 \/ text + Copied(text, e.len) <= Limit - 6
      BY <1>2, <1>4, CopiedFacts
    <2>4. n \in Nat
      BY <1>2, <2>1
    <2> QED BY <2>2, <2>3, <2>4
  <1>6. r.lines = <<>> => tag = StartLen + HeaderLen /\ text <= StartLen + HeaderLen + TagLen + 9
    <2>1. r.lines = <<>> => tag = StartLen + HeaderLen
      BY CommaFacts
    <2> QED BY <1>2, <1>3, <2>1
  <1>7. r.lines # <<>> /\ ~r.lines[Len(r.lines)].whole => tag >= Limit - 2
    BY CommaFacts
  <1>8. Comma(r) \in Nat /\ Comma(r) <= tag
    BY CommaFacts
  <1> HIDE DEF tag, text, n
  <1>9. CASE refused
    <2>1. r.lines # <<>>
      <3> SUFFICES ASSUME r.lines = <<>> PROVE FALSE
        OBVIOUS
      <3>1. text <= StartLen + HeaderLen + TagLen + 9 /\ tag = StartLen + HeaderLen
        BY <1>6
      <3>2. Comma(r) < Limit /\ tag < Limit
        BY <1>2, <1>8, <3>1
      <3>3. text + 1 < Limit
        BY <1>4, <3>1
      <3>4. text + n + 3 < Limit
        <4>1. CASE n = 0
          BY <1>4, <3>1, <4>1
        <4>2. CASE n # 0
          BY <1>4, <1>5, <4>2
        <4> QED BY <4>1, <4>2
      <3> QED BY <1>2, <1>4, <1>5, <1>8, <1>9, <3>2, <3>3, <3>4
    <2> QED BY <1>1, <1>9, <2>1 DEF Lengthened
  <1>10. CASE ~refused
    <2>1. text + n + 2 \in Nat /\ r.size <= text + n + 2 /\ text + n + 2 < Limit
      BY <1>2, <1>4, <1>5, <1>10
    <2>2. n = e.len \/ text + n + 2 >= Limit - 4
      BY <1>4, <1>5
    <2>3. tag < Limit - 2
      BY <1>2, <1>4, <1>5, <2>1
    <2>4. r.lines # <<>> => r.lines[Len(r.lines)].whole
      BY <1>2, <1>7, <2>3
    <2> QED BY <1>1, <1>5, <1>10, <2>1, <2>2, <2>4, ExtendedLengthens
  <1> QED BY <1>9, <1>10

LEMMA LineLengthens ==
  ASSUME NEW r, Open(r), NEW e \in Entry
  PROVE  Lengthened(r, e, Line(r, e))
  BY ConsoleLengthens, EventLengthens DEF Line

-----------------------------------------------------------------------------
(* The whole response.                                                     *)

LEMMA OpenedSound == ASSUME NEW since \in Seqs PROVE Sound(Opened, since, 0)
  BY DEF Opened, Sound, Response, Consecutive

LEMMA AppendFacts ==
  ASSUME NEW S, NEW l \in Seq(S), NEW x \in S
  PROVE  /\ Append(l, x) \in Seq(S) /\ Append(l, x) # <<>>
         /\ Len(Append(l, x)) = Len(l) + 1 /\ DOMAIN Append(l, x) = 1 .. Len(l) + 1
         /\ \A k \in DOMAIN l : Append(l, x)[k] = l[k]
         /\ Append(l, x)[Len(l) + 1] = x
         /\ DOMAIN l = 1 .. Len(l) /\ Len(l) \in Nat
  BY AppendProperties, LenProperties

(* Numbers rise from place to place.                                       *)
LEMMA NumbersRise ==
  ASSUME next_seq \in Nat, NEW i \in Nat, NEW j \in Nat, j <= i
  PROVE  Number(j) <= Number(i) /\ Number(i) \in Nat
  BY DEF Number

(* What makes a response with lines sound.                                 *)
LEMMA SoundWithLines ==
  ASSUME NEW since, NEW c, NEW t \in Response, t.lines # <<>>,
         Len(t.lines) <= c, StartLen <= t.size, t.size < Limit, Consecutive(t.lines),
         t.lines[1].seq > since,
         ~t.lines[Len(t.lines)].whole => t.size >= Limit - 4,
         t.lines[Len(t.lines)].seq <= Number(c - 1),
         t.full \/ t.lines[Len(t.lines)].seq = Number(c - 1),
         \A j \in 0 .. c - 1 : Number(j) > since => t.lines[1].seq <= Number(j)
  PROVE  Sound(t, since, c)
  BY Zenon DEF Sound

LEMMA VisitedSound ==
  ASSUME Types, InOrder, NEW since \in Seqs, NEW i \in Places, NEW r, Sound(r, since, i)
  PROVE  Sound(Visited(r, since, At(i)), since, i + 1)
  <1> DEFINE e == At(i)
  <1>1. e \in Entry /\ e.seq \in Seqs /\ e.seq = Number(i)
    BY AtTyped DEF InOrder
  <1>2. next_seq \in Nat /\ i \in Nat /\ i + 1 - 1 = i /\ since \in Nat
    BY DEF Types, Places, Seqs
  <1>3. r \in Response /\ Len(r.lines) \in Nat /\ DOMAIN r.lines = 1 .. Len(r.lines)
    BY LenProperties DEF Sound, Response
  <1>4. \A j \in 0 .. i : j = i \/ j \in 0 .. i - 1
    BY <1>2
  <1>5. r.lines # <<>> => /\ i - 1 \in Nat /\ Len(r.lines) >= 1
                          /\ r.lines[Len(r.lines)].seq = r.lines[1].seq + Len(r.lines) - 1
                          /\ r.lines[1].seq \in Nat /\ r.lines[Len(r.lines)].seq \in Nat
    <2> SUFFICES ASSUME r.lines # <<>>
                 PROVE  /\ i - 1 \in Nat /\ Len(r.lines) >= 1
                        /\ r.lines[Len(r.lines)].seq = r.lines[1].seq + Len(r.lines) - 1
                        /\ r.lines[1].seq \in Nat /\ r.lines[Len(r.lines)].seq \in Nat
      OBVIOUS
    <2>1. r.lines \in Seq(LineSet)
      BY <1>3 DEF Response
    <2>2. Len(r.lines) >= 1
      BY <2>1, EmptySeq, LenProperties
    <2>3. Len(r.lines) \in DOMAIN r.lines /\ 1 \in DOMAIN r.lines
      BY <1>3, <2>2
    <2>4. r.lines[1] \in LineSet /\ r.lines[Len(r.lines)] \in LineSet
      BY <2>1, <2>3, ElementOfSeq, <1>3
    <2>5. r.lines[Len(r.lines)].seq = r.lines[1].seq + Len(r.lines) - 1
      BY <2>3 DEF Sound, Consecutive
    <2>6. i - 1 \in Nat
      BY <1>2, <1>3, <2>2 DEF Sound
    <2> QED BY <2>2, <2>4, <2>5, <2>6 DEF LineSet
  <1>6. r.lines # <<>> => Number(i - 1) <= Number(i) /\ Number(i - 1) \in Nat /\ Number(i) \in Nat
    BY <1>2, <1>5, NumbersRise
  <1>7. CASE r.full
    <2>1. r.lines # <<>>
      BY <1>7 DEF Sound
    <2>2. Visited(r, since, e) = r
      BY <1>7 DEF Visited
    <2>3. Number(i - 1) <= Number(i) /\ Number(i - 1) \in Nat /\ Number(i) \in Nat
      BY <1>6, <2>1
    <2>4. r.lines[Len(r.lines)].seq <= Number(i)
      BY <1>5, <2>1, <2>3 DEF Sound
    <2>5. r.lines[1].seq <= Number(i)
      BY <1>5, <2>1, <2>3, <2>4, <1>3
    <2>6. \A j \in 0 .. i : Number(j) > since => r.lines[1].seq <= Number(j)
      BY <1>4, <2>1, <2>5 DEF Sound
    <2>7. Len(r.lines) <= i + 1
      BY <1>2, <1>3 DEF Sound
    <2> QED BY <1>2, <1>7, <2>1, <2>2, <2>4, <2>6, <2>7 DEF Sound
  <1>8. CASE ~r.full /\ (e.seq = 0 \/ e.seq <= since)
    <2>1. Visited(r, since, e) = r
      BY <1>8 DEF Visited
    <2>2. Number(i) <= since
      BY <1>1, <1>2, <1>8
    <2>3. r.lines = <<>>
      <3> SUFFICES ASSUME r.lines # <<>> PROVE FALSE
        OBVIOUS
      <3>1. Number(i - 1) <= Number(i) /\ Number(i - 1) \in Nat /\ Number(i) \in Nat
        BY <1>6
      <3>2. r.lines[Len(r.lines)].seq = Number(i - 1)
        BY <1>8 DEF Sound
      <3>3. r.lines[1].seq > since
        BY DEF Sound
      <3> QED BY <1>2, <1>3, <1>5, <2>2, <3>1, <3>2, <3>3
    <2>4. \A j \in 0 .. i : Number(j) <= since
      BY <1>4, <2>2, <2>3 DEF Sound
    <2>5. Len(r.lines) <= i + 1
      BY <1>2, <1>3 DEF Sound
    <2> QED BY <1>2, <2>1, <2>3, <2>4, <2>5 DEF Sound
  <1>9. CASE ~r.full /\ ~(e.seq = 0 \/ e.seq <= since)
    <2>1. Visited(r, since, e) = Line(r, e)
      BY <1>9 DEF Visited
    <2>2. Open(r)
      BY <1>9 DEF Sound, Open
    <2>3. Lengthened(r, e, Line(r, e))
      BY <1>1, <2>2, LineLengthens
    <2>4. e.seq > since /\ e.seq \in 1 .. MaxSeq /\ Number(i) \in Nat
      BY <1>1, <1>2, <1>9 DEF Seqs
    <2>5. CASE Line(r, e) = Full(r) /\ r.lines # <<>>
      <3> DEFINE t == Full(r)
      <3>1. t \in Response /\ t.full /\ t.lines = r.lines /\ t.size = r.size
        BY <1>3 DEF Full, Response
      <3>2. Number(i - 1) <= Number(i) /\ Number(i - 1) \in Nat
        BY <1>6, <2>5
      <3>3. r.lines[Len(r.lines)].seq <= Number(i)
        BY <1>5, <2>4, <2>5, <3>2 DEF Sound
      <3>4. r.lines[1].seq <= Number(i)
        BY <1>3, <1>5, <2>4, <2>5, <3>3
      <3>5. \A j \in 0 .. i : Number(j) > since => r.lines[1].seq <= Number(j)
        BY <1>4, <2>5, <3>4 DEF Sound
      <3>6. Len(r.lines) <= i + 1
        BY <1>2, <1>3 DEF Sound
      <3> HIDE DEF t
      <3>7. Sound(t, since, i + 1)
        BY <1>2, <2>5, <3>1, <3>3, <3>5, <3>6 DEF Sound
      <3> QED BY <2>1, <2>5, <3>7 DEF t
    <2>6. ASSUME NEW size \in Nat, NEW whole \in BOOLEAN,
                 Line(r, e) = [size |-> size, full |-> FALSE,
                               lines |-> Append(r.lines, [seq |-> e.seq, whole |-> whole])],
                 r.size <= size, size < Limit, ~whole => size >= Limit - 4,
                 r.lines # <<>> => r.lines[Len(r.lines)].whole
          PROVE  Sound(Line(r, e), since, i + 1)
      <3> DEFINE x == [seq |-> e.seq, whole |-> whole]
                 l == r.lines
                 m == Append(l, x)
                 t == [size |-> size, full |-> FALSE, lines |-> m]
      <3>1. x \in LineSet /\ x.seq = e.seq /\ x.whole = whole
        BY <2>4 DEF LineSet
      <3>2. l \in Seq(LineSet)
        BY <1>3 DEF Response
      <3> HIDE DEF x
      <3>3. /\ m \in Seq(LineSet) /\ m # <<>>
            /\ Len(m) = Len(l) + 1 /\ DOMAIN m = 1 .. Len(l) + 1
            /\ \A k \in DOMAIN l : m[k] = l[k]
            /\ m[Len(l) + 1] = x
            /\ DOMAIN l = 1 .. Len(l) /\ Len(l) \in Nat
        BY <3>1, <3>2, AppendFacts
      <3>4. t \in Response /\ ~t.full /\ t.lines = m /\ t.size = size
        BY <3>3 DEF Response
      <3>5. m[1].seq = e.seq - Len(l) /\ m[1].seq > since
            /\ \A j \in 0 .. i : Number(j) > since => m[1].seq <= Number(j)
        <4>1. CASE l = <<>>
          <5>1. Len(l) = 0
            BY <4>1
          <5>2. m[1].seq = e.seq
            BY <3>1, <3>3, <5>1
          <5>3. \A j \in 0 .. i : Number(j) > since => j = i
            BY <1>2, <1>4, <4>1, NumbersRise DEF Sound
          <5> QED BY <1>1, <2>4, <5>1, <5>2, <5>3
        <4>2. CASE l # <<>>
          <5>1. m[1] = l[1]
            BY <1>5, <3>3, <4>2
          <5>2. l[Len(l)].seq = Number(i - 1)
            BY <1>9, <4>2 DEF Sound
          <5>3. Number(i) = Number(i - 1) + 1
            BY <1>1, <1>2, <1>5, <2>4, <4>2, <5>2 DEF Number
          <5>4. l[1].seq = e.seq - Len(l)
            <6>1. l[Len(l)].seq = l[1].seq + Len(l) - 1 /\ l[1].seq \in Nat
              BY <1>5, <4>2
            <6>2. PICK a \in Nat, c \in Nat : a = l[1].seq /\ c = Len(l)
              BY <3>3, <6>1
            <6>3. PICK b : b = Number(i - 1)
              OBVIOUS
            <6>4. e.seq = Number(i)
              BY <1>1
            <6>5. b = a + c - 1 /\ e.seq = b + 1
              BY <5>2, <5>3, <6>1, <6>2, <6>3, <6>4
            <6>6. a = e.seq - c
              BY <6>2, <6>5
            <6> QED BY <6>2, <6>6
          <5>5. l[1].seq > since /\ \A j \in 0 .. i - 1 : Number(j) > since => l[1].seq <= Number(j)
            BY <4>2 DEF Sound
          <5>6. l[1].seq <= Number(i)
            BY <1>1, <3>3, <5>4, <2>4
          <5> QED BY <1>4, <5>1, <5>4, <5>5, <5>6
        <4> QED BY <4>1, <4>2
      <3>6. Consecutive(m)
        <4>1. ASSUME NEW k \in DOMAIN m PROVE m[k].seq = m[1].seq + k - 1
          <5>1. CASE k = Len(l) + 1
            BY <3>1, <3>3, <3>5, <5>1, <2>4
          <5>2. CASE k # Len(l) + 1
            <6>1. k \in DOMAIN l /\ 1 \in DOMAIN l
              BY <3>3, <5>2
            <6> QED BY <3>3, <6>1 DEF Sound, Consecutive
          <5> QED BY <5>1, <5>2
        <4>2. ASSUME NEW k \in DOMAIN m PROVE m[k].whole \/ k = Len(m)
          <5>1. CASE k = Len(l) + 1
            BY <3>3, <5>1
          <5>2. CASE k # Len(l) + 1
            <6>1. k \in DOMAIN l /\ m[k] = l[k]
              BY <3>3, <5>2
            <6>2. l # <<>>
              BY <6>1, <3>3
            <6>3. l[k].whole \/ k = Len(l)
              BY <6>1 DEF Sound, Consecutive
            <6> QED BY <2>6, <6>1, <6>2, <6>3
          <5> QED BY <5>1, <5>2
        <4> QED BY <4>1, <4>2 DEF Consecutive
      <3>7. Len(m) <= i + 1
        BY <1>2, <3>3 DEF Sound
      <3>8. StartLen <= size
        BY <1>3, <2>6 DEF Sound, Response
      <3>9. m[Len(m)].seq = Number(i) /\ (~m[Len(m)].whole => size >= Limit - 4)
        BY <1>1, <2>6, <3>1, <3>3
      <3>10. Line(r, e) = t
        BY <2>6 DEF x
      <3> HIDE DEF m, t
      <3>11. Sound(t, since, i + 1)
        <4>1. Len(t.lines) <= i + 1 /\ Consecutive(t.lines) /\ t.lines # <<>>
          BY <3>3, <3>4, <3>6, <3>7
        <4>2. StartLen <= t.size /\ t.size < Limit
          BY <2>6, <3>4, <3>8
        <4>3. t.lines[Len(t.lines)].seq = Number(i)
          BY <3>4, <3>9
        <4>4. Number(i) <= Number(i)
          BY <2>4
        <4>5. ~t.lines[Len(t.lines)].whole => t.size >= Limit - 4
          BY <3>4, <3>9
        <4>6. t.lines[1].seq > since /\ \A j \in 0 .. i : Number(j) > since => t.lines[1].seq <= Number(j)
          BY <3>4, <3>5
        <4>7. PICK c \in Nat : c = i + 1
          BY <1>2
        <4>8. c - 1 = i /\ Len(t.lines) <= c
          <5>1. c - 1 = i
            BY <1>2, <4>7
          <5>2. Len(t.lines) <= c
            BY <4>1, <4>7
          <5> QED BY <5>1, <5>2
        <4>9. t.lines[Len(t.lines)].seq = Number(c - 1) /\ t.lines[Len(t.lines)].seq <= Number(c - 1)
          BY <4>3, <4>4, <4>8
        <4>10. \A j \in 0 .. c - 1 : Number(j) > since => t.lines[1].seq <= Number(j)
          BY <4>6, <4>8
        <4>11. Sound(t, since, c)
          BY <3>4, <4>1, <4>2, <4>5, <4>6, <4>8, <4>9, <4>10, SoundWithLines
        <4> QED BY <4>7, <4>11
      <3> QED BY <3>10, <3>11
    <2> QED BY <2>1, <2>3, <2>5, <2>6 DEF Lengthened
  <1> QED BY <1>7, <1>8, <1>9

(* The loop of the dump as a function of the places gone through.          *)
Going(since, n, u) ==
  u = [i \in 0 .. n |-> IF i = 0 THEN Opened ELSE Visited(u[i - 1], since, At(i - 1))]

LEMMA LoopGoes ==
  ASSUME NEW since
  PROVE  \E u : Going(since, RingSize, u)
  <1> DEFINE Stuck == {n \in Nat : ~ \E u : Going(since, n, u)}
  <1> SUFFICES ASSUME Stuck # {} PROVE FALSE
    BY DEF Stuck
  <1>1. Stuck \in SUBSET Nat
    OBVIOUS
  <1>2. PICK n \in Stuck : \A m \in Stuck : ~(<<m, n>> \in OpToRel(<, Nat))
    <2> HIDE DEF Stuck
    <2>1. IsWellFoundedOn(OpToRel(<, Nat), Nat)
      BY NatLessThanWellFounded
    <2> QED BY <1>1, <2>1, WFMin
  <1>3. n \in Nat /\ ~ \E u : Going(since, n, u)
    OBVIOUS
  <1>4. \A m \in Stuck : ~(m < n)
    BY <1>1, <1>2, <1>3 DEF OpToRel
  <1>5. CASE n = 0
    <2> DEFINE u == [i \in 0 .. 0 |-> Opened]
    <2>1. Going(since, 0, u)
      BY DEF Going
    <2> QED BY <1>3, <1>5, <2>1
  <1>6. CASE n # 0
    <2>1. n - 1 \in Nat /\ n - 1 < n
      BY <1>3, <1>6
    <2>2. n - 1 \notin Stuck
      BY <1>4, <2>1
    <2>3. PICK u : Going(since, n - 1, u)
      BY <2>1, <2>2
    <2> DEFINE w == [i \in 0 .. n |-> IF i = n THEN Visited(u[n - 1], since, At(n - 1)) ELSE u[i]]
    <2>4. \A i \in 0 .. n - 1 :
            u[i] = IF i = 0 THEN Opened ELSE Visited(u[i - 1], since, At(i - 1))
      BY <2>3 DEF Going
    <2>5. ASSUME NEW i \in 0 .. n
          PROVE  w[i] = IF i = 0 THEN Opened ELSE Visited(w[i - 1], since, At(i - 1))
      <3>1. CASE i = n
        BY <1>3, <1>6, <3>1
      <3>2. CASE i # n
        <4>1. i \in 0 .. n - 1
          BY <1>3, <3>2
        <4>2. w[i] = u[i] /\ (i # 0 => w[i - 1] = u[i - 1])
          BY <1>3, <4>1
        <4> HIDE DEF w
        <4> QED BY <2>4, <4>1, <4>2
      <3> QED BY <3>1, <3>2
    <2>6. Going(since, n, w)
      <3>1. [i \in 0 .. n |-> IF i = 0 THEN Opened ELSE Visited(w[i - 1], since, At(i - 1))]
              = [i \in 0 .. n |-> w[i]]
        <4> HIDE DEF w
        <4> QED BY <2>5
      <3>2. [i \in 0 .. n |-> w[i]] = w
        OBVIOUS
      <3> HIDE DEF w
      <3> QED BY <3>1, <3>2 DEF Going
    <2> HIDE DEF w
    <2> QED BY <1>3, <2>6
  <1> QED BY <1>5, <1>6

LEMMA DumpSound ==
  ASSUME Types, InOrder, NEW since \in Seqs
  PROVE  Sound(Dump(since), since, RingSize)
  <1> DEFINE u == CHOOSE u : Going(since, RingSize, u)
  <1>1. Going(since, RingSize, u)
    BY LoopGoes
  <1>2. Dump(since) = u[RingSize]
    BY DEF Dump, Going
  <1> HIDE DEF u
  <1>3. \A i \in 0 .. RingSize :
          u[i] = IF i = 0 THEN Opened ELSE Visited(u[i - 1], since, At(i - 1))
    BY <1>1 DEF Going
  <1> DEFINE Bad == {i \in 0 .. RingSize : ~Sound(u[i], since, i)}
  <1>4. Bad = {}
    <2> SUFFICES ASSUME Bad # {} PROVE FALSE
      OBVIOUS
    <2>1. Bad \in SUBSET Nat
      OBVIOUS
    <2>2. PICK i \in Bad : \A j \in Bad : ~(<<j, i>> \in OpToRel(<, Nat))
      <3> HIDE DEF Bad
      <3>1. IsWellFoundedOn(OpToRel(<, Nat), Nat)
        BY NatLessThanWellFounded
      <3> QED BY <2>1, <3>1, WFMin
    <2>3. i \in 0 .. RingSize /\ ~Sound(u[i], since, i)
      OBVIOUS
    <2>4. \A j \in Bad : ~(j < i)
      BY <2>1, <2>2, <2>3 DEF OpToRel
    <2>5. CASE i = 0
      <3>1. u[i] = Opened
        BY <1>3, <2>5
      <3> QED BY <2>3, <2>5, <3>1, OpenedSound
    <2>6. CASE i # 0
      <3>1. i - 1 \in Places /\ i - 1 \in 0 .. RingSize /\ i - 1 < i /\ i - 1 + 1 = i
        BY <2>3, <2>6 DEF Places
      <3>2. Sound(u[i - 1], since, i - 1)
        BY <2>4, <3>1
      <3>3. u[i] = Visited(u[i - 1], since, At(i - 1))
        BY <1>3, <2>3, <2>6
      <3>4. Sound(u[i], since, i - 1 + 1)
        BY <3>1, <3>2, <3>3, VisitedSound
      <3> QED BY <2>3, <3>1, <3>4
    <2> QED BY <2>5, <2>6
  <1>5. RingSize \in 0 .. RingSize
    OBVIOUS
  <1> QED BY <1>2, <1>4, <1>5

-----------------------------------------------------------------------------
(* The steps.                                                              *)

LEMMA RingBelowNext ==
  ASSUME Types, InOrder, NEW p \in Places
  PROVE  /\ ring[p].seq < next_seq /\ ring[p].seq \in Nat
         /\ \E i \in Places : ring[p].seq = Number(i)
  <1>1. PICK i \in Places : p = (head + i) % RingSize
    BY PlaceIsAt DEF Types
  <1>2. ring[p].seq = Number(i)
    BY <1>1 DEF InOrder, At
  <1>3. next_seq \in Nat /\ next_seq >= 1 /\ i \in Nat /\ i < RingSize
    BY DEF Types, Places
  <1>4. Number(i) < next_seq /\ Number(i) \in Nat
    BY <1>3 DEF Number
  <1> QED BY <1>2, <1>4

LEMMA Idle == /\ IdlePoll \in PollState /\ IdlePoll.st = "idle" /\ IdlePoll.size <= Limit
              /\ Len(IdlePoll.lines) <= RingSize
  <1>1. <<>> \in Seq(LineSet) /\ Len(<<>>) = 0
    OBVIOUS
  <1>2. 0 \in Seqs
    BY DEF Seqs
  <1> QED BY <1>1, <1>2 DEF IdlePoll, PollState

LEMMA CoveredStays ==
  ASSUME NEW n, NEW new, Covered(n, new), UNCHANGED ringVars, shown \subseteq shown'
  PROVE  Covered(n, new)'
  BY DEF Covered, ringVars, Places

LEMMA LastSeqStays ==
  ASSUME NEW q, poll'[q] = poll[q]
  PROVE  LastSeq(q)' = LastSeq(q)
  BY DEF LastSeq

LEMMA LastSeqTyped ==
  ASSUME Types, NEW q \in Polls
  PROVE  LastSeq(q) \in Seqs /\ Numbers(poll[q].lines) \subseteq 1 .. MaxSeq
  <1>1. poll[q] \in PollState
    BY DEF Types
  <1>2. poll[q].lines \in Seq(LineSet) /\ poll[q].since \in Seqs
    BY <1>1 DEF PollState
  <1>3. \A k \in DOMAIN poll[q].lines : poll[q].lines[k].seq \in 1 .. MaxSeq
    <2>1. \A k \in DOMAIN poll[q].lines : poll[q].lines[k] \in LineSet
      BY <1>2
    <2> QED BY <2>1 DEF LineSet
  <1>4. poll[q].lines # <<>> => Len(poll[q].lines) \in DOMAIN poll[q].lines
    BY <1>2, EmptySeq, LenProperties
  <1> QED BY <1>2, <1>3, <1>4 DEF LastSeq, Numbers, Seqs

LEMMA PutKeeps ==
  ASSUME LogInv, Put
  PROVE  LogInv'
  <1>1. Types /\ InOrder /\ Answers /\ Coverage
    BY DEF LogInv
  <1>2. PICK len \in Lens : ring' = [ring EXCEPT ![head] = [seq |-> next_seq, len |-> len]]
    BY DEF Put
  <1>3. /\ next_seq' = next_seq + 1 /\ head' = (head + 1) % RingSize /\ next_seq <= MaxSeq
        /\ log' = log /\ poll' = poll /\ cursor' = cursor /\ shown' = shown /\ stale' = stale
        /\ resets' = resets
    BY DEF Put, pageVars
  <1>4. head \in Places /\ next_seq \in 1 .. MaxSeq + 1
    BY <1>1 DEF Types
  <1>5. Types'
    <2>1. head' \in Places
      <3>1. head + 1 \in 0 .. 2 * RingSize - 1
        BY <1>4 DEF Places
      <3> QED BY <1>3, <3>1, Wraps DEF Places
    <2>2. next_seq' \in 1 .. MaxSeq + 1
      BY <1>3, <1>4
    <2>3. [seq |-> next_seq, len |-> len] \in [seq : Seqs, len : Lens \cup {0}]
      BY <1>3, <1>4 DEF Seqs
    <2>4. ring' \in [Places -> [seq : Seqs, len : Lens \cup {0}]]
      BY <1>1, <1>2, <2>3 DEF Types
    <2> QED BY <1>1, <1>3, <2>1, <2>2, <2>4 DEF Types
  <1>6. InOrder'
    BY <1>1, PutInOrder
  <1>7. Answers'
    BY <1>1, <1>3 DEF Answers, Consecutive
  <1>8. ASSUME NEW n \in Seqs, NEW new, Covered(n, new) PROVE Covered(n, new)'
    <2>1. ASSUME NEW p \in Places, ring'[p].seq # 0, ring'[p].seq <= n
          PROVE  ring'[p].seq \in shown' \cup new
      <3>1. CASE p = head
        <4>1. ring'[p].seq = next_seq
          BY <1>1, <1>2, <3>1 DEF Types
        <4> QED BY <1>4, <1>8, <2>1, <4>1 DEF Covered, Seqs
      <3>2. CASE p # head
        <4>1. ring'[p] = ring[p]
          BY <1>1, <1>2, <3>2 DEF Types
        <4> QED BY <1>3, <1>8, <2>1, <4>1 DEF Covered
      <3> QED BY <3>1, <3>2
    <2>2. n < next_seq'
      BY <1>3, <1>4, <1>8 DEF Covered, Seqs
    <2> QED BY <2>1, <2>2 DEF Covered
  <1>9. Coverage'
    <2> SUFFICES ASSUME ~stale' PROVE
            /\ Covered(cursor, {})'
            /\ \A q \in Polls : poll'[q].st = "asked" => Covered(poll[q].since, {})'
            /\ \A q \in Polls : poll'[q].st = "answered" => Covered(LastSeq(q), Numbers(poll[q].lines))'
      BY DEF Coverage
    <2>1. ~stale
      BY <1>3
    <2>2. Covered(cursor, {})'
      <3>1. PICK c \in Seqs : c = cursor
        BY <1>1 DEF Types
      <3>2. Covered(c, {})'
        BY <1>1, <1>8, <2>1, <3>1 DEF Coverage
      <3> QED BY <1>3, <3>1, <3>2
    <2>3. ASSUME NEW q \in Polls, poll'[q].st = "asked" PROVE Covered(poll[q].since, {})'
      <3>1. PICK c \in Seqs : c = poll[q].since
        BY <1>1 DEF Types, PollState
      <3>2. Covered(c, {})'
        BY <1>1, <1>3, <1>8, <2>1, <2>3, <3>1 DEF Coverage
      <3>3. poll'[q].since = c
        BY <1>3, <3>1
      <3> QED BY <3>2, <3>3
    <2>4. ASSUME NEW q \in Polls, poll'[q].st = "answered"
          PROVE  Covered(LastSeq(q), Numbers(poll[q].lines))'
      <3>1. PICK c \in Seqs : c = LastSeq(q)
        BY <1>1, LastSeqTyped
      <3>2. PICK new : new = Numbers(poll[q].lines)
        OBVIOUS
      <3>3. Covered(c, new)'
        BY <1>1, <1>3, <1>8, <2>1, <2>4, <3>1, <3>2 DEF Coverage
      <3>4. LastSeq(q)' = c
        BY <1>3, <3>1, LastSeqStays
      <3>5. Numbers(poll[q].lines)' = new
        BY <1>3, <3>2 DEF Numbers
      <3> QED BY <3>3, <3>4, <3>5
    <2> QED BY <2>2, <2>3, <2>4
  <1> QED BY <1>5, <1>6, <1>7, <1>9 DEF LogInv

(* A poll that no step touches is as it was.                               *)
LEMMA OthersStay ==
  ASSUME LogInv, UNCHANGED <<next_seq, ring>>, shown \subseteq shown', ~stale,
         NEW q \in Polls, poll'[q] = poll[q]
  PROVE  /\ poll'[q].st = "asked" => Covered(poll[q].since, {})'
         /\ poll'[q].st = "answered" => Covered(LastSeq(q), Numbers(poll[q].lines))'
  <1>1. PICK c, new : c = LastSeq(q) /\ new = Numbers(poll[q].lines)
    OBVIOUS
  <1>2. LastSeq(q)' = c /\ Numbers(poll[q].lines)' = new
    BY <1>1, LastSeqStays DEF Numbers
  <1>3. ASSUME poll[q].st = "answered" PROVE Covered(c, new)'
    BY <1>1, <1>3 DEF LogInv, Coverage, Covered, Places
  <1>4. PICK d : d = poll[q].since
    OBVIOUS
  <1>5. ASSUME poll[q].st = "asked" PROVE Covered(d, {})'
    BY <1>4, <1>5 DEF LogInv, Coverage, Covered, Places
  <1>6. poll'[q].since = d
    BY <1>4
  <1> QED BY <1>2, <1>3, <1>5, <1>6

(* A step of one poll that leaves ring and page alone.                     *)
LEMMA OnePollKeeps ==
  ASSUME LogInv, NEW q \in Polls, NEW x \in PollState, poll' = [poll EXCEPT ![q] = x],
         UNCHANGED <<ringVars, resets, stale>>,
         x.size <= Limit, Len(x.lines) <= RingSize,
         x.st = "answered" => x.size < Limit /\ Consecutive(x.lines),
         cursor' \in Seqs, shown \subseteq shown', shown' \subseteq 1 .. MaxSeq,
         ~stale => /\ Covered(cursor, {})'
                   /\ x.st = "asked" => Covered(poll[q].since, {})'
                   /\ x.st = "answered" => Covered(LastSeq(q), Numbers(poll[q].lines))'
  PROVE  LogInv'
  <1>1. Types /\ InOrder /\ Answers /\ Coverage
    BY DEF LogInv
  <1>2. log' = log /\ ring' = ring /\ head' = head /\ next_seq' = next_seq /\ stale' = stale
        /\ resets' = resets
    BY DEF ringVars
  <1>3. poll'[q] = x /\ \A z \in Polls \ {q} : poll'[z] = poll[z]
    BY <1>1 DEF Types
  <1>4. Types'
    <2>1. poll' \in [Polls -> PollState]
      BY <1>1 DEF Types
    <2>2. \A z \in Polls : poll'[z].size <= Limit /\ Len(poll'[z].lines) <= RingSize
      BY <1>1, <1>3 DEF Types
    <2> QED BY <1>1, <1>2, <2>1, <2>2 DEF Types
  <1>5. InOrder'
    BY <1>1, <1>2 DEF InOrder, At, Number
  <1>6. Answers'
    <2> SUFFICES ASSUME NEW z \in Polls, poll'[z].st = "answered"
                 PROVE  poll'[z].size < Limit /\ Consecutive(poll'[z].lines)
      BY DEF Answers, Consecutive
    <2> QED BY <1>1, <1>3 DEF Answers
  <1>7. Coverage'
    <2> SUFFICES ASSUME ~stale', NEW z \in Polls PROVE
            /\ Covered(cursor, {})'
            /\ poll'[z].st = "asked" => Covered(poll[z].since, {})'
            /\ poll'[z].st = "answered" => Covered(LastSeq(z), Numbers(poll[z].lines))'
      <3>1. ~stale' => Covered(cursor, {})'
        BY <1>2
      <3> QED BY <3>1 DEF Coverage
    <2>1. CASE z = q
      BY <1>2, <1>3, <2>1
    <2>2. CASE z # q
      <3>1. poll'[z] = poll[z]
        BY <1>3, <2>2
      <3> QED BY <1>2, <3>1, OthersStay
    <2> QED BY <2>1, <2>2
  <1> QED BY <1>4, <1>5, <1>6, <1>7 DEF LogInv

LEMMA CursorStays ==
  ASSUME LogInv, UNCHANGED <<ringVars, pageVars>>
  PROVE  cursor' \in Seqs /\ shown' \subseteq 1 .. MaxSeq /\ (~stale => Covered(cursor, {})')
  <1>1. PICK c : c = cursor
    OBVIOUS
  <1>2. cursor' = c /\ shown' = shown /\ ring' = ring /\ next_seq' = next_seq
    BY <1>1 DEF ringVars, pageVars
  <1>3. ~stale => Covered(c, {})'
    BY <1>1, <1>2 DEF LogInv, Coverage, Covered, Places
  <1> QED BY <1>1, <1>2, <1>3 DEF LogInv, Types

LEMMA PollSendKeeps ==
  ASSUME LogInv, NEW q \in Polls, PollSend(q)
  PROVE  LogInv'
  <1> DEFINE x == [IdlePoll EXCEPT !.st = "asked", !.since = cursor]
  <1>1. poll' = [poll EXCEPT ![q] = x] /\ UNCHANGED <<ringVars, pageVars, resets>>
    BY DEF PollSend
  <1>2. x.st = "asked" /\ x.since = cursor /\ x.size = 0 /\ x.lines = <<>>
    BY DEF IdlePoll
  <1>3. x \in PollState
    <2>1. <<>> \in Seq(LineSet) /\ cursor \in Seqs
      BY DEF LogInv, Types
    <2> QED BY <2>1 DEF PollState, IdlePoll
  <1>4. poll'[q] = x
    BY <1>1 DEF LogInv, Types
  <1> HIDE DEF x
  <1>5. ~stale => Covered(cursor, {})' /\ cursor' = cursor
    BY <1>1, CursorStays DEF pageVars
  <1>6. PICK c : c = cursor /\ (~stale => Covered(c, {})')
    <2>1. PICK c : c = cursor
      OBVIOUS
    <2>2. cursor' = c
      BY <1>1, <2>1 DEF pageVars
    <2> QED BY <1>5, <2>1, <2>2
  <1>7. poll'[q].since = c
    BY <1>2, <1>4, <1>6
  <1>8. ~stale => Covered(poll[q].since, {})'
    BY <1>6, <1>7
  <1>9. x.size <= Limit /\ Len(x.lines) <= RingSize
    BY <1>2
  <1>10. x.st # "answered"
    BY <1>2
  <1>11. UNCHANGED <<ringVars, resets, stale>> /\ shown \subseteq shown'
    BY <1>1 DEF pageVars
  <1>12. UNCHANGED <<ringVars, pageVars>>
    BY <1>1
  <1>13. cursor' \in Seqs /\ shown' \subseteq 1 .. MaxSeq
    BY <1>12, CursorStays
  <1> QED BY <1>1, <1>3, <1>5, <1>8, <1>9, <1>10, <1>11, <1>13, OnePollKeeps

LEMMA PollLostKeeps ==
  ASSUME LogInv, NEW q \in Polls, PollLost(q)
  PROVE  LogInv'
  <1>1. poll' = [poll EXCEPT ![q] = IdlePoll] /\ UNCHANGED <<ringVars, pageVars, resets>>
    BY DEF PollLost
  <1>2. UNCHANGED <<ringVars, pageVars>> /\ UNCHANGED <<ringVars, resets, stale>> /\ shown \subseteq shown'
    BY <1>1 DEF pageVars
  <1>3. cursor' \in Seqs /\ shown' \subseteq 1 .. MaxSeq /\ (~stale => Covered(cursor, {})')
    BY <1>2, CursorStays
  <1>4. IdlePoll.st # "asked" /\ IdlePoll.st # "answered"
    BY DEF IdlePoll
  <1> QED BY <1>1, <1>2, <1>3, <1>4, Idle, OnePollKeeps

(* The lines of a sound response cover all up to the last of them.         *)
LEMMA ResponseCovers ==
  ASSUME Types, InOrder, NEW since \in Seqs, Covered(since, {}), NEW r, Sound(r, since, RingSize),
         NEW last, last = IF r.lines = <<>> THEN since ELSE r.lines[Len(r.lines)].seq
  PROVE  Covered(last, Numbers(r.lines))
  <1>1. r.lines \in Seq(LineSet) /\ Len(r.lines) \in Nat /\ DOMAIN r.lines = 1 .. Len(r.lines)
    BY LenProperties DEF Sound, Response
  <1>2. next_seq \in Nat /\ next_seq >= 1 /\ since \in Nat
    BY DEF Types, Seqs
  <1>3. CASE r.lines = <<>>
    BY <1>3 DEF Covered
  <1>4. CASE r.lines # <<>>
    <2> DEFINE l == r.lines
    <2>1. Len(l) >= 1
      BY <1>1, <1>4, EmptySeq, LenProperties
    <2>2. Len(l) \in DOMAIN l /\ 1 \in DOMAIN l
      BY <1>1, <2>1
    <2>3. l[1] \in LineSet /\ l[Len(l)] \in LineSet
      BY <1>1, <2>2
    <2>4. l[1].seq \in Nat /\ last = l[Len(l)].seq /\ last \in Nat
      BY <1>4, <2>3 DEF LineSet
    <2>5. \A k \in DOMAIN l : l[k].seq = l[1].seq + k - 1
      BY DEF Sound, Consecutive
    <2>6. last = l[1].seq + Len(l) - 1
      BY <2>2, <2>4, <2>5
    <2>7. last < next_seq
      <3>1. Number(RingSize - 1) < next_seq /\ Number(RingSize - 1) \in Nat
        BY <1>2 DEF Number
      <3>2. last <= Number(RingSize - 1)
        BY <1>4, <2>4 DEF Sound
      <3> QED BY <1>2, <2>4, <3>1, <3>2
    <2>8. ASSUME NEW p \in Places, ring[p].seq # 0, ring[p].seq <= last
          PROVE  ring[p].seq \in shown \cup Numbers(l)
      <3>1. PICK i \in Places : ring[p].seq = Number(i)
        BY RingBelowNext
      <3>2. ring[p].seq \in Nat
        BY RingBelowNext
      <3>3. CASE ring[p].seq <= since
        BY <2>8, <3>3 DEF Covered
      <3>4. CASE ~(ring[p].seq <= since)
        <4>1. l[1].seq <= ring[p].seq
          <5>1. Number(i) > since /\ i \in 0 .. RingSize - 1
            BY <1>2, <3>1, <3>2, <3>4 DEF Places
          <5> QED BY <1>4, <3>1, <5>1 DEF Sound
        <4> DEFINE k == ring[p].seq - l[1].seq + 1
        <4>2. k \in 1 .. Len(l)
          BY <1>1, <2>4, <2>6, <2>8, <3>2, <4>1
        <4>3. l[k].seq = ring[p].seq
          <5> HIDE DEF k
          <5>1. l[k].seq = l[1].seq + k - 1
            BY <1>1, <2>5, <4>2
          <5>2. k \in Nat /\ k = ring[p].seq - l[1].seq + 1
            BY <4>2 DEF k
          <5> QED BY <2>4, <3>2, <5>1, <5>2
        <4> HIDE DEF k
        <4> QED BY <1>1, <4>2, <4>3 DEF Numbers
      <3> QED BY <3>3, <3>4
    <2> QED BY <2>7, <2>8 DEF Covered
  <1> QED BY <1>3, <1>4

LEMMA ServeKeeps ==
  ASSUME LogInv, NEW q \in Polls, Serve(q)
  PROVE  LogInv'
  <1>1. Types /\ InOrder /\ Coverage
    BY DEF LogInv
  <1> DEFINE since == poll[q].since
             r == Dump(since)
             x == [poll[q] EXCEPT !.st = "answered", !.size = r.size, !.lines = r.lines]
  <1>2. poll[q] \in PollState /\ since \in Seqs
    BY <1>1 DEF Types, PollState
  <1>3. Sound(r, since, RingSize)
    BY <1>1, <1>2, DumpSound
  <1>4. poll' = [poll EXCEPT ![q].st = "answered", ![q].size = r.size, ![q].lines = r.lines]
    BY DEF Serve
  <1>5. UNCHANGED <<ringVars, pageVars>> /\ UNCHANGED <<ringVars, resets, stale>> /\ shown \subseteq shown'
    BY DEF Serve, pageVars
  <1>6. poll[q].st = "asked"
    BY DEF Serve
  <1> HIDE DEF r
  <1>7. poll' = [poll EXCEPT ![q] = x]
    BY <1>1, <1>2, <1>4 DEF Types, PollState
  <1>8. r.size \in Nat /\ r.lines \in Seq(LineSet) /\ r.size < Limit /\ Consecutive(r.lines)
        /\ Len(r.lines) <= RingSize
    BY <1>3 DEF Sound, Response
  <1>9. x.st = "answered" /\ x.size = r.size /\ x.lines = r.lines /\ x.since = since
    BY <1>2 DEF PollState
  <1>10. x \in PollState
    BY <1>2, <1>8 DEF PollState
  <1>11. poll'[q] = x
    BY <1>1, <1>7 DEF Types
  <1>12. PICK s, l, n : s = since /\ l = r.lines /\ n = (IF l = <<>> THEN s ELSE l[Len(l)].seq)
    OBVIOUS
  <1> HIDE DEF x
  <1>13. poll'[q].lines = l /\ poll'[q].since = s
    BY <1>9, <1>11, <1>12
  <1>14. LastSeq(q)' = n /\ Numbers(poll[q].lines)' = Numbers(l)
    BY <1>12, <1>13 DEF LastSeq, Numbers
  <1>15. ~stale => Covered(n, Numbers(l))
    <2> SUFFICES ASSUME ~stale PROVE Covered(n, Numbers(l))
      OBVIOUS
    <2>1. Covered(since, {})
      BY <1>1, <1>6 DEF Coverage
    <2> HIDE DEF since
    <2>2. Covered(n, Numbers(r.lines))
      BY <1>1, <1>2, <1>3, <1>12, <2>1, ResponseCovers
    <2> QED BY <1>12, <2>2
  <1>16. PICK new : new = Numbers(l)
    OBVIOUS
  <1>17. ~stale => Covered(n, new)'
    BY <1>5, <1>15, <1>16, CoveredStays
  <1>18. ~stale => Covered(LastSeq(q), Numbers(poll[q].lines))'
    BY <1>14, <1>16, <1>17
  <1>19. cursor' \in Seqs /\ shown' \subseteq 1 .. MaxSeq /\ (~stale => Covered(cursor, {})')
    BY <1>5, CursorStays
  <1>20. /\ x.size <= Limit /\ Len(x.lines) <= RingSize
         /\ x.size < Limit /\ Consecutive(x.lines) /\ x.st # "asked"
    BY <1>8, <1>9
  <1> QED BY <1>5, <1>7, <1>10, <1>18, <1>19, <1>20, OnePollKeeps

LEMMA PollAnsweredKeeps ==
  ASSUME LogInv, NEW q \in Polls, PollAnswered(q)
  PROVE  LogInv'
  <1>1. Types /\ Coverage
    BY DEF LogInv
  <1>2. /\ poll' = [poll EXCEPT ![q] = IdlePoll] /\ UNCHANGED <<ringVars, resets, stale>>
        /\ cursor' = LastSeq(q) /\ shown' = shown \cup {l.seq : l \in Lines(q)}
        /\ poll[q].st = "answered"
    BY DEF PollAnswered
  <1>3. PICK c, new : c = LastSeq(q) /\ new = Numbers(poll[q].lines)
    OBVIOUS
  <1>4. c \in Seqs /\ new \subseteq 1 .. MaxSeq
    BY <1>1, <1>3, LastSeqTyped
  <1>5. shown' = shown \cup new
    BY <1>2, <1>3 DEF Lines, Numbers
  <1>6. ~stale => Covered(c, new)
    BY <1>1, <1>2, <1>3 DEF Coverage
  <1>7. ~stale => Covered(c, {})'
    BY <1>2, <1>5, <1>6 DEF Covered, ringVars, Places
  <1>8. cursor' = c
    BY <1>2, <1>3
  <1>9. IdlePoll.st # "asked" /\ IdlePoll.st # "answered"
    BY DEF IdlePoll
  <1>10. shown \subseteq shown' /\ shown' \subseteq 1 .. MaxSeq
    BY <1>1, <1>4, <1>5 DEF Types
  <1>11. ~stale => Covered(cursor, {})'
    BY <1>7, <1>8
  <1> QED BY <1>2, <1>4, <1>8, <1>9, <1>10, <1>11, Idle, OnePollKeeps

LEMMA PageLoadKeeps ==
  ASSUME LogInv, PageLoad
  PROVE  LogInv'
  <1>1. Types /\ InOrder
    BY DEF LogInv
  <1>2. /\ poll' = [q \in Polls |-> IdlePoll] /\ cursor' = 0 /\ stale' = FALSE /\ shown' = {}
        /\ log' = log /\ ring' = ring /\ head' = head /\ next_seq' = next_seq
    BY DEF PageLoad, Reset, ringVars
  <1>3. resets' \in 0 .. MaxResets
    BY <1>1 DEF PageLoad, Reset, Types
  <1>4. \A q \in Polls : poll'[q] = IdlePoll
    BY <1>2
  <1>5. Types'
    <2>1. poll' \in [Polls -> PollState]
      BY <1>2, Idle
    <2>2. cursor' \in Seqs
      BY <1>2 DEF Seqs
    <2> QED BY <1>1, <1>2, <1>3, <1>4, <2>1, <2>2, Idle DEF Types
  <1>6. InOrder'
    BY <1>1, <1>2 DEF InOrder, At, Number
  <1>7. Answers'
    BY <1>4, Idle DEF Answers
  <1>8. Covered(cursor, {})'
    BY <1>1, <1>2, RingBelowNext DEF Covered, Types
  <1>9. Coverage'
    BY <1>4, <1>8, Idle DEF Coverage
  <1> QED BY <1>5, <1>6, <1>7, <1>9 DEF LogInv

LEMMA EmptyInOrder ==
  ASSUME NEW i \in Places
  PROVE  [p \in Places |-> Empty][(0 + i) % RingSize].seq = 0 /\ ~(1 - RingSize + i >= 1)
  <1>1. 0 + i \in 0 .. 2 * RingSize - 1 /\ i \in 0 .. RingSize - 1
    BY DEF Places
  <1>2. (0 + i) % RingSize \in Places
    BY <1>1, Wraps DEF Places
  <1> QED BY <1>1, <1>2 DEF Empty

LEMMA EmptyTyped ==
  /\ [p \in Places |-> Empty] \in [Places -> [seq : Seqs, len : Lens \cup {0}]]
  /\ 0 \in Places /\ 1 \in 1 .. MaxSeq + 1
  <1>1. Empty \in [seq : Seqs, len : Lens \cup {0}]
    BY DEF Empty, Seqs
  <1> QED BY <1>1 DEF Places

LEMMA RebootKeeps ==
  ASSUME LogInv, Reboot
  PROVE  LogInv'
  <1>1. Types /\ Answers
    BY DEF LogInv
  <1>2. /\ poll' = [q \in Polls |-> IF poll[q].st = "answered" THEN poll[q] ELSE IdlePoll]
        /\ ring' = [p \in Places |-> Empty] /\ head' = 0 /\ next_seq' = 1
        /\ stale' = (cursor # 0 \/ \E q \in Polls : poll[q].st = "answered")
        /\ log' = log /\ cursor' = cursor /\ shown' = {}
    BY DEF Reboot, Reset
  <1>3. resets' \in 0 .. MaxResets
    BY <1>1 DEF Reboot, Reset, Types
  <1>4. \A q \in Polls : poll'[q] = IF poll[q].st = "answered" THEN poll[q] ELSE IdlePoll
    BY <1>2
  <1>5. Types'
    <2>1. poll' \in [Polls -> PollState]
      BY <1>1, <1>2, Idle DEF Types
    <2>2. \A q \in Polls : poll'[q].size <= Limit /\ Len(poll'[q].lines) <= RingSize
      BY <1>1, <1>4, Idle DEF Types
    <2>3. /\ ring' \in [Places -> [seq : Seqs, len : Lens \cup {0}]]
          /\ head' \in Places /\ next_seq' \in 1 .. MaxSeq + 1
      BY <1>2, EmptyTyped
    <2>4. stale' \in BOOLEAN
      BY <1>2
    <2> QED BY <1>1, <1>2, <1>3, <2>1, <2>2, <2>3, <2>4 DEF Types
  <1>6. InOrder'
    <2> SUFFICES ASSUME NEW i \in Places PROVE At(i)'.seq = Number(i)'
      BY DEF InOrder, Places
    <2> QED BY <1>2, EmptyInOrder DEF At, Number
  <1>7. Answers'
    <2> SUFFICES ASSUME NEW q \in Polls, poll'[q].st = "answered"
                 PROVE  poll'[q].size < Limit /\ Consecutive(poll'[q].lines)
      BY DEF Answers, Consecutive
    <2>1. poll'[q] = poll[q]
      BY <1>4, Idle
    <2> QED BY <1>1, <2>1 DEF Answers
  <1>8. Coverage'
    <2> SUFFICES ASSUME ~stale' PROVE Coverage'
      BY DEF Coverage
    <2>1. cursor' = 0 /\ \A q \in Polls : poll[q].st # "answered"
      BY <1>2
    <2>2. \A q \in Polls : poll'[q] = IdlePoll
      BY <1>4, <2>1
    <2>3. Covered(cursor, {})'
      BY <1>2, <2>1 DEF Covered, Empty, Places
    <2> QED BY <2>2, <2>3, Idle DEF Coverage
  <1> QED BY <1>5, <1>6, <1>7, <1>8 DEF LogInv

-----------------------------------------------------------------------------
(* The theorems.                                                           *)

LEMMA InitInv == Init => LogInv
  <1> SUFFICES ASSUME Init PROVE LogInv
    OBVIOUS
  <1>1. /\ log \in {"console", "events"} /\ ring = [p \in Places |-> Empty] /\ head = 0 /\ next_seq = 1
        /\ poll = [q \in Polls |-> IdlePoll]
        /\ cursor = 0 /\ shown = {} /\ stale = FALSE /\ resets = 0
    BY DEF Init
  <1>2. \A q \in Polls : poll[q] = IdlePoll
    BY <1>1
  <1>3. Types
    <2>1. poll \in [Polls -> PollState]
      BY <1>1, Idle
    <2>2. cursor \in Seqs /\ resets \in 0 .. MaxResets
      BY <1>1 DEF Seqs
    <2> QED BY <1>1, <1>2, <2>1, <2>2, EmptyTyped, Idle DEF Types
  <1>4. InOrder
    <2> SUFFICES ASSUME NEW i \in Places PROVE At(i).seq = Number(i)
      BY DEF InOrder
    <2> QED BY <1>1, EmptyInOrder DEF At, Number
  <1>5. Answers
    BY <1>2, Idle DEF Answers
  <1>6. Covered(cursor, {})
    BY <1>1 DEF Covered, Empty
  <1>7. Coverage
    BY <1>2, <1>6, Idle DEF Coverage
  <1> QED BY <1>3, <1>4, <1>5, <1>7 DEF LogInv

LEMMA StutterKeeps ==
  ASSUME LogInv, UNCHANGED vars
  PROVE  LogInv'
  <1>1. UNCHANGED <<ringVars, pageVars>> /\ poll' = poll /\ resets' = resets
    BY DEF vars
  <1>2. UNCHANGED <<log, ring, head, next_seq, cursor, shown, stale>>
    BY <1>1 DEF ringVars, pageVars
  <1>3. Types'
    BY <1>1, <1>2 DEF LogInv, Types
  <1>4. InOrder'
    BY <1>1, <1>2 DEF LogInv, InOrder, At, Number
  <1>5. Answers'
    BY <1>1, <1>2 DEF LogInv, Answers, Consecutive
  <1>6. Coverage'
    <2>1. ~stale' => Covered(cursor, {})'
      BY <1>1, <1>2, CursorStays
    <2>2. ASSUME ~stale', NEW q \in Polls
          PROVE  /\ poll'[q].st = "asked" => Covered(poll[q].since, {})'
                 /\ poll'[q].st = "answered" => Covered(LastSeq(q), Numbers(poll[q].lines))'
      BY <1>1, <1>2, <2>2, OthersStay
    <2> QED BY <2>1, <2>2 DEF Coverage
  <1> QED BY <1>3, <1>4, <1>5, <1>6 DEF LogInv

(* The inductive invariant of ring, polls and page.                        *)
THEOREM LogInvariant == Spec => []LogInv
  <1>1. ASSUME LogInv, [Next]_vars PROVE LogInv'
    <2>1. CASE PushLine \/ AddEvent
      BY <1>1, <2>1, PutKeeps DEF PushLine, AddEvent
    <2>2. CASE PageLoad
      BY <1>1, <2>2, PageLoadKeeps
    <2>3. CASE Reboot
      BY <1>1, <2>3, RebootKeeps
    <2>4. ASSUME NEW q \in Polls, PollSend(q) PROVE LogInv'
      BY <1>1, <2>4, PollSendKeeps
    <2>5. ASSUME NEW q \in Polls, Serve(q) PROVE LogInv'
      BY <1>1, <2>5, ServeKeeps
    <2>6. ASSUME NEW q \in Polls, PollAnswered(q) PROVE LogInv'
      BY <1>1, <2>6, PollAnsweredKeeps
    <2>7. ASSUME NEW q \in Polls, PollLost(q) PROVE LogInv'
      BY <1>1, <2>7, PollLostKeeps
    <2>8. CASE UNCHANGED vars
      BY <1>1, <2>8, StutterKeeps
    <2> QED BY <1>1, <2>1, <2>2, <2>3, <2>4, <2>5, <2>6, <2>7, <2>8 DEF Next
  <1> QED BY <1>1, InitInv, PTL DEF Spec

(* Whatever lines come, however long they are and wherever a response is   *)
(* cut off, it stays inside its buffer, and its lines are consecutive and, *)
(* but for the text of the last one, whole (console_log.c:134-160,         *)
(* event_log.c:100-142).                                                   *)
THEOREM ResponsesAreSound == Spec => []Safety
  <1>1. LogInv => Safety
    <2> SUFFICES ASSUME LogInv PROVE Safety
      OBVIOUS
    <2>1. Types /\ Answers
      BY DEF LogInv
    <2>2. \A q \in Polls : poll[q] \in PollState
      BY <2>1 DEF Types
    <2>3. TypeOK
      <3>1. \A q \in Polls : /\ poll[q].st \in {"idle", "asked", "answered"}
                             /\ poll[q].since \in Seqs /\ poll[q].size \in 0 .. Limit
                             /\ Len(poll[q].lines) <= RingSize
        BY <2>1, <2>2 DEF Types, PollState
      <3> QED BY <2>1, <3>1 DEF Types, TypeOK
    <2>4. ResponseSound
      BY <2>1 DEF Answers, Consecutive, ResponseSound
    <2> QED BY <2>3, <2>4 DEF Safety
  <1> QED BY <1>1, LogInvariant, PTL

(* The cursor never passes a line that the ring holds and the page was not *)
(* given, whichever responses are cut off, lost or overtaken, unless the   *)
(* page outlives a reboot (console_log.c:128-133, 164-167).                *)
THEOREM NoLineIsSkipped == Spec => []NothingSkipped
  <1>1. LogInv => NothingSkipped
    BY DEF LogInv, Coverage, Covered, NothingSkipped
  <1> QED BY <1>1, LogInvariant, PTL

(* A poll that finds newer lines gets the oldest of them at least, however *)
(* long the lines are: no line can block the log (console_log.c:128-133).  *)
THEOREM CursorGoesOn == Spec => CursorNotBlocked
  <1>1. ASSUME LogInv, [Next]_vars, NEW q \in Polls PROVE GetsOldest(q)
    <2> SUFFICES ASSUME poll[q].st = "asked", poll'[q].st = "answered",
                        \E p \in Places : ring[p].seq > poll[q].since
                 PROVE  /\ poll'[q].lines # <<>>
                        /\ \A p \in Places : ring[p].seq > poll[q].since
                                               => poll'[q].lines[1].seq <= ring[p].seq
      BY DEF GetsOldest
    <2>1. Types /\ InOrder /\ poll[q] \in PollState
      BY <1>1 DEF LogInv, Types
    <2>2. Serve(q)
      <3>1. IdlePoll.st = "idle"
        BY DEF IdlePoll
      <3>2. ~ (PushLine \/ AddEvent)
        BY DEF PushLine, AddEvent, Put
      <3>3. ~ PageLoad /\ ~ Reboot
        BY <3>1 DEF PageLoad, Reboot
      <3>4. \A z \in Polls : ~ PollSend(z)
        BY <2>1 DEF PollSend, IdlePoll, Types
      <3>5. \A z \in Polls : ~ PollAnswered(z) /\ ~ PollLost(z)
        BY <2>1, <3>1 DEF PollAnswered, PollLost, Types
      <3>6. \A z \in Polls : Serve(z) => z = q
        BY <2>1 DEF Serve, Types
      <3>7. ~ UNCHANGED vars
        BY DEF vars
      <3> QED BY <1>1, <3>2, <3>3, <3>4, <3>5, <3>6, <3>7 DEF Next
    <2> DEFINE since == poll[q].since
               r == Dump(since)
    <2>3. since \in Seqs /\ since \in Nat
      BY <2>1 DEF PollState, Seqs
    <2>4. Sound(r, since, RingSize)
      BY <2>1, <2>3, DumpSound
    <2>5. poll' = [poll EXCEPT ![q].st = "answered", ![q].size = r.size, ![q].lines = r.lines]
      BY <2>2 DEF Serve
    <2> HIDE DEF r
    <2>6. poll'[q].lines = r.lines
      BY <2>1, <2>5 DEF Types, PollState
    <2>7. ASSUME NEW p \in Places, ring[p].seq > since
          PROVE  \E j \in 0 .. RingSize - 1 : ring[p].seq = Number(j) /\ Number(j) > since
      BY <2>1, <2>7, RingBelowNext DEF Places
    <2>8. r.lines # <<>>
      <3>1. PICK p \in Places : ring[p].seq > since
        OBVIOUS
      <3>2. PICK j \in 0 .. RingSize - 1 : Number(j) > since
        BY <2>7, <3>1
      <3>3. Number(j) \in Nat
        BY <2>1 DEF Number, Types
      <3> QED BY <2>3, <2>4, <3>2, <3>3 DEF Sound
    <2>9. ASSUME NEW p \in Places, ring[p].seq > since PROVE r.lines[1].seq <= ring[p].seq
      BY <2>4, <2>7, <2>8, <2>9 DEF Sound
    <2> QED BY <2>6, <2>8, <2>9
  <1>2. ASSUME LogInv, [Next]_vars PROVE [\A q \in Polls : GetsOldest(q)]_vars
    BY <1>1, <1>2
  <1> QED BY <1>2, LogInvariant, PTL DEF Spec, CursorNotBlocked

=============================================================================
