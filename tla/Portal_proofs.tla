---------------------------- MODULE Portal_proofs ----------------------------
(***************************************************************************)
(* Proofs about the two halves of the portal page that depend on the order *)
(* in which requests and answers arrive: saving the document (PortalStore) *)
(* and showing the telegrams (Telemetry, in the second part).              *)
(***************************************************************************)
EXTENDS PortalStore, Telemetry, SequenceTheorems, TLAPS

(***************************************************************************)
(* Proofs about saving in the portal page, for any number of edits.        *)
(*                                                                         *)
(* What the page shows cannot be compared with what is stored alone: the   *)
(* invariant also says where the versions in between are.  As long as the  *)
(* page saw no trouble, at most one request is on its way, it belongs to   *)
(* the upload that the page waits for, and it lies between the stored and  *)
(* the shown version (Order); only an open page has a timer, and a page    *)
(* that edits an empty document for want of the stored one has neither     *)
(* timer nor upload (Scene), so that no such edit gets onto the net or     *)
(* into the gateway (Unblind).                                             *)
(***************************************************************************)

Flags ==
  /\ page \in {"closed", "open", "readonly"} /\ reply \in {"none", "ok", "error"}
  /\ timer \in BOOLEAN /\ saving \in BOOLEAN /\ again \in BOOLEAN
  /\ blindly \in BOOLEAN /\ seen \subseteq Troubles

Numbers ==
  /\ mem \in 0 .. edits /\ db \in 0 .. edits /\ edits \in 0 .. MaxEdits
  /\ net \subseteq Requests /\ \A r \in net : r.ver <= edits
  /\ blind \subseteq 1 .. edits

Scene ==
  /\ page = "closed" => ~timer /\ ~saving
  /\ again => saving
  /\ timer => page = "open"
  /\ page = "open" \/ saving => ~blindly

Unblind == BlindNeverSaved /\ (~blindly => mem \notin blind)

Between(r) == db <= r.ver /\ r.ver <= mem

Order ==
  seen = {} => /\ db <= mem
               /\ \A r \in net : r.kind = "post" /\ saving /\ reply = "none" /\ Between(r)
               /\ \A r \in net, s \in net : r = s

(* The inductive invariant. *)
StoreInv == Flags /\ Numbers /\ Scene /\ Unblind /\ Order /\ NothingForgotten

USE EditsAssumption

-----------------------------------------------------------------------------
LEMMA RequestFacts ==
  ASSUME NEW k \in {"post", "beacon", "clear"}, NEW v \in 0 .. MaxEdits
  PROVE  Request(k, v) \in Requests /\ Request(k, v).kind = k /\ Request(k, v).ver = v
  BY DEF Request, Requests

LEMMA VersionOfRequest == \A r \in Requests : r.ver \in 0 .. MaxEdits
  BY DEF Requests

(* A new version is later than all there are, and nobody edited it yet.    *)
LEMMA NewVersionFacts ==
  ASSUME Numbers, NewVersion
  PROVE  /\ edits' = edits + 1 /\ mem' = edits' /\ mem' \in 0 .. MaxEdits
         /\ mem' \notin blind /\ mem' > mem /\ mem' > db
         /\ \A r \in net : r.ver < mem'
  BY VersionOfRequest DEF Numbers, NewVersion

LEMMA FlagsKept == ASSUME Flags, Next PROVE Flags'
  <1> USE DEF Flags, Troubles, storeVars
  <1>1. CASE Load \/ LoadFails
    BY <1>1 DEF Load, LoadFails
  <1>2. CASE Edit
    BY <1>2 DEF Edit
  <1>3. CASE TimerFires \/ Restore
    BY <1>3 DEF TimerFires, Restore, Flush
  <1>4. CASE FlushEnds
    BY <1>4 DEF FlushEnds
  <1>5. CASE Clear \/ Hide
    BY <1>5 DEF Clear, Hide
  <1>6. CASE Leave
    BY <1>6 DEF Leave
  <1>7. ASSUME NEW r \in net, Serve(r) PROVE Flags'
    BY <1>7 DEF Serve, Answered
  <1> QED BY <1>1, <1>2, <1>3, <1>4, <1>5, <1>6, <1>7 DEF Next

LEMMA SceneKept == ASSUME Flags, Scene, Next PROVE Scene'
  <1> USE DEF Flags, Scene, storeVars
  <1>1. CASE Load \/ LoadFails
    BY <1>1 DEF Load, LoadFails
  <1>2. CASE Edit
    BY <1>2 DEF Edit
  <1>3. CASE TimerFires \/ Restore
    BY <1>3 DEF TimerFires, Restore, Flush
  <1>4. CASE FlushEnds
    BY <1>4 DEF FlushEnds
  <1>5. CASE Clear \/ Hide
    BY <1>5 DEF Clear, Hide
  <1>6. CASE Leave
    BY <1>6 DEF Leave
  <1>7. ASSUME NEW r \in net, Serve(r) PROVE Scene'
    BY <1>7 DEF Serve
  <1> QED BY <1>1, <1>2, <1>3, <1>4, <1>5, <1>6, <1>7 DEF Next

(* What can be on the net after a step: what was there, perhaps as a       *)
(* beacon now, and what the page shows, which then was not edited blindly. *)
Known(r) == r \in Requests /\ \/ \E s \in net : r.ver = s.ver
                              \/ r.ver = mem' /\ mem' \notin blind'

LEMMA OldIsKnown == Numbers => \A r \in net : Known(r)
  BY DEF Numbers, Known

LEMMA ShownIsKnown ==
  ASSUME mem' \in 0 .. MaxEdits, mem' \notin blind', NEW k \in {"post", "beacon", "clear"}
  PROVE  Known(Request(k, mem'))
  BY RequestFacts DEF Known

LEMMA NetStep ==
  ASSUME Flags, Numbers, Scene, Unblind, Next
  PROVE  \A r \in net' : Known(r)
  <1> USE OldIsKnown, ShownIsKnown
  <1>1. mem \in 0 .. MaxEdits
    BY DEF Numbers
  <1>2. ~blindly => mem \notin blind
    BY DEF Unblind
  <1>3. CASE Load \/ LoadFails \/ Edit
    BY <1>3 DEF Load, LoadFails, Edit
  <1>4. CASE TimerFires
    <2>1. mem' = mem /\ blind' = blind /\ mem \notin blind
      BY <1>2, <1>4 DEF TimerFires, Scene
    <2>2. net' = net \/ net' = net \cup {Request("post", mem')}
      BY <1>4, <2>1 DEF TimerFires, Flush
    <2> QED BY <1>1, <2>1, <2>2
  <1>5. CASE Restore
    <2>1. mem' \in 0 .. MaxEdits /\ mem' \notin blind'
      BY <1>5, NewVersionFacts DEF Restore
    <2>2. net' = net \/ net' = net \cup {Request("post", mem')}
      BY <1>5 DEF Restore, Flush
    <2> QED BY <2>1, <2>2
  <1>6. CASE FlushEnds
    <2>1. mem' = mem /\ blind' = blind /\ mem \notin blind
      BY <1>2, <1>6 DEF FlushEnds, Scene
    <2>2. net' = net \/ net' = net \cup {Request("post", mem')}
      BY <1>6, <2>1 DEF FlushEnds
    <2> QED BY <1>1, <2>1, <2>2
  <1>7. CASE Clear
    <2>1. mem' \in 0 .. MaxEdits /\ mem' \notin blind'
      BY <1>7, NewVersionFacts DEF Clear
    <2>2. net' = net \cup {Request("clear", mem')}
      BY <1>7 DEF Clear
    <2> QED BY <2>1, <2>2
  <1>8. CASE Hide
    <2>1. mem' = mem /\ blind' = blind /\ (timer => mem \notin blind)
      BY <1>2, <1>8 DEF Hide, Scene
    <2>2. IF timer THEN net' = net \cup {Request("beacon", mem')} ELSE net' = net
      BY <1>8, <2>1 DEF Hide, Beacon
    <2> QED BY <1>1, <2>1, <2>2
  <1>9. CASE Leave
    <2>1. mem' = mem /\ blind' = blind /\ (timer => mem \notin blind)
      BY <1>2, <1>9 DEF Leave, Scene
    <2> DEFINE posts == {r \in net : r.kind = "post"}
               rest(sent) == (net \ posts) \cup {Request("beacon", r.ver) : r \in sent}
    <2>2. PICK sent \in SUBSET posts : Beacon(rest(sent))
      BY <1>9 DEF Leave
    <2> HIDE DEF rest
    <2>3. IF timer THEN net' = rest(sent) \cup {Request("beacon", mem')} ELSE net' = rest(sent)
      BY <2>1, <2>2 DEF Beacon
    <2>4. \A r \in rest(sent) : Known(r)
      <3>1. \A s \in sent : s \in net /\ s.ver \in 0 .. MaxEdits
        BY VersionOfRequest DEF Numbers
      <3>2. \A s \in sent : Known(Request("beacon", s.ver))
        BY <3>1, RequestFacts DEF Known
      <3> QED BY <3>2 DEF rest
    <2>5. timer => Known(Request("beacon", mem'))
      BY <1>1, <2>1
    <2> QED BY <2>3, <2>4, <2>5
  <1>10. ASSUME NEW r \in net, Serve(r) PROVE \A t \in net' : Known(t)
    BY <1>10 DEF Serve
  <1> QED BY <1>3, <1>4, <1>5, <1>6, <1>7, <1>8, <1>9, <1>10 DEF Next

(* How the versions move. *)
LEMMA VersionStep ==
  ASSUME Numbers, Next
  PROVE  /\ \/ edits' = edits /\ mem' \in {mem, db, 0}
            \/ edits' = edits + 1 /\ mem' = edits'
         /\ edits' \in 0 .. MaxEdits
         /\ \/ blind' = blind
            \/ blind' = blind \cup {edits'} /\ edits' = edits + 1
  <1> USE DEF Numbers
  <1>1. CASE Edit \/ Restore \/ Clear
    BY <1>1, NewVersionFacts DEF Edit, Restore, Clear
  <1>2. CASE Load \/ LoadFails \/ TimerFires \/ FlushEnds \/ Hide \/ Leave
    <2>1. edits' = edits /\ blind' = blind
      BY <1>2 DEF Load, LoadFails, TimerFires, FlushEnds, Hide, Leave
    <2>2. mem' \in {mem, db, 0}
      BY <1>2 DEF Load, LoadFails, TimerFires, FlushEnds, Hide, Leave
    <2>3. edits' \in 0 .. MaxEdits
      BY <2>1
    <2> QED BY <2>1, <2>2, <2>3
  <1>3. ASSUME NEW r \in net, Serve(r) PROVE edits' = edits /\ mem' = mem /\ blind' = blind
    BY <1>3 DEF Serve
  <1>4. CASE edits' = edits /\ mem' = mem /\ blind' = blind
    <2>1. edits' \in 0 .. MaxEdits
      BY <1>4
    <2> QED BY <1>4, <2>1
  <1> QED BY <1>1, <1>2, <1>3, <1>4 DEF Next

(* Only the gateway changes what is stored, to what a request brings. *)
LEMMA StoredStep == Next => db' = db \/ \E r \in net : Serve(r) /\ db' = r.ver
  <1>1. CASE Load \/ LoadFails \/ Edit \/ TimerFires \/ Restore \/ FlushEnds \/ Clear \/ Hide \/ Leave
    BY <1>1 DEF Load, LoadFails, Edit, TimerFires, Restore, FlushEnds, Clear, Hide, Leave
  <1>2. ASSUME NEW r \in net, Serve(r) PROVE db' = db \/ db' = r.ver
    BY <1>2 DEF Serve
  <1> QED BY <1>1, <1>2 DEF Next

LEMMA NumbersKept ==
  ASSUME Flags, Numbers, Scene, Unblind, Next PROVE Numbers'
  <1>1. edits <= edits' /\ edits' \in 0 .. MaxEdits /\ mem' \in 0 .. edits'
    BY VersionStep DEF Numbers
  <1>2. db' \in 0 .. edits'
    BY <1>1, StoredStep, VersionOfRequest DEF Numbers
  <1>3. blind' \subseteq 1 .. edits'
    <2>1. \A v \in blind' : v \in blind \/ (v = edits' /\ edits' = edits + 1)
      BY VersionStep
    <2>2. edits \in Nat /\ edits' \in Nat /\ edits <= edits'
      BY <1>1 DEF Numbers
    <2>3. ASSUME NEW v \in blind' PROVE v \in 1 .. edits'
      <3>1. CASE v \in blind
        <4>1. v \in 1 .. edits
          BY <3>1 DEF Numbers
        <4> QED BY <2>2, <4>1
      <3>2. CASE v = edits' /\ edits' = edits + 1
        BY <2>2, <3>2
      <3> QED BY <2>1, <2>3, <3>1, <3>2
    <2> QED BY <2>3
  <1>4. net' \subseteq Requests /\ \A r \in net' : r.ver <= edits'
    BY <1>1, NetStep, VersionOfRequest DEF Numbers, Known
  <1> QED BY <1>1, <1>2, <1>3, <1>4 DEF Numbers

LEMMA UnblindKept ==
  ASSUME Flags, Numbers, Scene, Unblind, Next PROVE Unblind'
  <1>1. \A v \in 0 .. edits : v \notin blind => v \notin blind'
    BY VersionStep DEF Numbers
  <1>2. db' \notin blind'
    BY <1>1, StoredStep, VersionOfRequest DEF Numbers, Unblind, BlindNeverSaved
  <1>3. \A r \in net' : r.ver \notin blind'
    BY <1>1, NetStep, VersionOfRequest DEF Known, Numbers, Unblind, BlindNeverSaved
  <1>4. ~blindly' => mem' \notin blind'
    <2>1. CASE Load \/ LoadFails
      BY <2>1 DEF Load, LoadFails, Unblind, BlindNeverSaved
    <2>2. CASE Edit
      BY <2>2, NewVersionFacts DEF Edit
    <2>3. CASE Restore \/ Clear
      BY <2>3, NewVersionFacts DEF Restore, Clear
    <2>4. CASE TimerFires \/ FlushEnds \/ Hide \/ Leave
      BY <2>4 DEF TimerFires, FlushEnds, Hide, Leave, Unblind
    <2>5. ASSUME NEW r \in net, Serve(r) PROVE ~blindly' => mem' \notin blind'
      BY <2>5 DEF Serve, Unblind
    <2> QED BY <2>1, <2>2, <2>3, <2>4, <2>5 DEF Next
  <1> QED BY <1>2, <1>3, <1>4 DEF Unblind, BlindNeverSaved

-----------------------------------------------------------------------------
(* A page without trouble: Order and NothingForgotten.                     *)

(* Trouble is remembered until the page is loaded anew, and then only      *)
(* requests on their way can be trouble.                                   *)
LEMMA CalmStep ==
  ASSUME Flags, Next, seen' = {}
  PROVE  \/ Load /\ net = {}
         \/ /\ seen = {}
            /\ \/ Edit \/ TimerFires \/ Restore \/ FlushEnds
               \/ \E r \in net : Serve(r) /\ db' = r.ver /\ reply' = Answered(r, "ok")
  <1>1. CASE Load
    BY <1>1 DEF Load
  <1>2. CASE LoadFails \/ Clear \/ Hide \/ Leave
    BY <1>2 DEF LoadFails, Clear, Hide, Leave
  <1>3. CASE Edit \/ TimerFires \/ Restore \/ FlushEnds
    BY <1>3 DEF Edit, TimerFires, Restore, FlushEnds
  <1>4. ASSUME NEW r \in net, Serve(r)
        PROVE  seen = {} /\ db' = r.ver /\ reply' = Answered(r, "ok")
    BY <1>4 DEF Serve
  <1> QED BY <1>1, <1>2, <1>3, <1>4 DEF Next

LEMMA CalmKept ==
  ASSUME StoreInv, Next, seen' = {}
  PROVE  Order' /\ NothingForgotten'
  <1> USE DEF StoreInv
  <1> DEFINE post == Request("post", mem')
  <1>0. /\ mem \in Int /\ db \in Int /\ \A r \in net : r.ver \in Int
    BY VersionOfRequest DEF Numbers
  <1>1. CASE Load /\ net = {}
    <2>1. net' = {} /\ mem' = db /\ db' = db
      BY <1>1 DEF Load
    <2> QED BY <2>1, <1>0 DEF Order, NothingForgotten
  <1>2. CASE seen = {} /\ Edit
    <2>1. mem' \in Int /\ mem' > mem /\ UNCHANGED <<page, saving, again, reply, net, db>>
      BY <1>2, NewVersionFacts DEF Edit
    <2>2. page' = "open" => timer'
      BY <1>2 DEF Edit
    <2>3. Order'
      BY <1>0, <1>2, <2>1 DEF Order, Between
    <2> QED BY <2>2, <2>3 DEF NothingForgotten
  <1>3. ASSUME seen = {}, Flush(mem'), UNCHANGED db, mem' \in 0 .. MaxEdits, mem' >= mem
        PROVE  Order' /\ NothingForgotten'
    <2>1. CASE saving
      <3>1. again' = TRUE /\ UNCHANGED <<saving, reply, net>>
        BY <1>3, <2>1 DEF Flush
      <3>2. Order'
        BY <1>0, <1>3, <3>1 DEF Order, Between
      <3> QED BY <2>1, <3>1, <3>2 DEF NothingForgotten
    <2>2. CASE ~saving
      <3>1. net = {}
        BY <1>3, <2>2 DEF Order
      <3>2. saving' = TRUE /\ reply' = "none" /\ net' = {post}
        BY <1>3, <2>2, <3>1 DEF Flush
      <3>3. post.kind = "post" /\ post.ver = mem'
        BY <1>3, RequestFacts
      <3> HIDE DEF post
      <3>4. Order'
        BY <1>0, <1>3, <3>2, <3>3 DEF Order, Between
      <3>5. NothingForgotten'
        BY <3>2 DEF NothingForgotten, post
      <3> QED BY <3>4, <3>5
    <2> QED BY <2>1, <2>2
  <1>4. CASE seen = {} /\ TimerFires
    <2>1. mem' = mem /\ db' = db /\ Flush(mem')
      BY <1>4 DEF TimerFires
    <2> QED BY <1>3, <1>4, <2>1 DEF Numbers
  <1>5. CASE seen = {} /\ Restore
    <2>1. mem' \in 0 .. MaxEdits /\ mem' > mem /\ db' = db /\ Flush(mem')
      BY <1>5, NewVersionFacts DEF Restore
    <2> QED BY <1>0, <1>3, <1>5, <2>1
  <1>6. CASE seen = {} /\ FlushEnds
    <2>1. net = {} /\ reply' = "none" /\ UNCHANGED <<page, mem, db>>
      BY <1>6 DEF FlushEnds, Order
    <2>2. mem' \in 0 .. MaxEdits /\ post.kind = "post" /\ post.ver = mem'
      BY <2>1, RequestFacts DEF Numbers
    <2>3. CASE again
      <3>1. saving' /\ net' = {post}
        BY <1>6, <2>1, <2>3 DEF FlushEnds, Flags
      <3> HIDE DEF post
      <3>2. Order'
        BY <1>0, <1>6, <2>1, <2>2, <3>1 DEF Order, Between
      <3>3. NothingForgotten'
        BY <3>1 DEF NothingForgotten, post
      <3> QED BY <3>2, <3>3
    <2>4. CASE ~again
      <3>1. net' = {} /\ timer' = timer
        BY <1>6, <2>1, <2>4 DEF FlushEnds
      <3>2. Order'
        BY <1>6, <2>1, <3>1 DEF Order
      <3>3. NothingForgotten'
        BY <1>6, <2>1, <2>4, <3>1 DEF NothingForgotten
      <3> QED BY <3>2, <3>3
    <2> QED BY <2>3, <2>4
  <1>7. ASSUME seen = {}, NEW r \in net, Serve(r), db' = r.ver, reply' = Answered(r, "ok")
        PROVE  Order' /\ NothingForgotten'
    <2>1. net = {r} /\ r.ver <= mem /\ r.kind = "post" /\ saving
      BY <1>7 DEF Order, Between
    <2>2. net' = {} /\ UNCHANGED <<page, mem, timer, saving, again>>
      BY <1>7, <2>1 DEF Serve
    <2>3. Order'
      BY <1>7, <2>1, <2>2 DEF Order
    <2>4. NothingForgotten'
      <3>1. CASE mem = db
        BY <1>0, <1>7, <2>1, <2>2, <3>1 DEF NothingForgotten, Order, Between
      <3>2. CASE Request("post", mem) = r
        <4>1. r.ver = mem
          BY <3>2, RequestFacts DEF Numbers
        <4> QED BY <1>7, <2>2, <4>1 DEF NothingForgotten
      <3>3. CASE Request("post", mem) # r /\ mem # db
        BY <1>7, <2>1, <2>2, <3>3 DEF NothingForgotten
      <3> QED BY <3>1, <3>2, <3>3
    <2> QED BY <2>3, <2>4
  <1> QED BY CalmStep, <1>1, <1>2, <1>4, <1>5, <1>6, <1>7

LEMMA TroubledKept == seen' # {} => Order' /\ NothingForgotten'
  BY DEF Order, NothingForgotten

LEMMA InitInv == Init => StoreInv
  <1> SUFFICES ASSUME Init PROVE StoreInv
    OBVIOUS
  <1>1. Flags /\ Scene
    BY DEF Init, Flags, Scene
  <1>2. Numbers
    BY DEF Init, Numbers
  <1>3. Unblind
    BY DEF Init, Unblind, BlindNeverSaved
  <1>4. Order /\ NothingForgotten
    BY DEF Init, Order, NothingForgotten
  <1> QED BY <1>1, <1>2, <1>3, <1>4 DEF StoreInv

LEMMA StepKeepsInv == StoreInv /\ [Next]_vars => StoreInv'
  <1> SUFFICES ASSUME StoreInv, [Next]_vars PROVE StoreInv'
    OBVIOUS
  <1>1. CASE Next
    BY <1>1, FlagsKept, NumbersKept, SceneKept, UnblindKept, CalmKept, TroubledKept DEF StoreInv
  <1>2. CASE UNCHANGED vars
    BY <1>2 DEF vars, storeVars, StoreInv, Flags, Numbers, Scene, Unblind, BlindNeverSaved, Order,
                Between, NothingForgotten
  <1> QED BY <1>1, <1>2

(* The invariant holds for any number of edits, and whatever is hidden,    *)
(* left, cleared, restored, lost or overtaken.                             *)
THEOREM StoreInvariant == Spec => []StoreInv
  <1>1. Init => StoreInv
    BY InitInv
  <1>2. StoreInv /\ [Next]_vars => StoreInv'
    BY StepKeepsInv
  <1> QED BY <1>1, <1>2, PTL DEF Spec

(* Types; and no edit of the empty document that a failed load leaves ever *)
(* reaches the gateway (eo/app.ts:55-64).                                  *)
THEOREM BlindEditsStay == Spec => []Safety
  <1>1. StoreInv => TypeOK
    BY DEF StoreInv, Flags, Numbers, Scene, TypeOK
  <1>2. StoreInv => BlindNeverSaved
    BY DEF StoreInv, Unblind
  <1> QED BY <1>1, <1>2, StoreInvariant, PTL DEF Safety

(* What an open page shows is stored or under way, as long as it stayed in *)
(* front, nothing failed and nobody deleted everything (model.ts:301-343). *)
THEOREM NothingIsForgotten == Spec => []NothingForgotten
  <1>1. StoreInv => NothingForgotten
    BY DEF StoreInv
  <1> QED BY <1>1, StoreInvariant, PTL

(* Under the same conditions what is stored never goes back to an older    *)
(* version, although uploads and edits overlap (model.ts:315-320).         *)
THEOREM NeverRollsBack == Spec => NoRollback
  <1>1. StoreInv /\ [Next]_vars => (seen = {} /\ seen' = {} => db' >= db)
    <2> SUFFICES ASSUME StoreInv, [Next]_vars, seen = {} PROVE db' >= db
      OBVIOUS
    <2>1. db \in Int
      BY DEF StoreInv, Numbers
    <2>2. \A r \in net : r.ver >= db
      BY <2>1, VersionOfRequest DEF StoreInv, Numbers, Order, Between
    <2>3. CASE Next
      BY <2>1, <2>2, <2>3, StoredStep
    <2>4. CASE UNCHANGED vars
      BY <2>1, <2>4 DEF vars
    <2> QED BY <2>3, <2>4
  <1> QED BY <1>1, StoreInvariant, PTL DEF Spec, NoRollback

-----------------------------------------------------------------------------
(***************************************************************************)
(* Proofs about the telegram ring, for any size, and any number of polls,  *)
(* telegrams and reboots.                                                  *)
(*                                                                         *)
(* Each place is read once in a dump.  What was emitted is not in the ring *)
(* at a place still to be read (Emitted), and what was in the ring when    *)
(* the dump began and still is at a place that was read, was emitted       *)
(* (Collected).  Hence, after at most one put, an answer has everything    *)
(* between its poll's argument and its own last entry that the ring holds, *)
(* and so does the page up to its cursor (Shown).                          *)
(***************************************************************************)

Seen     == 1 .. MaxSeq
DumpState == [head : Places, i : 0 .. RingSize, since : Seqs, out : Seq(Seen)]
PollState == [st : {"idle", "asked", "served", "answered"}, since : Seqs, out : Seq(Seen)]

RingTypes ==
  /\ ring \in [Places -> Seqs] /\ head \in Places /\ next_seq \in 1 .. MaxSeq + 1
  /\ httpd \in Polls \cup {None} /\ dump \in DumpState /\ Len(dump.out) <= dump.i
  /\ puts \in Nat /\ puts < next_seq /\ burst \in BOOLEAN
  /\ poll \in [Polls -> PollState]
  /\ telSeq \in Seqs /\ shown \subseteq 1 .. MaxSeq
  /\ stale \in BOOLEAN /\ reboots \in 0 .. MaxReboots

(* No telegram is in the ring twice.                                       *)
Distinct ==
  /\ \A p \in Places : ring[p] < next_seq
  /\ \A p \in Places, z \in Places : ring[p] = ring[z] /\ ring[p] # 0 => p = z

(* The place that the dump reads as its j-th.                              *)
ReadPlace(j) == (dump.head + j) % RingSize

Emitted ==
  \A e \in Emits(dump.out) :
    e < next_seq /\ \A p \in Places : ring[p] = e => \E j \in 0 .. dump.i - 1 : p = ReadPlace(j)

Collected ==
  \A j \in 0 .. dump.i - 1 :
    LET e == ring[ReadPlace(j)] IN e > dump.since /\ e < next_seq - puts => e \in Emits(dump.out)

(* The dump under way, and the poll it serves.                             *)
Serving ==
  /\ httpd = None => dump = NoDump /\ puts = 0
  /\ puts > 1 => burst
  /\ \A q \in Polls : poll[q].st = "served" => httpd = q /\ dump.since = poll[q].since

(* Of the telegrams up to n the page has, or gets with those in new, all   *)
(* that are still in the ring.                                             *)
Shown(n, new) ==
  n < next_seq /\ \A p \in Places : ring[p] # 0 /\ ring[p] <= n => ring[p] \in shown \cup new

AnswerShown(l) == l # <<>> => Shown(l[Len(l)], Emits(l))

PageCovered ==
  ~stale /\ ~burst =>
    /\ Shown(telSeq, {})
    /\ \A q \in Polls : poll[q].st \in {"asked", "served"} => Shown(poll[q].since, {})
    /\ \A q \in Polls : poll[q].st = "answered" => AnswerShown(poll[q].out)

DumpInv == Emitted /\ DumpOnce /\ Collected

(* The inductive invariant.                                                *)
RingInv == RingTypes /\ Distinct /\ DumpInv /\ Serving /\ PageCovered

USE RingSizeAssumption, NoneAssumption, BoundsAssumption

-----------------------------------------------------------------------------
LEMMA WrapsAround ==
  ASSUME NEW a \in 0 .. 2 * RingSize - 1
  PROVE  a % RingSize = IF a < RingSize THEN a ELSE a - RingSize
  OBVIOUS

(* A dump reads every place once.                                          *)
LEMMA ReadPlaces ==
  ASSUME NEW h \in Places
  PROVE  /\ \A j \in Places : (h + j) % RingSize \in Places
         /\ \A j \in Places, k \in Places : (h + j) % RingSize = (h + k) % RingSize => j = k
         /\ \A p \in Places : \E j \in Places : p = (h + j) % RingSize
  <1>1. \A j \in Places : h + j \in 0 .. 2 * RingSize - 1
    BY DEF Places
  <1>2. ASSUME NEW j \in Places
        PROVE  (h + j) % RingSize = IF h + j < RingSize THEN h + j ELSE h + j - RingSize
    <2>1. PICK a \in 0 .. 2 * RingSize - 1 : a = h + j
      BY <1>1
    <2>2. a % RingSize = IF a < RingSize THEN a ELSE a - RingSize
      BY WrapsAround
    <2> QED BY <2>1, <2>2 DEF Places
  <1>3. \A j \in Places : (h + j) % RingSize \in Places
    BY <1>2 DEF Places
  <1>4. ASSUME NEW j \in Places, NEW k \in Places, (h + j) % RingSize = (h + k) % RingSize
        PROVE  j = k
    <2>1. j \in Nat /\ k \in Nat /\ h \in Nat /\ j < RingSize /\ k < RingSize
      BY DEF Places
    <2> QED BY <1>2, <1>4, <2>1
  <1>5. ASSUME NEW p \in Places PROVE \E j \in Places : p = (h + j) % RingSize
    <2>1. CASE p >= h
      <3>1. p - h \in Places /\ h + (p - h) < RingSize /\ h + (p - h) = p
        BY <2>1 DEF Places
      <3>2. (h + (p - h)) % RingSize = p
        BY <1>2, <3>1
      <3> QED BY <3>1, <3>2
    <2>2. CASE p < h
      <3>1. p - h + RingSize \in Places /\ h + (p - h + RingSize) = p + RingSize
        BY <2>2 DEF Places
      <3>2. p \in Nat /\ ~(p + RingSize < RingSize) /\ p + RingSize - RingSize = p
        BY DEF Places
      <3>3. (h + (p - h + RingSize)) % RingSize = p
        BY <1>2, <3>1, <3>2
      <3> QED BY <3>1, <3>3
    <2> QED BY <2>1, <2>2 DEF Places
  <1> QED BY <1>3, <1>4, <1>5

LEMMA EmitsAppend ==
  ASSUME NEW S, NEW l \in Seq(S), NEW x \in S
  PROVE  /\ Emits(Append(l, x)) = Emits(l) \cup {x} /\ Append(l, x) \in Seq(S)
         /\ Len(Append(l, x)) = Len(l) + 1 /\ Len(l) \in Nat
         /\ DOMAIN l = 1 .. Len(l) /\ DOMAIN Append(l, x) = 1 .. Len(l) + 1
         /\ \A k \in DOMAIN l : Append(l, x)[k] = l[k]
         /\ Append(l, x)[Len(l) + 1] = x
  <1>1. /\ Append(l, x) \in Seq(S) /\ Len(Append(l, x)) = Len(l) + 1 /\ Len(l) \in Nat
        /\ DOMAIN l = 1 .. Len(l) /\ DOMAIN Append(l, x) = 1 .. Len(l) + 1
        /\ \A k \in DOMAIN l : Append(l, x)[k] = l[k]
        /\ Append(l, x)[Len(l) + 1] = x
    BY AppendProperties, LenProperties
  <1>2. 1 .. Len(l) + 1 = 1 .. Len(l) \cup {Len(l) + 1}
    BY <1>1
  <1>3. Emits(Append(l, x)) = Emits(l) \cup {x}
    BY <1>1, <1>2 DEF Emits
  <1> QED BY <1>1, <1>3

LEMMA NoneEmitted == Emits(<<>>) = {} /\ NoDump \in DumpState /\ IdlePoll \in PollState
  <1>1. <<>> \in Seq(Seen)
    OBVIOUS
  <1>2. 0 \in Places /\ 0 \in Seqs /\ 0 \in 0 .. RingSize
    BY DEF Places, Seqs
  <1> QED BY <1>1, <1>2 DEF Emits, NoDump, IdlePoll, DumpState, PollState

LEMMA NoDumpInv ==
  ASSUME dump = NoDump
  PROVE  DumpInv
  <1>1. dump.out = <<>> /\ dump.i = 0
    BY DEF NoDump
  <1>2. DOMAIN dump.out = {}
    BY <1>1
  <1> QED BY <1>1, <1>2, NoneEmitted DEF DumpInv, Emitted, DumpOnce, Collected

(* The last of a list is in it.                                            *)
LEMMA LastEmitted ==
  ASSUME NEW l \in Seq(Seen), l # <<>>
  PROVE  l[Len(l)] \in Emits(l) /\ Emits(l) \subseteq Seen
  <1>1. Len(l) \in DOMAIN l
    BY EmptySeq, LenProperties
  <1>2. \A k \in DOMAIN l : l[k] \in Seen
    OBVIOUS
  <1> QED BY <1>1, <1>2 DEF Emits

-----------------------------------------------------------------------------
(* Steps of the dump and of the ring.                                      *)

LEMMA RingPutKeeps ==
  ASSUME RingInv, Put
  PROVE  RingInv'
  <1>1. RingTypes /\ Distinct /\ DumpInv /\ Serving /\ PageCovered
    BY DEF RingInv
  <1>2. /\ ring' = [ring EXCEPT ![head] = next_seq] /\ next_seq' = next_seq + 1
        /\ head' = (head + 1) % RingSize /\ next_seq <= MaxSeq
        /\ puts' = (IF httpd # None THEN puts + 1 ELSE puts) /\ burst' = (burst \/ puts' > 1)
        /\ httpd' = httpd /\ dump' = dump /\ poll' = poll /\ reboots' = reboots
        /\ telSeq' = telSeq /\ shown' = shown /\ stale' = stale
    BY DEF Put, browserVars
  <1>3. head \in Places /\ next_seq \in Nat /\ next_seq \in 1 .. MaxSeq /\ puts \in Nat
    BY <1>1, <1>2 DEF RingTypes
  <1>4. /\ ring'[head] = next_seq
        /\ \A p \in Places : p # head => ring'[p] = ring[p]
        /\ \A p \in Places : ring[p] < next_seq /\ ring[p] \in Nat
    BY <1>1, <1>2, <1>3 DEF RingTypes, Distinct, Seqs
  <1>5. RingTypes'
    <2>1. head' \in Places
      <3>1. head + 1 \in 0 .. 2 * RingSize - 1 /\ head \in Nat /\ head < RingSize
        BY <1>3 DEF Places
      <3>2. PICK a \in 0 .. 2 * RingSize - 1 : a = head + 1
        BY <3>1
      <3>3. head' = IF a < RingSize THEN a ELSE a - RingSize
        BY <1>2, <3>2, WrapsAround
      <3> QED BY <3>1, <3>2, <3>3 DEF Places
    <2>2. ring' \in [Places -> Seqs]
      BY <1>1, <1>2, <1>3 DEF RingTypes, Seqs
    <2>3. next_seq' \in 1 .. MaxSeq + 1 /\ puts' \in Nat /\ puts' < next_seq'
      BY <1>1, <1>2, <1>3 DEF RingTypes
    <2>4. burst' \in BOOLEAN
      BY <1>1, <1>2 DEF RingTypes
    <2> QED BY <1>1, <1>2, <2>1, <2>2, <2>3, <2>4 DEF RingTypes
  <1>6. Distinct'
    <2>1. ASSUME NEW p \in Places PROVE ring'[p] < next_seq'
      BY <1>2, <1>3, <1>4
    <2>2. ASSUME NEW p \in Places, NEW z \in Places, ring'[p] = ring'[z], ring'[p] # 0
          PROVE  p = z
      <3>1. CASE p = head \/ z = head
        BY <1>3, <1>4, <2>2, <3>1
      <3>2. CASE p # head /\ z # head
        BY <1>1, <1>4, <2>2, <3>2 DEF Distinct
      <3> QED BY <3>1, <3>2
    <2> QED BY <2>1, <2>2 DEF Distinct, Places
  <1>7. Emitted'
    <2> SUFFICES ASSUME NEW e \in Emits(dump.out)
                 PROVE  /\ e < next_seq'
                        /\ \A p \in Places : ring'[p] = e
                              => \E j \in 0 .. dump.i - 1 : p = ReadPlace(j)
      BY <1>2 DEF Emitted, Places, ReadPlace
    <2>1. /\ e < next_seq
          /\ \A p \in Places : ring[p] = e => \E j \in 0 .. dump.i - 1 : p = ReadPlace(j)
      BY <1>1 DEF DumpInv, Emitted
    <2>2. e \in Nat
      <3>1. dump.out \in Seq(Seen)
        BY <1>1 DEF RingTypes, DumpState
      <3>2. \A k \in DOMAIN dump.out : dump.out[k] \in Seen
        BY <3>1
      <3> QED BY <3>2 DEF Emits, Seen
    <2>3. \A p \in Places : ring'[p] = e => ring[p] = e
      BY <1>3, <1>4, <2>1, <2>2
    <2> QED BY <1>2, <1>3, <2>1, <2>2, <2>3
  <1>8. DumpOnce'
    BY <1>1, <1>2 DEF DumpInv, DumpOnce
  <1>9. Collected'
    <2> SUFFICES ASSUME NEW j \in 0 .. dump.i - 1, NEW p, p = ReadPlace(j),
                        ring'[p] > dump.since, ring'[p] < next_seq' - puts'
                 PROVE  ring'[p] \in Emits(dump.out)
      <3>1. \A j : ReadPlace(j)' = ReadPlace(j)
        BY <1>2 DEF ReadPlace
      <3> QED BY <1>2, <3>1 DEF Collected
    <2>1. httpd # None
      BY <1>1 DEF Serving, NoDump
    <2>2. next_seq' - puts' = next_seq - puts
      BY <1>2, <1>3, <2>1
    <2>3. p \in Places
      <3>1. dump.head \in Places /\ dump.i \in 0 .. RingSize
        BY <1>1 DEF RingTypes, DumpState
      <3>2. j \in Places
        BY <3>1 DEF Places
      <3> QED BY <3>1, <3>2, ReadPlaces DEF ReadPlace
    <2>4. p # head
      BY <1>3, <1>4, <2>2
    <2>5. ring'[p] = ring[p]
      BY <1>4, <2>3, <2>4
    <2> QED BY <1>1, <2>2, <2>5 DEF DumpInv, Collected
  <1>10. Serving'
    <2>1. httpd' = None => dump' = NoDump /\ puts' = 0
      BY <1>1, <1>2 DEF Serving
    <2>2. \A q \in Polls : poll'[q].st = "served" => httpd' = q /\ dump'.since = poll'[q].since
      BY <1>1, <1>2 DEF Serving
    <2>3. puts' > 1 => burst'
      BY <1>2
    <2> QED BY <2>1, <2>2, <2>3 DEF Serving
  <1>11. ASSUME NEW n \in Seqs, NEW new, Shown(n, new) PROVE Shown(n, new)'
    <2>1. n < next_seq' /\ n < next_seq
      BY <1>2, <1>3, <1>11 DEF Shown, Seqs
    <2>2. ASSUME NEW p \in Places, ring'[p] # 0, ring'[p] <= n PROVE ring'[p] \in shown' \cup new
      <3>1. p # head
        BY <1>3, <1>4, <2>1, <2>2 DEF Seqs
      <3> QED BY <1>2, <1>4, <1>11, <2>2, <3>1 DEF Shown
    <2> QED BY <2>1, <2>2 DEF Shown, Places
  <1>12. PageCovered'
    <2> SUFFICES ASSUME ~stale, ~burst
                 PROVE  /\ Shown(telSeq, {})'
                        /\ \A q \in Polls : poll'[q].st \in {"asked", "served"} => Shown(poll[q].since, {})'
                        /\ \A q \in Polls : poll'[q].st = "answered" => AnswerShown(poll[q].out)'
      BY <1>2 DEF PageCovered
    <2>1. Shown(telSeq, {})'
      <3>1. PICK c \in Seqs : c = telSeq
        BY <1>1 DEF RingTypes
      <3>2. Shown(c, {})'
        BY <1>1, <1>11, <3>1 DEF PageCovered
      <3> QED BY <1>2, <3>1, <3>2
    <2>2. ASSUME NEW q \in Polls, poll'[q].st \in {"asked", "served"} PROVE Shown(poll[q].since, {})'
      <3>1. PICK c \in Seqs : c = poll[q].since
        BY <1>1 DEF RingTypes, PollState
      <3>2. Shown(c, {})'
        BY <1>1, <1>2, <1>11, <2>2, <3>1 DEF PageCovered
      <3>3. poll'[q].since = c
        BY <1>2, <3>1
      <3> QED BY <3>2, <3>3
    <2>3. ASSUME NEW q \in Polls, poll'[q].st = "answered" PROVE AnswerShown(poll[q].out)'
      <3>1. PICK l \in Seq(Seen) : l = poll[q].out
        BY <1>1 DEF RingTypes, PollState
      <3>2. AnswerShown(l)
        BY <1>1, <1>2, <2>3, <3>1 DEF PageCovered
      <3>3. AnswerShown(l)'
        <4> SUFFICES ASSUME l # <<>> PROVE Shown(l[Len(l)], Emits(l))'
          BY DEF AnswerShown
        <4>1. PICK c, new : c = l[Len(l)] /\ new = Emits(l)
          OBVIOUS
        <4>2. c \in Seqs
          BY <4>1, LastEmitted DEF Seen, Seqs
        <4>3. Shown(c, new)
          BY <3>2, <4>1 DEF AnswerShown
        <4>4. Shown(c, new)'
          BY <1>11, <4>2, <4>3
        <4> QED BY <4>1, <4>4
      <3>4. poll'[q].out = l
        BY <1>2, <3>1
      <3> QED BY <3>3, <3>4
    <2> QED BY <2>1, <2>2, <2>3
  <1> QED BY <1>5, <1>6, <1>7, <1>8, <1>9, <1>10, <1>12 DEF RingInv, DumpInv

(* What the page has is not touched by steps that leave ring and page.     *)
LEMMA ShownStays ==
  ASSUME NEW n, NEW new, Shown(n, new), ring' = ring, next_seq' = next_seq, shown \subseteq shown'
  PROVE  Shown(n, new)'
  BY DEF Shown, Places

LEMMA PageCoveredStays ==
  ASSUME RingTypes, PageCovered, ring' = ring, next_seq' = next_seq, shown' = shown, telSeq' = telSeq,
         stale' = stale, burst' = burst,
         \A q \in Polls :
           /\ poll'[q].st \in {"asked", "served"} =>
                /\ poll[q].st \in {"asked", "served"} /\ poll'[q].since = poll[q].since
                \/ poll'[q].since = telSeq
           /\ poll'[q].st = "answered" =>
                \/ poll[q].st = "answered" /\ poll'[q].out = poll[q].out
                \/ ~stale /\ ~burst => AnswerShown(poll[q].out)'
  PROVE  PageCovered'
  <1> SUFFICES ASSUME ~stale, ~burst
               PROVE  /\ Shown(telSeq, {})'
                      /\ \A q \in Polls : poll'[q].st \in {"asked", "served"} => Shown(poll[q].since, {})'
                      /\ \A q \in Polls : poll'[q].st = "answered" => AnswerShown(poll[q].out)'
    BY DEF PageCovered
  <1>1. PICK t : t = telSeq
    OBVIOUS
  <1>2. Shown(t, {})'
    BY <1>1, ShownStays DEF PageCovered
  <1>3. Shown(telSeq, {})'
    BY <1>1, <1>2
  <1>4. ASSUME NEW q \in Polls, poll'[q].st \in {"asked", "served"} PROVE Shown(poll[q].since, {})'
    <2>1. CASE poll'[q].since = telSeq
      <3>1. poll'[q].since = t
        BY <1>1, <2>1
      <3> QED BY <1>2, <3>1
    <2>2. CASE poll[q].st \in {"asked", "served"} /\ poll'[q].since = poll[q].since
      <3>1. PICK c : c = poll[q].since
        OBVIOUS
      <3>2. Shown(c, {})'
        BY <2>2, <3>1, ShownStays DEF PageCovered
      <3>3. poll'[q].since = c
        BY <2>2, <3>1
      <3> QED BY <3>2, <3>3
    <2> QED BY <1>4, <2>1, <2>2
  <1>5. ASSUME NEW q \in Polls, poll'[q].st = "answered" PROVE AnswerShown(poll[q].out)'
    <2>1. CASE poll[q].st = "answered" /\ poll'[q].out = poll[q].out
      <3>1. PICK l : l = poll[q].out
        OBVIOUS
      <3>2. AnswerShown(l)
        BY <2>1, <3>1 DEF PageCovered
      <3>3. PICK c, new : c = l[Len(l)] /\ new = Emits(l)
        OBVIOUS
      <3>4. l # <<>> => Shown(c, new)'
        BY <3>2, <3>3, ShownStays DEF AnswerShown
      <3>5. AnswerShown(l)'
        BY <3>3, <3>4 DEF AnswerShown
      <3>6. poll'[q].out = l
        BY <2>1, <3>1
      <3> QED BY <3>5, <3>6
    <2>2. CASE AnswerShown(poll[q].out)'
      BY <2>2
    <2> QED BY <1>5, <2>1, <2>2
  <1> QED BY <1>3, <1>4, <1>5

LEMMA FreshDump ==
  ASSUME dump' = NoDump
  PROVE  DumpInv'
  <1>1. dump'.out = <<>> /\ dump'.i = 0
    BY DEF NoDump
  <1>2. DOMAIN dump'.out = {}
    BY <1>1
  <1> QED BY <1>1, <1>2, NoneEmitted DEF DumpInv, Emitted, DumpOnce, Collected

LEMMA DumpStays ==
  ASSUME DumpInv, UNCHANGED <<ringVars, httpdVars>>
  PROVE  DumpInv'
  <1>1. ring' = ring /\ next_seq' = next_seq /\ dump' = dump /\ puts' = puts
    BY DEF ringVars, httpdVars
  <1> QED BY <1>1 DEF DumpInv, Emitted, DumpOnce, Collected, ReadPlace, Places

(* Steps that touch the polls alone.                                       *)
LEMMA OnlyPolls ==
  ASSUME RingInv, UNCHANGED <<ringVars, httpdVars, burst, browserVars, reboots>>,
         poll' \in [Polls -> PollState],
         \A z \in Polls : poll'[z].st = "served" => poll'[z] = poll[z],
         PageCovered'
  PROVE  RingInv'
  <1>1. RingTypes /\ Distinct /\ DumpInv /\ Serving
    BY DEF RingInv
  <1>2. RingTypes'
    BY <1>1 DEF RingTypes, ringVars, httpdVars, browserVars
  <1>3. Distinct'
    BY <1>1 DEF Distinct, ringVars
  <1>4. DumpInv'
    BY <1>1, DumpStays
  <1>5. Serving'
    BY <1>1 DEF Serving, httpdVars
  <1> QED BY <1>2, <1>3, <1>4, <1>5 DEF RingInv

LEMMA DumpStartKeeps ==
  ASSUME RingInv, NEW q \in Polls, DumpStart(q)
  PROVE  RingInv'
  <1>1. RingTypes /\ Distinct /\ Serving /\ PageCovered
    BY DEF RingInv
  <1> DEFINE d == [head |-> head, i |-> 0, since |-> poll[q].since, out |-> <<>>]
  <1>2. /\ httpd = None /\ poll[q].st = "asked" /\ httpd' = q /\ puts' = 0 /\ dump' = d
        /\ poll' = [poll EXCEPT ![q].st = "served"]
        /\ ring' = ring /\ head' = head /\ next_seq' = next_seq /\ burst' = burst
        /\ telSeq' = telSeq /\ shown' = shown /\ stale' = stale /\ reboots' = reboots
    BY DEF DumpStart, ringVars, browserVars
  <1>3. /\ poll \in [Polls -> PollState] /\ poll'[q].st = "served" /\ poll'[q].since = poll[q].since
        /\ poll'[q].out = poll[q].out /\ \A z \in Polls \ {q} : poll'[z] = poll[z]
    BY <1>1, <1>2 DEF RingTypes, PollState
  <1>4. poll' \in [Polls -> PollState]
    BY <1>2, <1>3 DEF PollState
  <1>5. d \in DumpState /\ Len(d.out) <= d.i /\ d.out = <<>> /\ d.i = 0 /\ d.since = poll[q].since
    <2>1. <<>> \in Seq(Seen) /\ 0 \in 0 .. RingSize /\ poll[q].since \in Seqs /\ head \in Places
      BY <1>1, <1>3 DEF RingTypes, PollState
    <2> QED BY <2>1 DEF DumpState
  <1> HIDE DEF d
  <1>6. RingTypes'
    <2>1. puts' \in Nat /\ puts' < next_seq'
      BY <1>1, <1>2 DEF RingTypes
    <2>2. dump' \in DumpState /\ Len(dump'.out) <= dump'.i
      BY <1>2, <1>5
    <2> QED BY <1>1, <1>2, <1>4, <2>1, <2>2 DEF RingTypes
  <1>7. Distinct'
    BY <1>1, <1>2 DEF Distinct
  <1>8. DumpInv'
    <2>1. dump'.out = <<>> /\ dump'.i = 0 /\ DOMAIN dump'.out = {}
      BY <1>2, <1>5
    <2> QED BY <2>1, NoneEmitted DEF DumpInv, Emitted, DumpOnce, Collected
  <1>9. Serving'
    <2>1. httpd' # None
      BY <1>2
    <2>2. ASSUME NEW z \in Polls, poll'[z].st = "served" PROVE z = q
      BY <1>1, <1>2, <1>3, <2>2 DEF Serving
    <2> QED BY <1>2, <1>3, <1>5, <2>1, <2>2 DEF Serving
  <1>10. PageCovered'
    <2>1. \A z \in Polls :
           /\ poll'[z].st \in {"asked", "served"} =>
                poll[z].st \in {"asked", "served"} /\ poll'[z].since = poll[z].since
           /\ poll'[z].st = "answered" => poll[z].st = "answered" /\ poll'[z].out = poll[z].out
      BY <1>2, <1>3
    <2> QED BY <1>1, <1>2, <2>1, PageCoveredStays
  <1> QED BY <1>6, <1>7, <1>8, <1>9, <1>10 DEF RingInv

(* A read that emits the slot's telegram or leaves it.                     *)
LEMMA ReadGoesOn ==
  ASSUME RingInv, httpd # None, dump.i < RingSize,
         NEW m \in Seq(Seen), NEW e, e = ring[ReadPlace(dump.i)],
         dump' = [dump EXCEPT !.i = @ + 1, !.out = m],
         ring' = ring, head' = head, next_seq' = next_seq, httpd' = httpd, puts' = puts,
         burst' = burst, poll' = poll, telSeq' = telSeq, shown' = shown, stale' = stale,
         reboots' = reboots,
         Len(m) <= dump.i + 1,
         \A j, k \in DOMAIN m : m[j] = m[k] => j = k,
         \A x \in Emits(m) : x \in Emits(dump.out) \/ x = e,
         Emits(dump.out) \subseteq Emits(m),
         e > dump.since /\ e < next_seq - puts => e \in Emits(m)
  PROVE  RingInv'
  <1>1. RingTypes /\ Distinct /\ DumpInv /\ Serving /\ PageCovered
    BY DEF RingInv
  <1>2. /\ dump \in DumpState /\ dump.head \in Places /\ dump.i \in Places /\ dump.i \in Nat
        /\ RingSize \in Nat
    BY <1>1 DEF RingTypes, DumpState, Places
  <1>3. /\ dump'.i = dump.i + 1 /\ dump'.out = m /\ dump'.head = dump.head
        /\ dump'.since = dump.since /\ dump' \in DumpState
    <2>1. dump.i + 1 \in 0 .. RingSize
      BY <1>2 DEF Places
    <2> QED BY <1>2, <2>1 DEF DumpState
  <1>4. \A j : ReadPlace(j)' = ReadPlace(j)
    BY <1>3 DEF ReadPlace
  <1>5. ReadPlace(dump.i) \in Places
    BY <1>2, ReadPlaces DEF ReadPlace
  <1>6. e < next_seq
    BY <1>1, <1>5 DEF Distinct
  <1>7. \A x \in Emits(m) : x # 0
    <2>1. \A k \in DOMAIN m : m[k] \in Seen
      OBVIOUS
    <2> QED BY <2>1 DEF Emits, Seen
  <1>8. RingTypes'
    <2>1. Len(dump'.out) <= dump'.i
      BY <1>3
    <2> QED BY <1>1, <1>3, <2>1 DEF RingTypes
  <1>9. Distinct'
    BY <1>1 DEF Distinct
  <1>10. Emitted'
    <2> SUFFICES ASSUME NEW x \in Emits(m)
                 PROVE  /\ x < next_seq
                        /\ \A p \in Places : ring[p] = x
                              => \E j \in 0 .. dump.i : p = ReadPlace(j)
      <3>1. 0 .. dump'.i - 1 = 0 .. dump.i
        BY <1>2, <1>3
      <3> QED BY <1>3, <1>4, <3>1 DEF Emitted, Places
    <2>1. CASE x = e
      <3>1. ASSUME NEW p \in Places, ring[p] = x PROVE p = ReadPlace(dump.i)
        BY <1>1, <1>5, <1>7, <2>1, <3>1 DEF Distinct
      <3>2. dump.i \in 0 .. dump.i
        BY <1>2
      <3> QED BY <1>6, <2>1, <3>1, <3>2
    <2>2. CASE x \in Emits(dump.out)
      <3>1. 0 .. dump.i - 1 \subseteq 0 .. dump.i
        BY <1>2
      <3> QED BY <1>1, <2>2, <3>1 DEF DumpInv, Emitted
    <2> QED BY <2>1, <2>2
  <1>11. DumpOnce'
    BY <1>3 DEF DumpOnce
  <1>12. Collected'
    <2> SUFFICES ASSUME NEW j \in 0 .. dump.i, NEW x, x = ring[ReadPlace(j)],
                        x > dump.since, x < next_seq - puts
                 PROVE  x \in Emits(m)
      <3>1. 0 .. dump'.i - 1 = 0 .. dump.i
        BY <1>2, <1>3
      <3> QED BY <1>3, <1>4, <3>1 DEF Collected
    <2>1. CASE j = dump.i
      BY <2>1
    <2>2. CASE j # dump.i
      <3>1. j \in 0 .. dump.i - 1
        BY <1>2, <2>2
      <3> QED BY <1>1, <3>1 DEF DumpInv, Collected
    <2> QED BY <2>1, <2>2
  <1>13. Serving'
    BY <1>1, <1>3 DEF Serving
  <1>14. PageCovered'
    BY <1>1, PageCoveredStays
  <1> QED BY <1>8, <1>9, <1>10, <1>11, <1>12, <1>13, <1>14 DEF RingInv, DumpInv

LEMMA DumpReadKeeps ==
  ASSUME RingInv, DumpRead
  PROVE  RingInv'
  <1>1. RingTypes /\ Distinct /\ DumpInv /\ Serving /\ PageCovered
    BY DEF RingInv
  <1> DEFINE e == ring[ReadPlace(dump.i)]
             l == dump.out
             m == IF e # 0 /\ e > dump.since THEN Append(l, e) ELSE l
  <1>2. /\ httpd # None /\ dump.i < RingSize
        /\ dump' = [dump EXCEPT !.i = @ + 1, !.out = m]
        /\ ring' = ring /\ head' = head /\ next_seq' = next_seq /\ httpd' = httpd /\ puts' = puts
        /\ burst' = burst /\ poll' = poll
        /\ telSeq' = telSeq /\ shown' = shown /\ stale' = stale /\ reboots' = reboots
    BY DEF DumpRead, ReadPlace, ringVars, browserVars
  <1>3. /\ dump \in DumpState /\ dump.head \in Places /\ dump.i \in Places /\ dump.since \in Nat
        /\ l \in Seq(Seen) /\ Len(l) <= dump.i /\ next_seq \in Nat
    BY <1>1, <1>2 DEF RingTypes, DumpState, Places, Seqs
  <1>4. ReadPlace(dump.i) \in Places
    BY <1>3, ReadPlaces DEF ReadPlace
  <1>5. e \in Seqs /\ e \in Nat /\ e < next_seq
    BY <1>1, <1>4 DEF RingTypes, Distinct, Seqs
  <1> HIDE DEF e
  <1>6. CASE e # 0 /\ e > dump.since
    <2>1. e \in Seen /\ m = Append(l, e)
      BY <1>5, <1>6 DEF Seqs, Seen
    <2> HIDE DEF l
    <2>2. /\ m \in Seq(Seen) /\ Len(m) = Len(l) + 1 /\ Emits(m) = Emits(l) \cup {e} /\ Len(l) \in Nat
          /\ DOMAIN l = 1 .. Len(l) /\ DOMAIN m = 1 .. Len(l) + 1
          /\ \A k \in DOMAIN l : m[k] = l[k]
          /\ m[Len(l) + 1] = e
      BY <1>3, <2>1, EmitsAppend
    <2>3. e \notin Emits(l)
      <3> SUFFICES ASSUME e \in Emits(l) PROVE FALSE
        OBVIOUS
      <3>1. PICK j \in 0 .. dump.i - 1 : ReadPlace(dump.i) = ReadPlace(j)
        BY <1>1, <1>4 DEF DumpInv, Emitted, e, l
      <3>2. j \in Places /\ j # dump.i
        BY <1>3 DEF Places
      <3> QED BY <1>3, <3>1, <3>2, ReadPlaces DEF ReadPlace
    <2>4. \A k \in DOMAIN l : m[k] # e
      BY <2>2, <2>3 DEF Emits
    <2>5. \A j, k \in DOMAIN m : m[j] = m[k] => j = k
      <3>1. \A k \in DOMAIN m : k \in DOMAIN l \/ k = Len(l) + 1
        BY <2>2
      <3>2. \A j, k \in DOMAIN l : l[j] = l[k] => j = k
        BY <1>1 DEF DumpInv, DumpOnce, l
      <3> QED BY <2>2, <2>4, <3>1, <3>2
    <2>6. \A x \in Emits(m) : x \in Emits(dump.out) \/ x = e
      BY <2>2 DEF l
    <2>7. Emits(dump.out) \subseteq Emits(m) /\ e \in Emits(m)
      BY <2>2 DEF l
    <2>8. Len(m) <= dump.i + 1
      BY <1>3, <2>2 DEF Places
    <2>9. PICK c : c = m /\ c \in Seq(Seen)
      BY <2>2
    <2>10. PICK x : x = e
      OBVIOUS
    <2> HIDE DEF m
    <2> QED BY <1>2, <2>2, <2>5, <2>6, <2>7, <2>8, <2>9, <2>10, ReadGoesOn DEF e
  <1>7. CASE ~(e # 0 /\ e > dump.since)
    <2>1. m = l
      BY <1>7
    <2>2. m \in Seq(Seen) /\ Len(m) <= dump.i + 1
      <3>1. dump.i \in Nat /\ Len(l) \in Nat
        BY <1>3, LenProperties DEF Places
      <3> HIDE DEF m, l
      <3> QED BY <1>3, <2>1, <3>1
    <2>3. \A j, k \in DOMAIN m : m[j] = m[k] => j = k
      BY <1>1, <2>1 DEF DumpInv, DumpOnce
    <2>4. Emits(m) = Emits(dump.out)
      BY <2>1
    <2>5. ~(e > dump.since)
      BY <1>3, <1>5, <1>7
    <2>6. PICK x : x = e
      OBVIOUS
    <2> HIDE DEF m, l
    <2> QED BY <1>2, <2>2, <2>3, <2>4, <2>5, <2>6, ReadGoesOn DEF e
  <1> QED BY <1>6, <1>7

(* An answer has what its poll missed up to its last telegram, if at most   *)
(* one came meanwhile.                                                     *)
LEMMA AnswerComplete ==
  ASSUME RingInv, ~stale, ~burst, httpd \in Polls, poll[httpd].st = "served", dump.i = RingSize
  PROVE  AnswerShown(dump.out)
  <1>1. RingTypes /\ Distinct /\ DumpInv /\ Serving /\ PageCovered
    BY DEF RingInv
  <1> SUFFICES ASSUME dump.out # <<>> PROVE Shown(dump.out[Len(dump.out)], Emits(dump.out))
    BY DEF AnswerShown
  <1>2. PICK n : n = dump.out[Len(dump.out)]
    OBVIOUS
  <1>3. dump.out \in Seq(Seen) /\ dump.since \in Nat /\ next_seq \in Nat /\ puts \in Nat
    BY <1>1 DEF RingTypes, DumpState, Seqs
  <1>4. n \in Emits(dump.out) /\ n \in Nat
    BY <1>2, <1>3, LastEmitted DEF Seen
  <1>5. n < next_seq
    BY <1>1, <1>4 DEF DumpInv, Emitted
  <1>6. Shown(dump.since, {}) /\ puts <= 1
    BY <1>1, <1>3 DEF Serving, PageCovered
  <1>7. ASSUME NEW p \in Places, ring[p] # 0, ring[p] <= n PROVE ring[p] \in shown \cup Emits(dump.out)
    <2>1. PICK x \in Nat : x = ring[p]
      BY <1>1 DEF RingTypes, Seqs
    <2>2. CASE x <= dump.since
      BY <1>6, <1>7, <2>1, <2>2 DEF Shown
    <2>3. CASE x > dump.since /\ x < next_seq - puts
      <3>1. dump.head \in Places
        BY <1>1 DEF RingTypes, DumpState
      <3>2. PICK j \in Places : p = ReadPlace(j)
        BY <3>1, ReadPlaces DEF ReadPlace
      <3>3. j \in 0 .. dump.i - 1
        BY <3>2 DEF Places
      <3> QED BY <1>1, <2>1, <2>3, <3>2, <3>3 DEF DumpInv, Collected
    <2>4. CASE ~(x < next_seq - puts)
      <3>1. x = n
        BY <1>3, <1>4, <1>5, <1>6, <1>7, <2>1, <2>4
      <3> QED BY <1>4, <2>1, <3>1
    <2> QED BY <1>3, <2>2, <2>3, <2>4
  <1> QED BY <1>2, <1>5, <1>7 DEF Shown

LEMMA DumpEndKeeps ==
  ASSUME RingInv, DumpEnd
  PROVE  RingInv'
  <1>1. RingTypes /\ Distinct /\ Serving /\ PageCovered
    BY DEF RingInv
  <1>2. /\ httpd # None /\ dump.i = RingSize /\ poll' = Answer(httpd)
        /\ httpd' = None /\ dump' = NoDump /\ puts' = 0
        /\ ring' = ring /\ head' = head /\ next_seq' = next_seq /\ burst' = burst
        /\ telSeq' = telSeq /\ shown' = shown /\ stale' = stale /\ reboots' = reboots
    BY DEF DumpEnd, ringVars, browserVars
  <1>3. httpd \in Polls /\ poll \in [Polls -> PollState] /\ dump.out \in Seq(Seen)
    BY <1>1, <1>2 DEF RingTypes, DumpState
  <1>4. /\ poll' \in [Polls -> PollState]
        /\ \A z \in Polls \ {httpd} : poll'[z] = poll[z]
        /\ poll[httpd].st # "served" => poll' = poll
        /\ poll[httpd].st = "served" => poll'[httpd].st = "answered" /\ poll'[httpd].out = dump.out
    <2>1. CASE poll[httpd].st = "served"
      <3>1. poll' = [poll EXCEPT ![httpd].st = "answered", ![httpd].out = dump.out]
        BY <1>2, <2>1 DEF Answer
      <3> QED BY <1>3, <2>1, <3>1 DEF PollState
    <2>2. CASE poll[httpd].st # "served"
      BY <1>2, <1>3, <2>2 DEF Answer
    <2> QED BY <2>1, <2>2
  <1>5. RingTypes'
    <2>1. dump' \in DumpState /\ Len(dump'.out) <= dump'.i
      <3>1. dump'.out = <<>> /\ dump'.i = 0
        BY <1>2 DEF NoDump
      <3> QED BY <1>2, <3>1, NoneEmitted
    <2>2. puts' \in Nat /\ puts' < next_seq'
      BY <1>1, <1>2 DEF RingTypes
    <2> QED BY <1>1, <1>2, <1>4, <2>1, <2>2 DEF RingTypes
  <1>6. Distinct'
    BY <1>1, <1>2 DEF Distinct
  <1>7. DumpInv'
    BY <1>2, FreshDump
  <1>8. Serving'
    <2>1. ASSUME NEW z \in Polls PROVE poll'[z].st # "served"
      BY <1>1, <1>4 DEF Serving
    <2> QED BY <1>2, <2>1 DEF Serving
  <1>9. PageCovered'
    <2>1. ASSUME NEW z \in Polls
          PROVE  /\ poll'[z].st \in {"asked", "served"} =>
                      poll[z].st \in {"asked", "served"} /\ poll'[z].since = poll[z].since
                 /\ poll'[z].st = "answered" =>
                      \/ poll[z].st = "answered" /\ poll'[z].out = poll[z].out
                      \/ ~stale /\ ~burst => AnswerShown(poll[z].out)'
      <3>1. CASE z = httpd /\ poll[httpd].st = "served"
        <4>1. PICK l : l = dump.out
          OBVIOUS
        <4>2. ~stale /\ ~burst => AnswerShown(l)
          BY <1>2, <1>3, <3>1, <4>1, AnswerComplete
        <4>3. AnswerShown(l) => AnswerShown(l)'
          <5>1. PICK c, new : c = l[Len(l)] /\ new = Emits(l)
            OBVIOUS
          <5>2. l # <<>> /\ AnswerShown(l) => Shown(c, new)'
            BY <1>2, <5>1, ShownStays DEF AnswerShown
          <5> QED BY <5>1, <5>2 DEF AnswerShown
        <4>4. poll'[z].out = l
          BY <1>4, <3>1, <4>1
        <4>5. ~stale /\ ~burst => AnswerShown(poll[z].out)'
          BY <4>2, <4>3, <4>4
        <4> QED BY <1>4, <3>1, <4>5
      <3>2. CASE ~(z = httpd /\ poll[httpd].st = "served")
        <4>1. poll'[z] = poll[z]
          BY <1>4, <3>2
        <4> QED BY <4>1
      <3> QED BY <3>1, <3>2
    <2> QED BY <1>1, <1>2, <2>1, PageCoveredStays
  <1> QED BY <1>5, <1>6, <1>7, <1>8, <1>9 DEF RingInv

LEMMA DumpBreaksKeeps ==
  ASSUME RingInv, DumpBreaks
  PROVE  RingInv'
  <1>1. RingTypes /\ Distinct /\ Serving /\ PageCovered
    BY DEF RingInv
  <1>2. /\ httpd # None
        /\ poll' = [poll EXCEPT ![httpd] = IF @.st = "served" THEN IdlePoll ELSE @]
        /\ httpd' = None /\ dump' = NoDump /\ puts' = 0
        /\ ring' = ring /\ head' = head /\ next_seq' = next_seq /\ burst' = burst
        /\ telSeq' = telSeq /\ shown' = shown /\ stale' = stale /\ reboots' = reboots
    BY DEF DumpBreaks, ringVars, browserVars
  <1>3. httpd \in Polls /\ poll \in [Polls -> PollState]
    BY <1>1, <1>2 DEF RingTypes
  <1>4. /\ poll' \in [Polls -> PollState]
        /\ \A z \in Polls : \/ poll'[z] = poll[z] /\ ~(z = httpd /\ poll[z].st = "served")
                           \/ poll'[z].st = "idle"
    BY <1>2, <1>3, NoneEmitted DEF IdlePoll
  <1>5. RingTypes'
    <2>1. dump' \in DumpState /\ Len(dump'.out) <= dump'.i
      <3>1. dump'.out = <<>> /\ dump'.i = 0
        BY <1>2 DEF NoDump
      <3> QED BY <1>2, <3>1, NoneEmitted
    <2>2. puts' \in Nat /\ puts' < next_seq'
      BY <1>1, <1>2 DEF RingTypes
    <2> QED BY <1>1, <1>2, <1>4, <2>1, <2>2 DEF RingTypes
  <1>6. Distinct'
    BY <1>1, <1>2 DEF Distinct
  <1>7. DumpInv'
    BY <1>2, FreshDump
  <1>8. Serving'
    <2>1. ASSUME NEW z \in Polls PROVE poll'[z].st # "served"
      BY <1>1, <1>4 DEF Serving
    <2> QED BY <1>2, <2>1 DEF Serving
  <1>9. PageCovered'
    BY <1>1, <1>2, <1>4, PageCoveredStays
  <1> QED BY <1>5, <1>6, <1>7, <1>8, <1>9 DEF RingInv

-----------------------------------------------------------------------------
(* Steps of the browser.                                                   *)

LEMMA PollSendKeeps ==
  ASSUME RingInv, NEW q \in Polls, PollSend(q)
  PROVE  RingInv'
  <1>1. RingTypes /\ Distinct /\ DumpInv /\ Serving /\ PageCovered
    BY DEF RingInv
  <1> DEFINE asked == [st |-> "asked", since |-> telSeq, out |-> <<>>]
  <1>2. /\ poll' = [poll EXCEPT ![q] = asked]
        /\ UNCHANGED <<ringVars, httpdVars, burst, browserVars, reboots>>
    BY DEF PollSend
  <1>3. asked \in PollState /\ asked.st = "asked" /\ asked.since = telSeq
    <2>1. <<>> \in Seq(Seen) /\ telSeq \in Seqs
      BY <1>1 DEF RingTypes
    <2> QED BY <2>1 DEF PollState
  <1> HIDE DEF asked
  <1>4. /\ poll' \in [Polls -> PollState]
        /\ \A z \in Polls : poll'[z] = poll[z] \/ (poll'[z].st = "asked" /\ poll'[z].since = telSeq)
    <2>1. poll \in [Polls -> PollState]
      BY <1>1 DEF RingTypes
    <2>2. poll'[q] = asked /\ \A z \in Polls \ {q} : poll'[z] = poll[z]
      BY <1>2, <2>1
    <2>3. poll' \in [Polls -> PollState]
      BY <1>2, <1>3, <2>1
    <2> QED BY <1>3, <2>2, <2>3
  <1>5. PageCovered'
    BY <1>1, <1>2, <1>4, PageCoveredStays DEF ringVars, browserVars
  <1>6. \A z \in Polls : poll'[z].st = "served" => poll'[z] = poll[z]
    BY <1>4
  <1> QED BY <1>1, <1>2, <1>4, <1>5, <1>6, OnlyPolls

LEMMA PollLostKeeps ==
  ASSUME RingInv, NEW q \in Polls, PollLost(q)
  PROVE  RingInv'
  <1>1. RingTypes /\ PageCovered
    BY DEF RingInv
  <1>2. /\ poll' = [poll EXCEPT ![q] = IdlePoll]
        /\ UNCHANGED <<ringVars, httpdVars, burst, browserVars, reboots>>
    BY DEF PollLost
  <1>3. /\ poll' \in [Polls -> PollState]
        /\ \A z \in Polls : poll'[z] = poll[z] \/ poll'[z].st = "idle"
    BY <1>1, <1>2, NoneEmitted DEF RingTypes, IdlePoll
  <1>4. PageCovered'
    BY <1>1, <1>2, <1>3, PageCoveredStays DEF ringVars, browserVars
  <1>5. \A z \in Polls : poll'[z].st = "served" => poll'[z] = poll[z]
    BY <1>3
  <1> QED BY <1>2, <1>3, <1>4, <1>5, OnlyPolls

LEMMA PollAnsweredKeeps ==
  ASSUME RingInv, NEW q \in Polls, PollAnswered(q)
  PROVE  RingInv'
  <1>1. RingTypes /\ Distinct /\ DumpInv /\ Serving /\ PageCovered
    BY DEF RingInv
  <1> DEFINE list == poll[q].out
  <1>2. /\ poll[q].st = "answered" /\ poll' = [poll EXCEPT ![q] = IdlePoll]
        /\ UNCHANGED <<ringVars, httpdVars, burst, reboots>>
        /\ list = <<>> => UNCHANGED browserVars
        /\ list # <<>> => telSeq' = list[Len(list)] /\ shown' = shown \cup Emits(list) /\ stale' = stale
    BY DEF PollAnswered
  <1>3. /\ poll' \in [Polls -> PollState]
        /\ \A z \in Polls : poll'[z] = poll[z] \/ poll'[z].st = "idle"
        /\ list \in Seq(Seen)
    BY <1>1, <1>2, NoneEmitted DEF RingTypes, IdlePoll, PollState
  <1>4. \A z \in Polls : poll'[z].st = "served" => poll'[z] = poll[z]
    BY <1>3
  <1>5. CASE list = <<>>
    <2>1. PageCovered'
      BY <1>1, <1>2, <1>3, <1>5, PageCoveredStays DEF ringVars, browserVars
    <2> QED BY <1>2, <1>3, <1>4, <1>5, <2>1, OnlyPolls
  <1>6. CASE list # <<>>
    <2>1. PICK n, new : n = list[Len(list)] /\ new = Emits(list)
      OBVIOUS
    <2>2. n \in Seen /\ new \subseteq Seen
      <3>1. new \subseteq Seen /\ n \in new
        BY <1>3, <1>6, <2>1, LastEmitted
      <3> QED BY <3>1
    <2>3. telSeq' = n /\ shown' = shown \cup new /\ stale' = stale
      BY <1>2, <1>6, <2>1
    <2>4. ring' = ring /\ next_seq' = next_seq /\ burst' = burst
      BY <1>2 DEF ringVars
    <2>5. RingTypes'
      <3>1. telSeq' \in Seqs /\ shown' \subseteq 1 .. MaxSeq /\ stale' \in BOOLEAN
        BY <1>1, <2>2, <2>3 DEF RingTypes, Seen, Seqs
      <3> QED BY <1>1, <1>2, <1>3, <3>1 DEF RingTypes, ringVars, httpdVars
    <2>6. PageCovered'
      <3> SUFFICES ASSUME ~stale, ~burst
                   PROVE  /\ Shown(telSeq, {})'
                          /\ \A z \in Polls : poll'[z].st \in {"asked", "served"} => Shown(poll[z].since, {})'
                          /\ \A z \in Polls : poll'[z].st = "answered" => AnswerShown(poll[z].out)'
        BY <2>3, <2>4 DEF PageCovered
      <3>1. Shown(telSeq, {})'
        <4>1. Shown(n, new)
          BY <1>1, <1>2, <1>6, <2>1 DEF PageCovered, AnswerShown
        <4>2. Shown(n, {})'
          BY <2>3, <2>4, <4>1 DEF Shown, Places
        <4> QED BY <2>3, <4>2
      <3>2. ASSUME NEW z \in Polls, poll'[z].st \in {"asked", "served"} PROVE Shown(poll[z].since, {})'
        <4>1. PICK c : c = poll[z].since
          OBVIOUS
        <4>2. poll'[z] = poll[z]
          BY <1>3, <3>2
        <4>3. Shown(c, {})
          BY <1>1, <3>2, <4>1, <4>2 DEF PageCovered
        <4>4. Shown(c, {})'
          BY <2>3, <2>4, <4>3, ShownStays
        <4> QED BY <4>1, <4>2, <4>4
      <3>3. ASSUME NEW z \in Polls, poll'[z].st = "answered" PROVE AnswerShown(poll[z].out)'
        <4>1. PICK l : l = poll[z].out
          OBVIOUS
        <4>2. poll'[z] = poll[z]
          BY <1>3, <3>3
        <4>3. AnswerShown(l)
          BY <1>1, <3>3, <4>1, <4>2 DEF PageCovered
        <4>4. PICK c, all : c = l[Len(l)] /\ all = Emits(l)
          OBVIOUS
        <4>5. l # <<>> => Shown(c, all)'
          BY <2>3, <2>4, <4>3, <4>4, ShownStays DEF AnswerShown
        <4>6. AnswerShown(l)'
          BY <4>4, <4>5 DEF AnswerShown
        <4> QED BY <4>1, <4>2, <4>6
      <3> QED BY <3>1, <3>2, <3>3
    <2>7. Distinct'
      BY <1>1, <2>4 DEF Distinct
    <2>8. DumpInv'
      BY <1>1, <1>2, DumpStays
    <2>9. Serving'
      BY <1>1, <1>2, <1>4 DEF Serving, httpdVars
    <2> QED BY <2>5, <2>6, <2>7, <2>8, <2>9 DEF RingInv
  <1> QED BY <1>5, <1>6

LEMMA PageLoadKeeps ==
  ASSUME RingInv, PageLoad
  PROVE  RingInv'
  <1>1. RingTypes /\ Distinct /\ DumpInv /\ Serving
    BY DEF RingInv
  <1>2. /\ poll' = [q \in Polls |-> IdlePoll] /\ telSeq' = 0 /\ shown' = {} /\ stale' = FALSE
        /\ burst' = (puts > 1) /\ UNCHANGED <<ringVars, httpdVars, reboots>>
    BY DEF PageLoad
  <1>3. poll' \in [Polls -> PollState] /\ \A z \in Polls : poll'[z].st = "idle"
    BY <1>2, NoneEmitted DEF IdlePoll
  <1>4. next_seq \in Nat /\ next_seq > 0 /\ \A p \in Places : ring[p] \in Nat
    BY <1>1 DEF RingTypes, Seqs
  <1>5. RingTypes'
    <2>1. telSeq' \in Seqs
      BY <1>2 DEF Seqs
    <2>2. burst' \in BOOLEAN
      BY <1>2
    <2>3. stale' \in BOOLEAN /\ shown' \subseteq 1 .. MaxSeq
      BY <1>2
    <2> QED BY <1>1, <1>2, <1>3, <2>1, <2>2, <2>3 DEF RingTypes, ringVars, httpdVars
  <1>6. Distinct'
    BY <1>1, <1>2 DEF Distinct, ringVars
  <1>7. DumpInv'
    BY <1>1, <1>2, DumpStays
  <1>8. Serving'
    BY <1>1, <1>2, <1>3 DEF Serving, httpdVars
  <1>9. PageCovered'
    <2>1. Shown(telSeq, {})'
      BY <1>2, <1>4 DEF Shown, Places, ringVars
    <2> QED BY <1>3, <2>1 DEF PageCovered
  <1> QED BY <1>5, <1>6, <1>7, <1>8, <1>9 DEF RingInv

LEMMA RingRebootKeeps ==
  ASSUME RingInv, Reboot
  PROVE  RingInv'
  <1>1. RingTypes
    BY DEF RingInv
  <1>2. /\ reboots < MaxReboots /\ reboots' = reboots + 1
        /\ ring' = [p \in Places |-> 0] /\ head' = 0 /\ next_seq' = 1
        /\ httpd' = None /\ dump' = NoDump /\ puts' = 0
        /\ poll' = [q \in Polls |-> IF poll[q].st = "answered" THEN poll[q] ELSE IdlePoll]
        /\ shown' = {} /\ burst' = FALSE
        /\ stale' = (telSeq # 0 \/ \E q \in Polls : poll[q].st = "answered")
        /\ telSeq' = telSeq
    BY DEF Reboot
  <1>3. /\ poll' \in [Polls -> PollState]
        /\ \A z \in Polls : poll'[z].st = "idle" \/ (poll'[z].st = "answered" /\ poll[z].st = "answered")
    <2>1. poll \in [Polls -> PollState] /\ IdlePoll \in PollState /\ IdlePoll.st = "idle"
      BY <1>1, NoneEmitted DEF RingTypes, IdlePoll
    <2>2. \A z \in Polls : poll'[z] = IF poll[z].st = "answered" THEN poll[z] ELSE IdlePoll
      BY <1>2
    <2>3. poll' \in [Polls -> PollState]
      BY <1>2, <2>1
    <2> QED BY <2>1, <2>2, <2>3
  <1>4. RingTypes'
    <2>1. /\ ring' \in [Places -> Seqs] /\ head' \in Places /\ next_seq' \in 1 .. MaxSeq + 1
          /\ puts' \in Nat /\ puts' < next_seq'
      BY <1>2 DEF Places, Seqs
    <2>2. dump' \in DumpState /\ Len(dump'.out) <= dump'.i
      <3>1. dump'.out = <<>> /\ dump'.i = 0
        BY <1>2 DEF NoDump
      <3> QED BY <1>2, <3>1, NoneEmitted
    <2>3. reboots' \in 0 .. MaxReboots
      BY <1>1, <1>2 DEF RingTypes
    <2>4. stale' \in BOOLEAN /\ burst' \in BOOLEAN /\ shown' \subseteq 1 .. MaxSeq
      BY <1>2
    <2> QED BY <1>1, <1>2, <1>3, <2>1, <2>2, <2>3, <2>4 DEF RingTypes
  <1>5. Distinct'
    BY <1>2 DEF Distinct, Places
  <1>6. DumpInv'
    BY <1>2, FreshDump
  <1>7. Serving'
    BY <1>2, <1>3 DEF Serving
  <1>8. PageCovered'
    <2> SUFFICES ASSUME ~stale'
                 PROVE  Shown(telSeq, {})' /\ \A z \in Polls : poll'[z].st = "idle"
      BY DEF PageCovered
    <2>1. telSeq' = 0 /\ \A z \in Polls : poll'[z].st = "idle"
      BY <1>2, <1>3
    <2> QED BY <1>2, <2>1 DEF Shown, Places
  <1> QED BY <1>4, <1>5, <1>6, <1>7, <1>8 DEF RingInv

LEMMA RingStutters ==
  ASSUME RingInv, UNCHANGED telemetryVars
  PROVE  RingInv'
  <1>1. RingTypes /\ Distinct /\ DumpInv /\ Serving /\ PageCovered
    BY DEF RingInv
  <1>2. /\ UNCHANGED <<ringVars, httpdVars, burst, browserVars, reboots>> /\ poll' = poll
    BY DEF telemetryVars
  <1>3. poll' \in [Polls -> PollState] /\ \A z \in Polls : poll'[z].st = "served" => poll'[z] = poll[z]
    BY <1>1, <1>2 DEF RingTypes
  <1>4. PageCovered'
    BY <1>1, <1>2, PageCoveredStays DEF ringVars, browserVars
  <1> QED BY <1>2, <1>3, <1>4, OnlyPolls

LEMMA RingInitInv ==
  ASSUME RingInit
  PROVE  RingInv
  <1>1. poll \in [Polls -> PollState] /\ \A z \in Polls : poll[z].st = "idle"
    BY NoneEmitted DEF RingInit, IdlePoll
  <1>2. RingTypes
    <2>1. dump \in DumpState /\ Len(dump.out) <= dump.i
      <3>1. dump.out = <<>> /\ dump.i = 0
        BY DEF RingInit, NoDump
      <3> QED BY <3>1, NoneEmitted DEF RingInit
    <2>2. /\ ring \in [Places -> Seqs] /\ head \in Places /\ next_seq \in 1 .. MaxSeq + 1
          /\ puts \in Nat /\ puts < next_seq /\ telSeq \in Seqs /\ reboots \in 0 .. MaxReboots
      BY DEF RingInit, Places, Seqs
    <2> QED BY <1>1, <2>1, <2>2 DEF RingInit, RingTypes
  <1>3. Distinct
    BY DEF RingInit, Distinct
  <1>4. DumpInv
    BY NoDumpInv DEF RingInit
  <1>5. Serving
    BY <1>1 DEF RingInit, Serving
  <1>6. PageCovered
    <2>1. Shown(telSeq, {})
      BY DEF RingInit, Shown
    <2> QED BY <1>1, <2>1 DEF PageCovered
  <1> QED BY <1>2, <1>3, <1>4, <1>5, <1>6 DEF RingInv

LEMMA RingStepKeeps == RingInv /\ [RingNext]_telemetryVars => RingInv'
  <1> SUFFICES ASSUME RingInv, [RingNext]_telemetryVars PROVE RingInv'
    OBVIOUS
  <1>1. CASE Put
    BY <1>1, RingPutKeeps
  <1>2. CASE DumpRead
    BY <1>2, DumpReadKeeps
  <1>3. CASE DumpEnd
    BY <1>3, DumpEndKeeps
  <1>4. CASE DumpBreaks
    BY <1>4, DumpBreaksKeeps
  <1>5. CASE PageLoad
    BY <1>5, PageLoadKeeps
  <1>6. CASE Reboot
    BY <1>6, RingRebootKeeps
  <1>7. ASSUME NEW q \in Polls, DumpStart(q) PROVE RingInv'
    BY <1>7, DumpStartKeeps
  <1>8. ASSUME NEW q \in Polls, PollSend(q) PROVE RingInv'
    BY <1>8, PollSendKeeps
  <1>9. ASSUME NEW q \in Polls, PollAnswered(q) PROVE RingInv'
    BY <1>9, PollAnsweredKeeps
  <1>10. ASSUME NEW q \in Polls, PollLost(q) PROVE RingInv'
    BY <1>10, PollLostKeeps
  <1>11. CASE UNCHANGED telemetryVars
    BY <1>11, RingStutters
  <1> QED BY <1>1, <1>2, <1>3, <1>4, <1>5, <1>6, <1>7, <1>8, <1>9, <1>10, <1>11 DEF RingNext

-----------------------------------------------------------------------------
(* The invariant of ring, dump, polls and page.                            *)
THEOREM RingInvariant == RingSpec => []RingInv
  BY RingInitInv, RingStepKeeps, PTL DEF RingSpec

LEMMA RingSafetyHolds == RingInv => RingSafety
  <1> SUFFICES ASSUME RingInv PROVE RingSafety
    OBVIOUS
  <1>1. RingTypes /\ DumpInv
    BY DEF RingInv
  <1>2. /\ dump.head \in Places /\ dump.i \in 0 .. RingSize /\ dump.since \in Seqs
        /\ dump.out \in Seq(Seen) /\ Len(dump.out) <= dump.i
    BY <1>1 DEF RingTypes, DumpState
  <1>3. \A q \in Polls : /\ poll[q].st \in {"idle", "asked", "served", "answered"}
                        /\ poll[q].since \in Seqs /\ poll[q].out \in Seq(Seen)
    BY <1>1 DEF RingTypes, PollState
  <1>4. \A l \in Seq(Seen) : Emits(l) \subseteq 1 .. MaxSeq
    BY DEF Emits, Seen
  <1>5. Len(dump.out) <= RingSize
    <2>1. Len(dump.out) \in Nat /\ dump.i \in Nat /\ dump.i <= RingSize
      BY <1>2, LenProperties
    <2> QED BY <1>2, <2>1
  <1>6. puts \in 0 .. MaxSeq
    BY <1>1 DEF RingTypes
  <1>7. RingTypeOK
    BY <1>1, <1>2, <1>3, <1>4, <1>5, <1>6 DEF RingTypes, RingTypeOK
  <1> QED BY <1>1, <1>7 DEF RingSafety, DumpInv

(* Types hold, and no dump has a telegram twice, however many puts overtake *)
(* it (telemetry.c:254-269).                                               *)
THEOREM RingIsSound == RingSpec => []RingSafety
  BY RingInvariant, RingSafetyHolds, PTL

LEMMA DumpIsComplete == RingInv => DumpComplete
  <1> SUFFICES ASSUME RingInv, httpd # None, dump.i = RingSize, NEW p \in Places,
                      ring[p] > dump.since, ring[p] < next_seq - puts
               PROVE  ring[p] \in Emits(dump.out)
    BY DEF DumpComplete
  <1>1. RingTypes /\ DumpInv
    BY DEF RingInv
  <1>2. dump.head \in Places
    BY <1>1 DEF RingTypes, DumpState
  <1>3. PICK j \in Places : p = ReadPlace(j)
    BY <1>2, ReadPlaces DEF ReadPlace
  <1>4. j \in 0 .. dump.i - 1
    BY <1>3 DEF Places
  <1> QED BY <1>1, <1>3, <1>4 DEF DumpInv, Collected

(* A dump has every telegram asked for that was in the ring when it began   *)
(* and still is when it ends, however many came meanwhile                   *)
(* (telemetry.c:245-269).                                                  *)
THEOREM DumpsAreComplete == RingSpec => []DumpComplete
  BY RingInvariant, DumpIsComplete, PTL

LEMMA CoveredIsShown == RingInv => QuietNothingLost
  BY DEF RingInv, PageCovered, Shown, QuietNothingLost, NothingSkipped

(* The page's cursor never passes a telegram that the ring still has and    *)
(* the page never showed, over lost and overlapping polls, answers in any   *)
(* order, page loads and broken dumps (telemetry.c:245-247,                 *)
(* main.ts:1042-1044).                                                     *)
THEOREM CursorPassesNothing == RingSpec => []QuietNothingLost
  BY RingInvariant, CoveredIsShown, PTL

==============================================================================
