--------------------------- MODULE WifiBoot_proofs ---------------------------
(***************************************************************************)
(* Proofs about WifiBoot: for every limit of failures, all delays and any  *)
(* number of failures, outages and restarts.                               *)
(***************************************************************************)
EXTENDS WifiBoot, TLAPS

(* Events after which the station has to be connected anew. *)
Enders == {"start"} \cup Reasons

Calm(q) == \A i \in 1 .. Len(q) : q[i] \notin Enders

(* A connection's events end with the one that ended it. *)
Closing(q) == /\ q # <<>> /\ q[Len(q)] \in Enders
              /\ \A i \in 1 .. Len(q) : q[i] \in Enders => i = Len(q)

(* What is under way, by the state of the driver: an attempt, a connection *)
(* or its end; at most one of them has something to do next.               *)
LinkInv ==
  /\ link = "off" => queue = <<>> /\ ~handler /\ bits = {} /\ timer = "none"
  /\ link = "trying" => queue = <<>>
  /\ link \in {"trying", "assoc", "ip"} =>
       handler /\ Calm(queue) /\ disc = "none" /\ timer # "armed" /\ "fail" \notin bits
  /\ link = "down" /\ queue # <<>> =>
       Closing(queue) /\ disc = "none" /\ timer # "armed" /\ "fail" \notin bits
  /\ link = "down" /\ queue = <<>> /\ handler =>
       timer = "armed" \/ disc # "none" \/ "fail" \in bits
  /\ timer = "armed" => link = "down" /\ queue = <<>> /\ disc = "none" /\ bits = {}
  /\ disc # "none" => link = "down" /\ queue = <<>> /\ bits = {} /\ timer # "armed" /\ handler
  /\ ~handler => queue = <<>>

(* What the counters and the bits say of the past. *)
PastInv ==
  /\ "fail" \in bits =>
       /\ bits = {"fail"} /\ link = "down" /\ queue = <<>> /\ disc = "none" /\ timer # "armed"
       /\ ~ever /\ authFails = AuthFailLimit
  /\ handler /\ "fail" \notin bits => authFails < AuthFailLimit
  /\ "connected" \in bits => ever /\ backoff = MinMs

(* What the main task has arranged, by where it stands. *)
MainInv ==
  /\ main = "boot" =>
       link = "off" /\ disc = "none" /\ ~ever /\ authFails = 0 /\ ~open
  /\ main \in {"wait45", "wait60"} =>
       handler /\ link # "off" /\ (timed <=> timer # "none") /\ ~open
  /\ Stopping => bits = {"fail"} /\ ~open
  /\ main = "stop" => handler /\ timer # "armed"
  /\ main = "unregister" => handler /\ timer = "none"
  /\ main = "deinit" => ~handler /\ timer = "none"
  /\ main \in {"serve", "done"} =>
       IF open THEN link = "off" /\ ~ever
               ELSE handler /\ ever /\ (timed <=> timer # "none") /\ link # "off"

StationInv == TypeOK /\ LinkInv /\ PastInv /\ MainInv

-----------------------------------------------------------------------------
(* Queues of events: the first event is taken, a new one comes last.       *)
LEMMA TakeFacts ==
  ASSUME NEW q \in Seq(Events), q # <<>>
  PROVE  /\ Tail(q) \in Seq(Events) /\ Head(q) = q[1] /\ Len(q) \in Nat /\ Len(q) >= 1
         /\ Len(Tail(q)) = Len(q) - 1
         /\ \A i \in 1 .. Len(Tail(q)) : Tail(q)[i] = q[i + 1]
  OBVIOUS

LEMMA PostFacts ==
  ASSUME NEW q \in Seq(Events), NEW e \in Events
  PROVE  /\ Append(q, e) \in Seq(Events) /\ Append(q, e) # <<>>
         /\ Len(Append(q, e)) = Len(q) + 1 /\ Len(q) \in Nat
         /\ \A i \in 1 .. Len(q) : Append(q, e)[i] = q[i]
         /\ Append(q, e)[Len(q) + 1] = e
<1>1. Append(q, e) \in Seq(Events) /\ Len(Append(q, e)) = Len(q) + 1 /\ Len(q) \in Nat
  OBVIOUS
<1>2. \A i \in 1 .. Len(q) : Append(q, e)[i] = q[i]
  OBVIOUS
<1>3. Append(q, e)[Len(q) + 1] = e
  OBVIOUS
<1>4. Append(q, e) # <<>>
  BY <1>1
<1> QED
  BY <1>1, <1>2, <1>3, <1>4

LEMMA EmptyByLength ==
  ASSUME NEW q \in Seq(Events), Len(q) = 0
  PROVE  q = <<>>
  OBVIOUS

LEMMA EmptyIsCalm == Calm(<<>>)
  BY DEF Calm

LEMMA CalmGoesOn ==
  ASSUME NEW q \in Seq(Events), Calm(q), NEW e \in Events
  PROVE  /\ e \notin Enders => Calm(Append(q, e))
         /\ e \in Enders => Closing(Append(q, e))
<1> DEFINE r == Append(q, e)
<1>1. /\ Len(r) = Len(q) + 1 /\ Len(q) \in Nat /\ r # <<>>
      /\ \A i \in 1 .. Len(q) : r[i] = q[i]
      /\ r[Len(q) + 1] = e
  BY PostFacts
<1> HIDE DEF r
<1>2. \A i \in 1 .. Len(r) : i \in 1 .. Len(q) \/ i = Len(q) + 1
  BY <1>1
<1>3. \A i \in 1 .. Len(q) : r[i] \notin Enders
  BY <1>1 DEF Calm
<1>4. e \notin Enders => Calm(r)
  BY <1>1, <1>2, <1>3 DEF Calm
<1>5. e \in Enders => Closing(r)
  BY <1>1, <1>2, <1>3 DEF Closing
<1> QED
  BY <1>4, <1>5 DEF r

LEMMA CalmTaken ==
  ASSUME NEW q \in Seq(Events), q # <<>>, Calm(q)
  PROVE  Calm(Tail(q)) /\ Head(q) \notin Enders
<1>1. /\ Head(q) = q[1] /\ Len(q) \in Nat /\ Len(q) >= 1
      /\ Len(Tail(q)) = Len(q) - 1
      /\ \A i \in 1 .. Len(Tail(q)) : Tail(q)[i] = q[i + 1]
  BY TakeFacts
<1>2. \A i \in 1 .. Len(Tail(q)) : i + 1 \in 1 .. Len(q)
  BY <1>1
<1> QED
  BY <1>1, <1>2 DEF Calm

LEMMA ClosingTaken ==
  ASSUME NEW q \in Seq(Events), Closing(q)
  PROVE  IF Head(q) \in Enders THEN Tail(q) = <<>> ELSE Closing(Tail(q))
<1>1. /\ Tail(q) \in Seq(Events)
      /\ Head(q) = q[1] /\ Len(q) \in Nat /\ Len(q) >= 1
      /\ Len(Tail(q)) = Len(q) - 1
      /\ \A i \in 1 .. Len(Tail(q)) : Tail(q)[i] = q[i + 1]
  BY TakeFacts DEF Closing
<1>2. \A i \in 1 .. Len(Tail(q)) : i + 1 \in 1 .. Len(q) /\ (i + 1 = Len(q) <=> i = Len(Tail(q)))
  BY <1>1
<1>3. CASE Head(q) \in Enders
  <2>1. Len(q) = 1
    <3>1. 1 \in 1 .. Len(q) /\ q[1] \in Enders
      BY <1>1, <1>3
    <3> QED
      BY <3>1 DEF Closing
  <2>2. Len(Tail(q)) = 0
    BY <1>1, <2>1
  <2>3. Tail(q) = <<>>
    BY <1>1, <2>2, EmptyByLength
  <2> QED
    BY <1>3, <2>3
<1>4. CASE Head(q) \notin Enders
  <2>1. Len(q) # 1
    BY <1>1, <1>4 DEF Closing
  <2>2. Len(Tail(q)) \in 1 .. Len(Tail(q)) /\ Tail(q) # <<>>
    <3>1. Len(Tail(q)) \in Nat /\ Len(Tail(q)) >= 1
      BY <1>1, <2>1
    <3>2. \A n \in Nat : n >= 1 => n \in 1 .. n /\ n # 0
      OBVIOUS
    <3>3. Len(<<>>) = 0
      OBVIOUS
    <3> QED
      BY <3>1, <3>2, <3>3, Zenon
  <2>3. Tail(q)[Len(Tail(q))] \in Enders
    BY <1>1, <1>2, <2>2 DEF Closing
  <2>4. \A i \in 1 .. Len(Tail(q)) : Tail(q)[i] \in Enders => i = Len(Tail(q))
    BY <1>1, <1>2 DEF Closing
  <2> QED
    BY <1>4, <2>2, <2>3, <2>4 DEF Closing
<1> QED
  BY <1>3, <1>4

LEMMA StartIsClosing == <<"start">> \in Seq(Events) /\ Closing(<<"start">>)
  BY DEF Closing, Enders, Events, Reasons

(* The services of a start are services. *)
LEMMA ServicesTyped ==
  /\ NormalServices \in Seq(Services) /\ ProvisioningServices \in Seq(Services)
<1>1. \A i \in DOMAIN NormalServices : NormalServices[i] \in Services
  BY DEF Services
<1>2. \A i \in DOMAIN ProvisioningServices : ProvisioningServices[i] \in Services
  BY DEF Services
<1>3. Len(NormalServices) = 5 /\ Len(ProvisioningServices) = 4
  BY DEF NormalServices, ProvisioningServices
<1> QED
  BY <1>1, <1>2, <1>3 DEF NormalServices, ProvisioningServices

(* The delay grows within its limits. *)
LEMMA DoubledTyped ==
  ASSUME NEW ms \in MinMs .. MaxMs
  PROVE  Doubled(ms) \in MinMs .. MaxMs
  BY DelaysAssumption DEF Doubled

-----------------------------------------------------------------------------
(* The driver posts the end of an attempt or of a connection.              *)
LEMMA EndPosted ==
  ASSUME StationInv, NEW r \in Reasons, link \in {"trying", "assoc", "ip"}, Post(r)
  PROVE  queue' \in Seq(Events) /\ Closing(queue') /\ queue' # <<>> /\ handler
<1>1. handler /\ Calm(queue) /\ queue \in Seq(Events)
  BY DEF StationInv, LinkInv, TypeOK
<1>2. r \in Events /\ r \in Enders
  BY DEF Events, Enders
<1>3. queue' = Append(queue, r)
  BY <1>1 DEF Post
<1> QED
  BY <1>1, <1>2, <1>3, CalmGoesOn, PostFacts

(* The steps of the driver and of the air.                                 *)
LEMMA DriverKeepsInv ==
  ASSUME StationInv, Driver \/ LinkLost \/ RouterGoes \/ RouterComes
  PROVE  StationInv'
<1>1. CASE AttemptSucceeds
  <2>1. /\ link = "trying" /\ link' = "assoc" /\ queue = <<>> /\ handler
        /\ queue' = Append(queue, "connected")
        /\ UNCHANGED <<air, station, mode>>
    BY <1>1 DEF AttemptSucceeds, Post, StationInv, LinkInv
  <2>2. Calm(queue') /\ queue' \in Seq(Events)
    BY <2>1, EmptyIsCalm, CalmGoesOn, PostFacts DEF Enders, Events, Reasons, StationInv, TypeOK
  <2>3. TypeOK'
    BY <2>1, <2>2 DEF air, station, mode, StationInv, TypeOK
  <2>4. LinkInv'
    BY <2>1, <2>2 DEF station, StationInv, LinkInv
  <2>5. PastInv' /\ MainInv'
    BY <2>1 DEF station, mode, StationInv, LinkInv, PastInv, MainInv, Stopping
  <2> QED
    BY <2>3, <2>4, <2>5 DEF StationInv
<1>2. CASE AttemptFails \/ LinkLost
  <2>1. /\ link \in {"trying", "assoc", "ip"} /\ link' = "down"
        /\ noise' \in 0 .. MaxNoise
        /\ UNCHANGED <<cfg, router, outages, resets, station, mode>>
    BY <1>2, BoundsAssumption DEF AttemptFails, LinkLost, StationInv, TypeOK
  <2>2. PICK r \in Reasons : Post(r)
    BY <1>2 DEF AttemptFails, LinkLost
  <2>3. queue' \in Seq(Events) /\ Closing(queue') /\ queue' # <<>> /\ handler
    BY <2>1, <2>2, EndPosted
  <2>4. TypeOK'
    BY <2>1, <2>3 DEF station, mode, StationInv, TypeOK
  <2>5. LinkInv'
    BY <2>1, <2>3 DEF station, StationInv, LinkInv
  <2>6. PastInv' /\ MainInv'
    BY <2>1 DEF station, mode, StationInv, LinkInv, PastInv, MainInv, Stopping
  <2> QED
    BY <2>4, <2>5, <2>6 DEF StationInv
<1>3. CASE GetAddress
  <2>1. /\ link = "assoc" /\ link' = "ip" /\ handler /\ Calm(queue) /\ queue \in Seq(Events)
        /\ queue' = queue \/ queue' = Append(queue, "got_ip")
        /\ UNCHANGED <<air, station, mode>>
    BY <1>3 DEF GetAddress, Post, StationInv, LinkInv, TypeOK
  <2>2. Calm(queue') /\ queue' \in Seq(Events)
    BY <2>1, CalmGoesOn, PostFacts DEF Enders, Events, Reasons
  <2>3. TypeOK'
    BY <2>1, <2>2 DEF air, station, mode, StationInv, TypeOK
  <2>4. LinkInv'
    BY <2>1, <2>2 DEF station, StationInv, LinkInv
  <2>5. PastInv' /\ MainInv'
    BY <2>1 DEF station, mode, StationInv, LinkInv, PastInv, MainInv, Stopping
  <2> QED
    BY <2>3, <2>4, <2>5 DEF StationInv
<1>4. CASE RouterGoes \/ RouterComes
  <2>1. router' \in BOOLEAN /\ UNCHANGED <<cfg, noise, resets, driver, station, mode>>
    BY <1>4 DEF RouterGoes, RouterComes
  <2>2. outages' \in 0 .. MaxOutages
    BY <1>4, BoundsAssumption DEF RouterGoes, RouterComes, StationInv, TypeOK
  <2>3. TypeOK'
    BY <2>1, <2>2 DEF driver, station, mode, StationInv, TypeOK
  <2>4. LinkInv' /\ PastInv' /\ MainInv'
    BY <2>1 DEF driver, station, mode, StationInv, LinkInv, PastInv, MainInv, Stopping
  <2> QED
    BY <2>3, <2>4 DEF StationInv
<1> QED
  BY <1>1, <1>2, <1>3, <1>4 DEF Driver

(* An event is taken: what that says of the state, and what is left.       *)
LEMMA EventTaken ==
  ASSUME StationInv, NEW e \in Events, Arriving(e)
  PROVE  /\ queue' \in Seq(Events) /\ handler /\ disc = "none" /\ "fail" \notin bits
         /\ timer # "armed" /\ link \in {"down", "assoc", "ip"}
         /\ e \in Enders => link = "down" /\ queue' = <<>>
         /\ e \notin Enders => IF link = "down" THEN Closing(queue') ELSE Calm(queue')
<1>1. /\ handler /\ disc = "none" /\ queue # <<>> /\ Head(queue) = e /\ queue' = Tail(queue)
      /\ queue \in Seq(Events)
  BY DEF Arriving, StationInv, TypeOK
<1>2. queue' \in Seq(Events)
  BY <1>1, TakeFacts
<1>3. link \in {"down", "assoc", "ip"} /\ timer # "armed" /\ "fail" \notin bits
  BY <1>1 DEF StationInv, LinkInv, TypeOK
<1>4. CASE link = "down"
  <2>1. Closing(queue)
    BY <1>1, <1>4 DEF StationInv, LinkInv
  <2> QED
    BY <1>1, <1>2, <1>3, <1>4, <2>1, ClosingTaken
<1>5. CASE link \in {"assoc", "ip"}
  <2>1. Calm(queue)
    BY <1>5 DEF StationInv, LinkInv
  <2> QED
    BY <1>1, <1>2, <1>3, <1>5, <2>1, CalmTaken
<1> QED
  BY <1>3, <1>4, <1>5

(* Whoever handles events has not given up: the main task stands before    *)
(* the fall-back, or serves as a station.                                  *)
LEMMA WhileHandling ==
  ASSUME StationInv, handler, "fail" \notin bits
  PROVE  /\ main \in {"wait45", "wait60", "serve", "done"} /\ ~open /\ link # "off"
         /\ authFails < AuthFailLimit
  BY DEF StationInv, TypeOK, LinkInv, PastInv, MainInv, Stopping

(* on_event. *)
LEMMA EventKeepsInv ==
  ASSUME StationInv, Event
  PROVE  StationInv'
<1>1. CASE OnStart
  <2>1. "start" \in Events /\ "start" \in Enders
    BY DEF Events, Enders
  <2>2. Arriving("start") /\ backoff' = MinMs /\ Connect
        /\ UNCHANGED <<air, timed, handler, disc, timer, bits, authFails, ever, mode>>
    BY <1>1 DEF OnStart
  <2>3. /\ queue' = <<>> /\ queue' \in Seq(Events) /\ link = "down" /\ link' = "trying"
        /\ handler /\ disc = "none" /\ "fail" \notin bits /\ timer # "armed"
    BY <2>1, <2>2, EventTaken DEF Connect
  <2>4. MinMs \in MinMs .. MaxMs
    BY DelaysAssumption
  <2>5. TypeOK'
    BY <2>2, <2>3, <2>4 DEF air, mode, StationInv, TypeOK
  <2>6. LinkInv'
    BY <2>2, <2>3, EmptyIsCalm DEF StationInv, LinkInv
  <2>7. PastInv'
    BY <2>2, <2>3 DEF StationInv, PastInv
  <2>8. MainInv'
    BY <2>2, <2>3 DEF mode, StationInv, MainInv, Stopping
  <2> QED
    BY <2>5, <2>6, <2>7, <2>8 DEF StationInv
<1>2. CASE OnConnected \/ OnGotIp
  <2>1. PICK e \in {"connected", "got_ip"} : Arriving(e)
    BY <1>2 DEF OnConnected, OnGotIp
  <2>2. e \in Events /\ e \notin Enders
    BY DEF Events, Enders, Reasons
  <2>3. /\ queue' \in Seq(Events) /\ handler /\ disc = "none" /\ "fail" \notin bits
        /\ timer # "armed" /\ link \in {"down", "assoc", "ip"}
        /\ IF link = "down" THEN Closing(queue') ELSE Calm(queue')
    BY <2>1, <2>2, EventTaken
  <2>4. UNCHANGED <<air, timed, link, handler, disc, timer, mode>>
    BY <1>2 DEF OnConnected, OnGotIp
  <2>5. \/ UNCHANGED <<authFails, backoff, ever, bits>>
        \/ authFails' = 0 /\ backoff' = MinMs /\ ever' = TRUE /\ bits' = bits \cup {"connected"}
    BY <1>2 DEF OnConnected, OnGotIp, Online
  <2>6. main \in {"wait45", "wait60", "serve", "done"} /\ ~open /\ link # "off"
    BY <2>3, WhileHandling
  <2>7. MinMs \in MinMs .. MaxMs /\ 0 \in 0 .. AuthFailLimit /\ 0 < AuthFailLimit
    BY DelaysAssumption, AuthFailLimitAssumption
  <2>8. TypeOK'
    <3>1. /\ authFails' \in 0 .. AuthFailLimit /\ backoff' \in MinMs .. MaxMs
          /\ ever' \in BOOLEAN /\ bits' \subseteq {"connected", "fail"}
      BY <2>5, <2>7 DEF StationInv, TypeOK
    <3> QED
      BY <2>3, <2>4, <3>1 DEF air, mode, StationInv, TypeOK
  <2>9. LinkInv'
    BY <2>3, <2>4, <2>5 DEF StationInv, LinkInv, Closing
  <2>10. PastInv'
    BY <2>3, <2>4, <2>5, <2>7 DEF StationInv, LinkInv, PastInv
  <2>11. MainInv'
    BY <2>3, <2>4, <2>5, <2>6 DEF mode, StationInv, MainInv, Stopping
  <2> QED
    BY <2>8, <2>9, <2>10, <2>11 DEF StationInv
<1>3. CASE OnDisconnected
  <2>1. PICK r \in Reasons : Arriving(r) /\ disc' = r
    BY <1>3 DEF OnDisconnected
  <2>2. r \in Events /\ r \in Enders /\ r # "none"
    BY DEF Events, Enders, Reasons
  <2>3. /\ queue' \in Seq(Events) /\ queue' = <<>> /\ handler /\ "fail" \notin bits
        /\ timer # "armed" /\ link = "down"
    BY <2>1, <2>2, EventTaken
  <2>4. bits' = bits \ {"connected"}
        /\ UNCHANGED <<air, timed, link, handler, timer, backoff, authFails, ever, mode>>
    BY <1>3 DEF OnDisconnected
  <2>5. bits' = {}
    BY <2>3, <2>4 DEF StationInv, TypeOK
  <2>6. main \in {"wait45", "wait60", "serve", "done"} /\ authFails < AuthFailLimit
    BY <2>3, WhileHandling
  <2>7. TypeOK'
    BY <2>1, <2>3, <2>4, <2>5 DEF air, mode, StationInv, TypeOK
  <2>8. LinkInv'
    BY <2>1, <2>2, <2>3, <2>4, <2>5 DEF LinkInv
  <2>9. PastInv'
    BY <2>3, <2>4, <2>5, <2>6 DEF StationInv, PastInv
  <2>10. MainInv'
    BY <2>3, <2>4, <2>5, <2>6 DEF mode, StationInv, MainInv, Stopping
  <2> QED
    BY <2>7, <2>8, <2>9, <2>10 DEF StationInv
<1>4. CASE Decide
  <2>1. /\ disc # "none" /\ disc' = "none"
        /\ UNCHANGED <<air, timed, queue, handler, ever, mode>>
    BY <1>4 DEF Decide
  <2>2. /\ link = "down" /\ queue = <<>> /\ bits = {} /\ timer # "armed" /\ handler
        /\ "fail" \notin bits
    BY <2>1 DEF StationInv, LinkInv
  <2>3. /\ main \in {"wait45", "wait60", "serve", "done"} /\ ~open
        /\ authFails < AuthFailLimit
    BY <2>2, WhileHandling
  <2>4. ScheduleReconnect =>
          IF timer = "none" THEN timer' = "none" /\ backoff' = backoff /\ link' = "trying"
          ELSE timer' = "armed" /\ backoff' = Doubled(backoff) /\ link' = "down"
    BY <2>2 DEF ScheduleReconnect, Connect
  <2>5. Doubled(backoff) \in MinMs .. MaxMs /\ backoff \in MinMs .. MaxMs
    BY DoubledTyped DEF StationInv, TypeOK
  <2>6. timed <=> timer # "none"
    BY <2>2, <2>3 DEF StationInv, MainInv
  <2>7. CASE /\ ~ever /\ authFails' = authFails + 1 /\ authFails' >= AuthFailLimit
             /\ bits' = bits \cup {"fail"} /\ UNCHANGED <<link, timer, backoff>>
    <3>1. authFails' = AuthFailLimit /\ authFails' \in 0 .. AuthFailLimit
      BY <2>3, <2>7, AuthFailLimitAssumption DEF StationInv, TypeOK
    <3>2. bits' = {"fail"}
      BY <2>2, <2>7
    <3>3. main \in {"wait45", "wait60"}
      BY <2>3, <2>7 DEF StationInv, MainInv
    <3>4. TypeOK'
      BY <2>1, <2>5, <2>7, <3>1, <3>2 DEF air, mode, StationInv, TypeOK
    <3>5. LinkInv'
      BY <2>1, <2>2, <2>7, <3>2 DEF LinkInv
    <3>6. PastInv'
      BY <2>1, <2>2, <2>7, <3>1, <3>2 DEF PastInv
    <3>7. MainInv'
      BY <2>1, <2>2, <2>3, <2>6, <2>7, <3>3 DEF mode, MainInv, Stopping
    <3> QED
      BY <3>4, <3>5, <3>6, <3>7 DEF StationInv
  <2>8. CASE ScheduleReconnect /\ UNCHANGED bits /\ authFails' < AuthFailLimit
             /\ authFails' \in 0 .. AuthFailLimit
    <3>1. TypeOK'
      <4>1. timer' \in {"none", "armed"} /\ link' \in {"trying", "down"} /\ backoff' \in MinMs .. MaxMs
        BY <2>4, <2>5, <2>8
      <4> QED
        BY <2>1, <2>8, <4>1 DEF air, mode, StationInv, TypeOK
    <3>2. LinkInv'
      <4>1. bits' = {} /\ queue' = <<>> /\ disc' = "none" /\ handler'
        BY <2>1, <2>2, <2>8
      <4> QED
        BY <2>4, <2>8, <4>1, EmptyIsCalm DEF LinkInv
    <3>3. PastInv'
      BY <2>1, <2>2, <2>8 DEF PastInv
    <3>4. MainInv'
      <4>1. (timed <=> timer # "none")' /\ link' # "off"
        BY <2>1, <2>4, <2>6, <2>8
      <4> QED
        BY <2>1, <2>2, <2>3, <2>8, <4>1 DEF mode, StationInv, MainInv, Stopping
    <3> QED
      BY <3>1, <3>2, <3>3, <3>4 DEF StationInv
  <2>9. authFails \in 0 .. AuthFailLimit
    BY DEF StationInv, TypeOK
  <2>10. CASE ~ever /\ disc = "auth"
    <3>1. authFails' = authFails + 1
          /\ IF authFails' >= AuthFailLimit
             THEN bits' = bits \cup {"fail"} /\ UNCHANGED <<link, timer, backoff>>
             ELSE ScheduleReconnect /\ UNCHANGED bits
      BY <1>4, <2>10 DEF Decide
    <3>2. authFails' < AuthFailLimit \/ authFails' >= AuthFailLimit
      BY <2>9, <3>1, AuthFailLimitAssumption
    <3>3. authFails' < AuthFailLimit => authFails' \in 0 .. AuthFailLimit
      BY <2>9, <3>1, AuthFailLimitAssumption
    <3>4. authFails' < AuthFailLimit => ~(authFails' >= AuthFailLimit)
      BY <2>9, <3>1, AuthFailLimitAssumption
    <3> QED
      BY <2>7, <2>8, <2>10, <3>1, <3>2, <3>3, <3>4
  <2>11. CASE ~(~ever /\ disc = "auth")
    <3>1. ScheduleReconnect /\ UNCHANGED <<authFails, bits>>
      BY <1>4, <2>11 DEF Decide
    <3> QED
      BY <2>3, <2>8, <2>9, <3>1
  <2> QED
    BY <2>10, <2>11
<1> QED
  BY <1>1, <1>2, <1>3, <1>4 DEF Event

(* The timer task. *)
LEMMA TimerKeepsInv ==
  ASSUME StationInv, TimerFires
  PROVE  StationInv'
<1>1. /\ timer = "armed" /\ timer' = "idle" /\ Connect
      /\ UNCHANGED <<air, timed, queue, handler, disc, backoff, bits, authFails, ever, mode>>
  BY DEF TimerFires
<1>2. link = "down" /\ link' = "trying" /\ queue = <<>> /\ disc = "none" /\ bits = {}
  BY <1>1 DEF Connect, StationInv, LinkInv
<1>3. handler /\ main \notin {"boot", "deinit"} /\ ~Stopping
  BY <1>1, <1>2 DEF StationInv, LinkInv, MainInv, TypeOK, Stopping
<1>4. TypeOK'
  BY <1>1, <1>2 DEF air, mode, StationInv, TypeOK
<1>5. LinkInv'
  BY <1>1, <1>2, <1>3, EmptyIsCalm DEF LinkInv
<1>6. PastInv'
  BY <1>1, <1>2 DEF StationInv, PastInv
<1>7. MainInv'
  BY <1>1, <1>2, <1>3 DEF mode, StationInv, MainInv, Stopping
<1> QED
  BY <1>4, <1>5, <1>6, <1>7 DEF StationInv

(* The main task: start, waits, fall-back, services.                       *)
LEMMA MainKeepsInv ==
  ASSUME StationInv, Main
  PROVE  StationInv'
<1>1. CASE BootUnprovisioned
  <2>1. /\ main = "boot" /\ main' = "serve" /\ open' = TRUE /\ todo' \in Seq(Services)
        /\ UNCHANGED <<air, driver, station, up, broken>>
    BY <1>1, ServicesTyped DEF BootUnprovisioned, Serve
  <2>2. TypeOK'
    BY <2>1 DEF air, driver, station, StationInv, TypeOK
  <2>3. LinkInv' /\ PastInv'
    BY <2>1 DEF driver, station, StationInv, LinkInv, PastInv
  <2>4. MainInv'
    BY <2>1 DEF driver, station, StationInv, MainInv, Stopping
  <2> QED
    BY <2>2, <2>3, <2>4 DEF StationInv
<1>2. CASE BootStation
  <2>1. /\ main = "boot" /\ main' = "wait45"
        /\ handler' = TRUE /\ timer' \in {"idle", "none"} /\ timed' = (timer' = "idle") /\ backoff' = MinMs
        /\ bits' = {} /\ authFails' = 0
        /\ link' = "down" /\ queue' = <<"start">>
        /\ UNCHANGED <<air, disc, ever, todo, up, broken, open>>
    BY <1>2 DEF BootStation
  <2>2. /\ disc = "none" /\ ~ever /\ ~open
        /\ queue' \in Seq(Events) /\ Closing(queue') /\ queue' # <<>>
    BY <2>1, StartIsClosing DEF StationInv, MainInv, Closing
  <2>3. MinMs \in MinMs .. MaxMs /\ 0 \in 0 .. AuthFailLimit /\ 0 < AuthFailLimit
    BY DelaysAssumption, AuthFailLimitAssumption
  <2>4. TypeOK'
    BY <2>1, <2>2, <2>3 DEF air, StationInv, TypeOK
  <2>5. LinkInv'
    BY <2>1, <2>2 DEF LinkInv
  <2>6. PastInv'
    BY <2>1, <2>3 DEF PastInv
  <2>7. MainInv'
    BY <2>1, <2>2 DEF MainInv, Stopping
  <2> QED
    BY <2>4, <2>5, <2>6, <2>7 DEF StationInv
<1>3. CASE WaitTimesOut
  <2>1. /\ main = "wait45" /\ main' = "wait60"
        /\ UNCHANGED <<air, driver, station, todo, up, broken, open>>
    BY <1>3 DEF WaitTimesOut
  <2>2. TypeOK'
    BY <2>1 DEF air, driver, station, StationInv, TypeOK
  <2> QED
    BY <2>1, <2>2 DEF driver, station, StationInv, LinkInv, PastInv, MainInv, Stopping
<1>4. CASE WaitSucceeds
  <2>1. /\ main \in {"wait45", "wait60"} /\ "connected" \in bits
        /\ main' = "serve" /\ open' = FALSE /\ todo' \in Seq(Services)
        /\ UNCHANGED <<air, driver, station, up, broken>>
    BY <1>4, ServicesTyped DEF WaitSucceeds, Serve
  <2>2. TypeOK'
    BY <2>1 DEF air, driver, station, StationInv, TypeOK
  <2>3. LinkInv' /\ PastInv'
    BY <2>1 DEF driver, station, StationInv, LinkInv, PastInv
  <2>4. MainInv'
    BY <2>1 DEF driver, station, StationInv, PastInv, MainInv, Stopping
  <2> QED
    BY <2>2, <2>3, <2>4 DEF StationInv
<1>5. CASE WaitFails
  <2>1. /\ main \in {"wait45", "wait60"} /\ bits = {"fail"} /\ main' = "stop"
        /\ UNCHANGED <<air, driver, station, todo, up, broken, open>>
    BY <1>5 DEF WaitFails
  <2>2. timer # "armed"
    BY <2>1 DEF StationInv, TypeOK, PastInv, MainInv
  <2>3. TypeOK'
    BY <2>1 DEF air, driver, station, StationInv, TypeOK
  <2>4. LinkInv' /\ PastInv'
    BY <2>1 DEF driver, station, StationInv, LinkInv, PastInv
  <2>5. MainInv'
    BY <2>1, <2>2 DEF driver, station, StationInv, MainInv, Stopping
  <2> QED
    BY <2>3, <2>4, <2>5 DEF StationInv
<1>6. CASE StopTimer
  <2>1. /\ main = "stop" /\ main' = "unregister" /\ timer' = "none"
        /\ UNCHANGED <<air, timed, driver, handler, disc, backoff, bits, authFails, ever, todo, up, broken, open>>
    BY <1>6 DEF StopTimer
  <2>2. bits = {"fail"} /\ disc = "none" /\ link = "down" /\ queue = <<>> /\ handler /\ ~open
    BY <2>1 DEF StationInv, PastInv, MainInv, Stopping
  <2>3. TypeOK'
    BY <2>1 DEF air, driver, StationInv, TypeOK
  <2>4. LinkInv' /\ PastInv'
    BY <2>1, <2>2 DEF driver, StationInv, LinkInv, PastInv
  <2>5. MainInv'
    BY <2>1, <2>2 DEF driver, MainInv, Stopping
  <2> QED
    BY <2>3, <2>4, <2>5 DEF StationInv
<1>7. CASE Unregister
  <2>1. /\ main = "unregister" /\ main' = "deinit" /\ handler' = FALSE /\ queue' = <<>>
        /\ UNCHANGED <<air, timed, link, disc, timer, backoff, bits, authFails, ever, todo, up, broken, open>>
    BY <1>7 DEF Unregister
  <2>2. bits = {"fail"} /\ disc = "none" /\ link = "down" /\ queue = <<>> /\ timer = "none" /\ ~open
    BY <2>1 DEF StationInv, PastInv, MainInv, Stopping
  <2>3. TypeOK'
    BY <2>1, <2>2 DEF air, StationInv, TypeOK
  <2>4. LinkInv' /\ PastInv'
    BY <2>1, <2>2 DEF StationInv, LinkInv, PastInv
  <2>5. MainInv'
    BY <2>1, <2>2 DEF MainInv, Stopping
  <2> QED
    BY <2>3, <2>4, <2>5 DEF StationInv
<1>8. CASE Deinit
  <2>1. /\ main = "deinit" /\ main' = "serve" /\ open' = TRUE /\ todo' \in Seq(Services)
        /\ link' = "off" /\ bits' = {}
        /\ UNCHANGED <<air, timed, queue, handler, disc, timer, backoff, authFails, ever, up, broken>>
    BY <1>8, ServicesTyped DEF Deinit, Serve
  <2>2. disc = "none" /\ queue = <<>> /\ timer = "none" /\ ~handler /\ ~ever
    BY <2>1 DEF StationInv, PastInv, MainInv, Stopping
  <2>3. TypeOK'
    BY <2>1, <2>2 DEF air, StationInv, TypeOK
  <2>4. LinkInv' /\ PastInv'
    BY <2>1, <2>2 DEF LinkInv, PastInv
  <2>5. MainInv'
    BY <2>1, <2>2 DEF MainInv, Stopping
  <2> QED
    BY <2>3, <2>4, <2>5 DEF StationInv
<1>9. CASE StartService
  <2>1. main = "serve" /\ main' \in {"serve", "done"} /\ UNCHANGED <<air, driver, station, open>>
    BY <1>9 DEF StartService
  <2>2. todo' \in Seq(Services) /\ up' \subseteq Services /\ broken' \subseteq Services
    <3>1. todo \in Seq(Services) /\ up \subseteq Services /\ broken \subseteq Services
      BY DEF StationInv, TypeOK
    <3>2. CASE todo = <<>>
      BY <1>9, <3>1, <3>2 DEF StartService
    <3>3. CASE todo # <<>>
      <4>1. Head(todo) \in Services /\ Tail(todo) \in Seq(Services)
        BY <3>1, <3>3
      <4> QED
        BY <1>9, <3>1, <3>3, <4>1 DEF StartService
    <3> QED
      BY <3>2, <3>3
  <2>3. TypeOK'
    BY <2>1, <2>2 DEF air, driver, station, StationInv, TypeOK
  <2>4. LinkInv' /\ PastInv' /\ MainInv'
    BY <2>1 DEF driver, station, StationInv, LinkInv, PastInv, MainInv, Stopping
  <2> QED
    BY <2>3, <2>4 DEF StationInv
<1> QED
  BY <1>1, <1>2, <1>3, <1>4, <1>5, <1>6, <1>7, <1>8, <1>9 DEF Main

(* Before the first connection nothing has happened. *)
LEMMA StartIsQuiet ==
  ASSUME link = "off", queue = <<>>, handler = FALSE, disc = "none", timer = "none",
         bits = {}, authFails = 0, ever = FALSE, main = "boot", open = FALSE
  PROVE  LinkInv /\ PastInv /\ MainInv
  BY DEF LinkInv, PastInv, MainInv, Stopping

LEMMA InitInv == Init => StationInv
<1> SUFFICES ASSUME Init PROVE StationInv
  OBVIOUS
<1>1. MinMs \in MinMs .. MaxMs /\ 0 \in 0 .. AuthFailLimit
  BY DelaysAssumption, AuthFailLimitAssumption
<1>2. 0 \in 0 .. MaxNoise /\ 0 \in 0 .. MaxOutages /\ 0 \in 0 .. MaxResets
  BY BoundsAssumption
<1>3. <<>> \in Seq(Events) /\ <<>> \in Seq(Services)
  OBVIOUS
<1>4. TypeOK
  BY <1>1, <1>2, <1>3 DEF Init, TypeOK
<1> QED
  BY <1>4, StartIsQuiet DEF Init, StationInv

LEMMA ResetKeepsInv ==
  ASSUME StationInv, Reset
  PROVE  StationInv'
<1>1. /\ resets' \in 0 .. MaxResets
      /\ link' = "off" /\ queue' = <<>>
      /\ handler' = FALSE /\ disc' = "none" /\ timer' = "none" /\ timed' = FALSE /\ backoff' = MinMs
      /\ bits' = {} /\ authFails' = 0 /\ ever' = FALSE
      /\ main' = "boot" /\ todo' = <<>> /\ up' = {} /\ broken' = {} /\ open' = FALSE
      /\ UNCHANGED <<cfg, router, noise, outages>>
  BY BoundsAssumption DEF Reset, StationInv, TypeOK
<1>2. MinMs \in MinMs .. MaxMs /\ 0 \in 0 .. AuthFailLimit
  BY DelaysAssumption, AuthFailLimitAssumption
<1>3. <<>> \in Seq(Events) /\ <<>> \in Seq(Services)
  OBVIOUS
<1>4. TypeOK'
  BY <1>1, <1>2, <1>3 DEF StationInv, TypeOK
<1>5. LinkInv' /\ PastInv' /\ MainInv'
  BY <1>1 DEF LinkInv, PastInv, MainInv, Stopping
<1> QED
  BY <1>4, <1>5 DEF StationInv

LEMMA StepKeepsInv ==
  ASSUME StationInv, [Next]_vars
  PROVE  StationInv'
<1>1. CASE UNCHANGED vars
  <2>1. TypeOK'
    BY <1>1 DEF vars, air, driver, station, mode, StationInv, TypeOK
  <2>2. LinkInv' /\ PastInv' /\ MainInv'
    BY <1>1 DEF vars, air, driver, station, mode, StationInv, LinkInv, PastInv, MainInv, Stopping
  <2> QED
    BY <2>1, <2>2 DEF StationInv
<1> QED
  BY <1>1, DriverKeepsInv, EventKeepsInv, TimerKeepsInv, MainKeepsInv, ResetKeepsInv DEF Next

-----------------------------------------------------------------------------
(* The inductive invariant of the station, its timer and the main task.    *)
THEOREM StationInvariant == Spec => []StationInv
<1>1. StationInv /\ [Next]_vars => StationInv'
  BY StepKeepsInv
<1> QED
  BY InitInv, <1>1, PTL DEF Spec

(* Types, whoever has given up is quiet, every outage starts with the      *)
(* short delay (wifi_sta.c:42-58, 256-257).                                *)
THEOREM StationSafe == Spec => []Safety
<1>1. StationInv => Safety
  <2> SUFFICES ASSUME StationInv PROVE Safety
    OBVIOUS
  <2>1. TypeOK
    BY DEF StationInv
  <2>2. GivenUpIsQuiet
    BY DEF StationInv, LinkInv, PastInv, GivenUpIsQuiet
  <2>3. FreshOutage
    BY DEF StationInv, LinkInv, PastInv, FreshOutage
  <2> QED
    BY <2>1, <2>2, <2>3 DEF Safety
<1> QED
  BY StationInvariant, <1>1, PTL

(* A lost connection always has the next attempt coming, for any history   *)
(* of failures (wifi_sta.c:101-104).                                       *)
THEOREM AttemptAlwaysPending == Spec => []AttemptPending
<1>1. StationInv => AttemptPending
  <2> SUFFICES ASSUME StationInv, handler, ~Stopping, "fail" \notin bits, link = "down",
                      timer # "armed", disc = "none"
               PROVE  \E i \in DOMAIN queue : queue[i] \in {"start"} \cup Reasons
    BY DEF AttemptPending
  <2>1. Closing(queue) /\ queue \in Seq(Events)
    BY DEF StationInv, LinkInv, TypeOK
  <2>2. Len(queue) \in DOMAIN queue
    BY <2>1 DEF Closing
  <2>3. queue[Len(queue)] \in {"start"} \cup Reasons
    BY <2>1 DEF Closing, Enders
  <2> QED
    BY <2>2, <2>3
<1> QED
  BY StationInvariant, <1>1, PTL

(* The fall-back has its one reason, comes only before a first connection, *)
(* and never beside the station (mode_mgr.c:264-279, wifi_sta.c:26-29).    *)
THEOREM FallbackIsJustified == Spec => []FallbackJustified
<1>1. StationInv => FallbackJustified
  <2> SUFFICES ASSUME StationInv PROVE FallbackJustified
    OBVIOUS
  <2>1. NoFallbackAfterUp
    BY DEF StationInv, TypeOK, PastInv, MainInv, Stopping, NoFallbackAfterUp
  <2>2. FallbackNeedsAuth
    BY DEF StationInv, PastInv, MainInv, FallbackNeedsAuth
  <2>3. OpenPortalOffLan
    BY DEF StationInv, TypeOK, MainInv, Stopping, OpenPortalOffLan
  <2> QED
    BY <2>1, <2>2, <2>3 DEF FallbackJustified
<1> QED
  BY StationInvariant, <1>1, PTL

(* In a run that could create the timer no event makes the station try     *)
(* again by itself: the timer does (wifi_sta.c:22-23, 51-58, 159).         *)
THEOREM RetryIsPaced == Spec => RetryPaced
<1>1. ASSUME StationInv, [Next]_vars, timed, link = "down", link' = "trying"
      PROVE  timer = "armed" \/ Stopping \/ (queue # <<>> /\ Head(queue) = "start")
  <2>1. CASE OnStart
    BY <2>1 DEF OnStart, Arriving
  <2>2. CASE TimerFires
    BY <2>2 DEF TimerFires
  <2>3. CASE Decide
    <3>1. disc # "none" /\ handler /\ "fail" \notin bits
      BY <2>3, <1>1 DEF Decide, StationInv, LinkInv
    <3>2. main \in {"wait45", "wait60", "serve", "done"} /\ ~open
      BY <1>1, <3>1, WhileHandling
    <3>3. timer # "none"
      BY <1>1, <3>2 DEF StationInv, MainInv
    <3> QED
      BY <1>1, <2>3, <3>3 DEF Decide, ScheduleReconnect
  <2>4. CASE OnConnected \/ OnGotIp \/ OnDisconnected \/ Main \/ RouterGoes \/ RouterComes
    BY <1>1, <2>4 DEF OnConnected, OnGotIp, OnDisconnected, Main, BootUnprovisioned, BootStation,
       WaitTimesOut, WaitSucceeds, WaitFails, StopTimer, Unregister, Deinit, StartService,
       RouterGoes, RouterComes, driver
  <2>5. CASE Driver \/ LinkLost \/ Reset \/ UNCHANGED vars
    BY <1>1, <2>5 DEF Driver, AttemptSucceeds, AttemptFails, GetAddress, LinkLost, Reset, vars, driver
  <2> QED
    BY <1>1, <2>1, <2>2, <2>3, <2>4, <2>5 DEF Next, Event
<1>2. StationInv /\ [Next]_vars =>
        [timed /\ link = "down" /\ link' = "trying" =>
           timer = "armed" \/ Stopping \/ (queue # <<>> /\ Head(queue) = "start")]_vars
  BY <1>1
<1> QED
  BY StationInvariant, <1>2, PTL DEF Spec, RetryPaced

=============================================================================
