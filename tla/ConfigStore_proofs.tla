-------------------------- MODULE ConfigStore_proofs --------------------------
(***************************************************************************)
(* Proofs about the configuration store, for any networks, settings and    *)
(* values, and any number of requests, failing calls and power failures.   *)
(*                                                                         *)
(* A promise is kept because of what is still on its way: the pending      *)
(* writes and the writes of the groups to come agree with every value the  *)
(* owner was told (Safe).  A value that a request will promise is there    *)
(* (Safe), or written and about to be committed (Written), or still to be  *)
(* written (Coming) - or the group that writes it has failed, and then the *)
(* answer does not promise it (DueInv).                                    *)
(***************************************************************************)
EXTENDS ConfigStore, FiniteSetTheorems, SequenceTheorems, WellFoundedInduction, TLAPS

PairKeys == {"wifi_ssid", "wifi_pass", "provisioned"}
Names    == {"secrets", "sanity", "wifi", "erase"} \cup SettingKeys \cup Secrets
Kinds    == {"off", "idle", "boot", "browse", "config", "regen", "factory"}

Items(s) == {s[i] : i \in DOMAIN s}

(* Single values, several at once; only an erasure writes all keys.        *)
AllValues == Nets \cup {None} \cup BOOLEAN \cup Options \cup Nat
WriteSet  == {w \in UNION {[S -> AllValues] : S \in SUBSET Keys} :
                Partial(w) /\ (DOMAIN w = Keys => w = Erased)}
GroupSet  == [name : Names, writes : Seq(WriteSet)]

Types ==
  /\ defect \in Defects
  /\ DOMAIN flash = Keys /\ Partial(flash)
  /\ pend \in Seq(WriteSet) /\ todo \in Seq(GroupSet) /\ failed \subseteq Names
  /\ job.kind \in Kinds /\ Partial(job.gives)
  /\ job.kind = "off" <=> job = Off
  /\ job.kind = "idle" <=> job = Idle
  /\ job \in {Off, Idle} => todo = <<>> /\ failed = {}
  /\ job = Off => pend = <<>>
  /\ sta \in {None} \cup ((Nets \cup {None}) \X (Nets \cup {None}))
  /\ token \in Nat \cup {None} /\ (job # Off => token \in Nat)
  /\ Partial(promised)
  /\ restart \in BOOLEAN /\ trouble \in BOOLEAN /\ cut \in BOOLEAN
  /\ requests \in 0 .. MaxRequests /\ fails \in 0 .. MaxFails /\ crashes \in 0 .. MaxCrashes

-----------------------------------------------------------------------------
(* Values on their way.                                                    *)

(* What group g and all of todo write to key k is v.                       *)
Agree(g, k, v) == \A w \in Items(g.writes) : k \in DOMAIN w => w[k] = v
Agrees(k, v)   == \A i \in DOMAIN todo : Agree(todo[i], k, v)

(* Key k has value v on flash, and nothing on its way changes that.        *)
Safe(k, v) == /\ flash[k] = v
              /\ \A w \in Items(pend) : k \in DOMAIN w => w[k] = v
              /\ Agrees(k, v)

(* Group o has written v, and commits next.                                *)
Written(k, v, o) == /\ todo # <<>> /\ Head(todo).name = o
                    /\ Seen[k] = v /\ Agrees(k, v)

(* Group o is to write v, and nobody after it changes that.                *)
Coming(k, v, o) ==
  \E j \in DOMAIN todo :
    /\ todo[j].name = o /\ \E w \in Items(todo[j].writes) : k \in DOMAIN w
    /\ \A i \in DOMAIN todo : i >= j => Agree(todo[i], k, v)

WillBe(k, v, o) == Safe(k, v) \/ Written(k, v, o) \/ Coming(k, v, o)

(* The group of the job under way that writes what it promises for k.      *)
Owner(k) == IF job.kind = "boot" THEN "secrets"
            ELSE IF job.kind = "factory" THEN "erase"
            ELSE IF k \in PairKeys THEN "wifi" ELSE k

(* A flag comes with a pair; a secret is not empty.                        *)
WellPromised(f) ==
  /\ PairKeys \cap DOMAIN f = {} \/ PairKeys \subseteq DOMAIN f
  /\ "provisioned" \in DOMAIN f /\ f["provisioned"] => f["wifi_ssid"] # None /\ f["wifi_pass"] # None
  /\ \A k \in DOMAIN f \cap Secrets : f[k] # None

KeptInv == WellPromised(promised) /\ \A k \in DOMAIN promised : Safe(k, promised[k])

DueInv ==
  /\ WellPromised(job.gives)
  /\ job.kind = "boot" => /\ DOMAIN job.gives \subseteq Secrets
                          /\ failed \subseteq {"secrets", "sanity"}
                          /\ \A i \in DOMAIN todo : todo[i].name \in {"secrets", "sanity"}
  /\ \A k \in DOMAIN job.gives :
       {"wifi", Owner(k)} \cap failed # {} \/ WillBe(k, job.gives[k], Owner(k))

(* The token that the TCP server has or will have, and its group.          *)
Renewed  == job.kind = "regen" /\ "tcp_token" \in DOMAIN job.gives
Target   == IF Renewed THEN job.gives["tcp_token"] ELSE token
TokenInv ==
  /\ failed # {} => trouble
  /\ ~trouble /\ ~restart /\ sta # None /\ job.kind \notin {"off", "factory"}
       => WillBe("tcp_token", Target, IF Renewed THEN "tcp_token" ELSE "secrets")

-----------------------------------------------------------------------------
(* The pair.                                                               *)

Whole(f) == f["wifi_ssid"] # None /\ f["wifi_pass"] # None => f["wifi_ssid"] = f["wifi_pass"]
Plain(w) == {"wifi_ssid", "wifi_pass"} \cap DOMAIN w = {} \/ w = Erased

(* How far group "wifi" is, by the writes it has left.                     *)
Saving(writes) ==
  \E net \in Nets :
    LET ssid == Value("wifi_ssid", net)
        pass == Value("wifi_pass", net)
        flag == Value("provisioned", TRUE)
    IN  \/ writes = <<ssid, pass, flag>>
        \/ Seen["wifi_ssid"] = net /\ writes = <<pass, flag>>
        \/ Seen["wifi_ssid"] = net /\ Seen["wifi_pass"] = net /\ writes \in {<<flag>>, <<>>}

PairInv ==
  /\ sta # None => sta[1] # None /\ sta[2] # None
  /\ \A j \in DOMAIN todo :
       IF todo[j].name # "wifi" THEN \A w \in Items(todo[j].writes) : Plain(w)
       ELSE \/ j = 1 /\ Saving(todo[j].writes)
            \/ \E net \in Nets : todo[j] = SaveWifi(net)
  /\ ~cut => /\ Whole(flash)
             /\ (todo # <<>> /\ Head(todo).name = "wifi") \/ \A w \in Items(pend) : Plain(w)

(* The inductive invariant.                                                *)
ConfigInv == Types /\ KeptInv /\ DueInv /\ TokenInv /\ PairInv

-----------------------------------------------------------------------------
(* Sequences by their items.                                               *)

LEMMA AppendItems ==
  ASSUME NEW S, NEW s \in Seq(S), NEW x \in S
  PROVE  Items(Append(s, x)) = Items(s) \cup {x}
  <1>1. /\ Append(s, x) \in Seq(S) /\ Len(Append(s, x)) = Len(s) + 1 /\ Len(s) \in Nat
        /\ \A i \in 1 .. Len(s) : Append(s, x)[i] = s[i]
        /\ Append(s, x)[Len(s) + 1] = x
    BY AppendProperties
  <1>2. DOMAIN s = 1 .. Len(s) /\ DOMAIN Append(s, x) = 1 .. Len(s) + 1
    BY <1>1
  <1>3. 1 .. Len(s) + 1 = 1 .. Len(s) \cup {Len(s) + 1}
    BY <1>1
  <1> QED BY <1>1, <1>2, <1>3 DEF Items

LEMMA ConcatItems ==
  ASSUME NEW S, NEW s \in Seq(S), NEW t \in Seq(S)
  PROVE  s \o t \in Seq(S) /\ Items(s \o t) = Items(s) \cup Items(t)
  <1>1. /\ s \o t \in Seq(S) /\ Len(s \o t) = Len(s) + Len(t)
        /\ \A i \in 1 .. Len(s) + Len(t) : (s \o t)[i] = IF i <= Len(s) THEN s[i] ELSE t[i - Len(s)]
    BY ConcatProperties
  <1>2. /\ DOMAIN s = 1 .. Len(s) /\ DOMAIN t = 1 .. Len(t) /\ Len(s) \in Nat /\ Len(t) \in Nat
        /\ DOMAIN (s \o t) = 1 .. Len(s) + Len(t)
    BY <1>1
  <1>3. ASSUME NEW i \in DOMAIN s PROVE s[i] \in Items(s \o t)
    BY <1>1, <1>2 DEF Items
  <1>4. ASSUME NEW i \in DOMAIN t PROVE t[i] \in Items(s \o t)
    <2>1. i + Len(s) \in DOMAIN (s \o t) /\ (s \o t)[i + Len(s)] = t[i]
      BY <1>1, <1>2
    <2> QED BY <2>1 DEF Items
  <1>5. ASSUME NEW i \in DOMAIN (s \o t) PROVE (s \o t)[i] \in Items(s) \cup Items(t)
    BY <1>1, <1>2 DEF Items
  <1> QED BY <1>1, <1>3, <1>4, <1>5 DEF Items

LEMMA TailItems ==
  ASSUME NEW S, NEW s \in Seq(S), s # <<>>
  PROVE  /\ Head(s) = s[1] /\ Head(s) \in S /\ Tail(s) \in Seq(S) /\ Len(Tail(s)) = Len(s) - 1
         /\ DOMAIN s = 1 .. Len(s) /\ DOMAIN Tail(s) = 1 .. Len(s) - 1 /\ Len(s) \in Nat \ {0}
         /\ \A i \in 1 .. Len(s) - 1 : Tail(s)[i] = s[i + 1]
         /\ Items(s) = {Head(s)} \cup Items(Tail(s))
  <1>1. /\ Head(s) = s[1] /\ Head(s) \in S /\ Tail(s) \in Seq(S) /\ Len(Tail(s)) = Len(s) - 1
        /\ DOMAIN s = 1 .. Len(s) /\ DOMAIN Tail(s) = 1 .. Len(s) - 1 /\ Len(s) \in Nat \ {0}
        /\ \A i \in 1 .. Len(s) - 1 : Tail(s)[i] = s[i + 1]
    BY HeadTailProperties
  <1>2. ASSUME NEW i \in DOMAIN s PROVE s[i] \in {Head(s)} \cup Items(Tail(s))
    <2>1. CASE i = 1
      BY <1>1, <2>1
    <2>2. CASE i # 1
      <3>1. i - 1 \in 1 .. Len(s) - 1
        BY <1>1, <2>2
      <3>2. Tail(s)[i - 1] = s[i]
        BY <1>1, <3>1
      <3> QED BY <1>1, <3>1, <3>2 DEF Items
    <2> QED BY <2>1, <2>2
  <1>3. ASSUME NEW i \in DOMAIN Tail(s) PROVE Tail(s)[i] \in Items(s)
    BY <1>1 DEF Items
  <1>4. Head(s) \in Items(s)
    BY <1>1 DEF Items
  <1> QED BY <1>1, <1>2, <1>3, <1>4 DEF Items

LEMMA Prepended ==
  ASSUME NEW S, NEW s \in Seq(S), NEW x \in S
  PROVE  /\ <<x>> \o s \in Seq(S) /\ <<x>> \o s # <<>> /\ (<<x>> \o s)[1] = x
         /\ Len(<<x>> \o s) = Len(s) + 1 /\ DOMAIN (<<x>> \o s) = 1 .. Len(s) + 1
         /\ \A i \in 1 .. Len(s) : (<<x>> \o s)[i + 1] = s[i]
  <1>1. PICK one \in Seq(S) : one = <<x>>
    <2>1. <<x>> \in Seq(S)
      OBVIOUS
    <2> QED BY <2>1
  <1>2. Len(one) = 1 /\ one[1] = x /\ Len(s) \in Nat
    BY <1>1
  <1>3. PICK t : t = one \o s
    OBVIOUS
  <1>4. /\ t \in Seq(S) /\ Len(t) = 1 + Len(s)
        /\ \A i \in 1 .. 1 + Len(s) : t[i] = IF i <= 1 THEN one[i] ELSE s[i - 1]
    <2>1. /\ t \in Seq(S) /\ Len(t) = Len(one) + Len(s)
          /\ \A i \in 1 .. Len(one) + Len(s) :
               t[i] = IF i <= Len(one) THEN one[i] ELSE s[i - Len(one)]
      BY <1>3, ConcatProperties
    <2>2. PICK m : m = Len(one)
      OBVIOUS
    <2>3. m = 1
      BY <1>2, <2>2
    <2>4. /\ t \in Seq(S) /\ Len(t) = m + Len(s)
          /\ \A i \in 1 .. m + Len(s) : t[i] = IF i <= m THEN one[i] ELSE s[i - m]
      BY <2>1, <2>2
    <2> QED BY <2>3, <2>4
  <1>5. \A i \in 1 .. Len(s) : t[i + 1] = s[i]
    <2> TAKE i \in 1 .. Len(s)
    <2>1. i + 1 \in 1 .. 1 + Len(s) /\ ~(i + 1 <= 1) /\ (i + 1) - 1 = i
      BY <1>2
    <2> QED BY <1>4, <2>1
  <1>6. t[1] = x
    BY <1>2, <1>4
  <1>7. Len(t) = Len(s) + 1 /\ DOMAIN t = 1 .. Len(s) + 1 /\ t # <<>>
    BY <1>2, <1>4
  <1> QED BY <1>1, <1>3, <1>4, <1>5, <1>6, <1>7

LEMMA FewItems == /\ Items(<<>>) = {} /\ \A x : Items(<<x>>) = {x}
                  /\ \A x, y, z : Items(<<x, y, z>>) = {x, y, z}
  BY DEF Items

LEMMA SeqItems ==
  ASSUME NEW S, NEW s \in Seq(S) PROVE Items(s) \subseteq S
  BY DEF Items

-----------------------------------------------------------------------------
(* What NVS shows.                                                         *)

LEMMA GreatestFound ==
  ASSUME NEW n \in Nat, NEW S \in SUBSET (1 .. n), S # {}
  PROVE  \E i \in S : \A j \in S : j <= i
  <1> DEFINE D == {n - i : i \in S}
  <1>1. D \in SUBSET Nat /\ D # {}
    <2>1. \A i \in S : n - i \in Nat
      OBVIOUS
    <2> QED BY <2>1
  <1>2. IsWellFoundedOn(OpToRel(<, Nat), Nat)
    BY NatLessThanWellFounded
  <1> HIDE DEF D
  <1>3. PICK d \in D : \A y \in D : ~(<<y, d>> \in OpToRel(<, Nat))
    BY <1>1, <1>2, WFMin
  <1>4. \A y \in D : ~(y < d)
    BY <1>1, <1>3 DEF OpToRel
  <1>5. PICK i \in S : d = n - i
    BY <1>3 DEF D
  <1>6. \A j \in S : n - j \in D
    BY DEF D
  <1>7. ASSUME NEW j \in S PROVE j <= i
    BY <1>4, <1>5, <1>6
  <1> QED BY <1>7

LEMMA LastWriteFound ==
  ASSUME NEW n \in Nat, NEW k, Writes(n, k) # {}
  PROVE  LastWrite(n, k) \in Writes(n, k) /\ \A j \in Writes(n, k) : j <= LastWrite(n, k)
  <1>1. Writes(n, k) \in SUBSET (1 .. n)
    BY DEF Writes
  <1>2. \E i \in Writes(n, k) : \A j \in Writes(n, k) : j <= i
    BY <1>1, GreatestFound
  <1> QED BY <1>2 DEF LastWrite

(* Each key has its value on flash, or that of a pending write.            *)
LEMMA AppliedCases ==
  ASSUME NEW S, pend \in Seq(S), NEW n \in 0 .. Len(pend), NEW k \in Keys
  PROVE  \/ Applied(n)[k] = flash[k] /\ Writes(n, k) = {}
         \/ \E w \in Items(pend) : k \in DOMAIN w /\ Applied(n)[k] = w[k]
  <1>1. CASE Writes(n, k) = {}
    BY <1>1 DEF Applied
  <1>2. CASE Writes(n, k) # {}
    <2>1. LastWrite(n, k) \in Writes(n, k)
      BY <1>2, LastWriteFound
    <2>2. LastWrite(n, k) \in 1 .. n /\ k \in DOMAIN pend[LastWrite(n, k)]
      BY <2>1 DEF Writes
    <2>3. LastWrite(n, k) \in DOMAIN pend
      BY <2>2
    <2>4. Applied(n)[k] = pend[LastWrite(n, k)][k]
      BY <1>2 DEF Applied
    <2> QED BY <2>2, <2>3, <2>4 DEF Items
  <1> QED BY <1>1, <1>2

LEMMA SeenCases ==
  ASSUME NEW S, pend \in Seq(S), NEW k \in Keys
  PROVE  \/ Seen[k] = flash[k] /\ \A w \in Items(pend) : k \notin DOMAIN w
         \/ \E w \in Items(pend) : k \in DOMAIN w /\ Seen[k] = w[k]
  <1>1. Len(pend) \in Nat /\ DOMAIN pend = 1 .. Len(pend)
    BY LenProperties
  <1>2. Len(pend) \in 0 .. Len(pend)
    BY <1>1
  <1>3. Writes(Len(pend), k) = {} => \A w \in Items(pend) : k \notin DOMAIN w
    BY <1>1 DEF Writes, Items
  <1> QED BY <1>2, <1>3, AppliedCases DEF Seen

(* One more pending write.                                                 *)
LEMMA SeenAppend ==
  ASSUME NEW S, pend \in Seq(S), NEW w \in S, pend' = Append(pend, w), flash' = flash,
         NEW k \in Keys
  PROVE  Seen'[k] = IF k \in DOMAIN w THEN w[k] ELSE Seen[k]
  <1>1. PICK n \in Nat : n = Len(pend)
    BY LenProperties
  <1>2. PICK m \in Nat : m = n + 1
    OBVIOUS
  <1>3. /\ Len(pend') = m /\ pend'[m] = w
        /\ \A i \in 1 .. n : pend'[i] = pend[i]
    BY <1>1, <1>2, AppendProperties
  <1> DEFINE W == {i \in 1 .. Len(pend') : k \in DOMAIN pend'[i]}
             L == CHOOSE i \in W : \A j \in W : j <= i
  <1>4. Seen'[k] = IF W = {} THEN flash[k] ELSE pend'[L][k]
    <2>1. Seen' = [x \in Keys |-> IF Writes(Len(pend), x)' = {} THEN flash'[x]
                                   ELSE pend'[LastWrite(Len(pend), x)'][x]]
      BY DEF Seen, Applied
    <2>2. Writes(Len(pend), k)' = W
      BY DEF Writes
    <2>3. LastWrite(Len(pend), k)' = L
      BY DEF LastWrite, Writes
    <2>4. Seen'[k] = IF Writes(Len(pend), k)' = {} THEN flash'[k]
                     ELSE pend'[LastWrite(Len(pend), k)'][k]
      BY <2>1
    <2> QED BY <2>2, <2>3, <2>4
  <1>5. Seen[k] = IF Writes(n, k) = {} THEN flash[k] ELSE pend[LastWrite(n, k)][k]
    BY <1>1 DEF Seen, Applied
  <1>6. W # {} => L \in W /\ \A j \in W : j <= L
    <2>1. W \in SUBSET (1 .. m)
      BY <1>3
    <2> HIDE DEF W
    <2> QED BY <2>1, GreatestFound
  <1>7. CASE k \in DOMAIN w
    <2>1. m \in W
      BY <1>2, <1>3, <1>7
    <2>2. L \in 1 .. m /\ m <= L
      BY <1>3, <1>6, <2>1
    <2> HIDE DEF L
    <2>3. L = m
      BY <2>2
    <2> QED BY <1>3, <1>4, <1>7, <2>1, <2>3
  <1>8. CASE k \notin DOMAIN w
    <2>1. W = Writes(n, k)
      BY <1>2, <1>3, <1>8 DEF Writes
    <2>2. L = LastWrite(n, k)
      BY <2>1 DEF LastWrite
    <2>3. W # {} => pend'[L] = pend[LastWrite(n, k)]
      BY <1>3, <1>6, <2>1, <2>2 DEF Writes
    <2> QED BY <1>4, <1>5, <1>8, <2>1, <2>3
  <1> QED BY <1>7, <1>8

-----------------------------------------------------------------------------
(* What the calls do to the values on their way.                           *)

LEMMA WriteFacts ==
  ASSUME Types, Write
  PROVE  \E w \in WriteSet :
           /\ pend' = Append(pend, w) /\ pend' \in Seq(WriteSet)
           /\ Items(pend') = Items(pend) \cup {w}
           /\ \A k \in Keys : Seen'[k] = IF k \in DOMAIN w THEN w[k] ELSE Seen[k]
           /\ todo' \in Seq(GroupSet) /\ 1 \in DOMAIN todo /\ DOMAIN todo' = DOMAIN todo
           /\ todo'[1] = Group(todo[1].name, Tail(todo[1].writes))
           /\ \A i \in DOMAIN todo : i # 1 => todo'[i] = todo[i]
           /\ Items(todo[1].writes) = {w} \cup Items(todo'[1].writes)
           /\ todo[1].writes \in Seq(WriteSet) /\ todo[1].writes # <<>>
           /\ w = Head(todo[1].writes)
           /\ Head(todo) = todo[1] /\ Head(todo') = todo'[1]
           /\ todo # <<>> /\ todo' # <<>>
  <1> DEFINE g == Head(todo)
             t == Tail(todo)
             h == Group(g.name, Tail(g.writes))
  <1>1. /\ g = todo[1] /\ g \in GroupSet /\ t \in Seq(GroupSet) /\ todo # <<>>
        /\ DOMAIN todo = 1 .. Len(todo) /\ Len(t) = Len(todo) - 1 /\ DOMAIN t = 1 .. Len(todo) - 1
        /\ Len(todo) \in Nat \ {0}
        /\ \A i \in 1 .. Len(todo) - 1 : t[i] = todo[i + 1]
    BY TailItems DEF Types, Write, Busy
  <1>2. /\ pend' = Append(pend, Head(g.writes)) /\ g.writes # <<>> /\ flash' = flash
        /\ todo' = <<h>> \o t
    BY DEF Write, This
  <1>3. g.writes \in Seq(WriteSet) /\ g.name \in Names
    BY <1>1 DEF GroupSet
  <1>4. PICK w \in WriteSet : w = Head(g.writes) /\ Items(g.writes) = {w} \cup Items(Tail(g.writes))
                              /\ Tail(g.writes) \in Seq(WriteSet)
    BY <1>2, <1>3, TailItems
  <1>5. /\ pend' = Append(pend, w) /\ pend' \in Seq(WriteSet)
        /\ Items(pend') = Items(pend) \cup {w}
    BY <1>2, <1>4, AppendItems, AppendProperties DEF Types
  <1>6. \A k \in Keys : Seen'[k] = IF k \in DOMAIN w THEN w[k] ELSE Seen[k]
    BY <1>2, <1>5, SeenAppend DEF Types
  <1>7. h \in GroupSet /\ h.name = g.name /\ h.writes = Tail(g.writes)
    BY <1>3, <1>4 DEF GroupSet, Group
  <1> HIDE DEF g, t, h
  <1>8. /\ todo' \in Seq(GroupSet) /\ todo' # <<>> /\ todo'[1] = h /\ DOMAIN todo' = DOMAIN todo
        /\ \A i \in 1 .. Len(todo) - 1 : todo'[i + 1] = t[i]
    <2>1. /\ todo' \in Seq(GroupSet) /\ todo' # <<>> /\ todo'[1] = h
          /\ DOMAIN todo' = 1 .. Len(t) + 1 /\ \A i \in 1 .. Len(t) : todo'[i + 1] = t[i]
      <3>1. t \in Seq(GroupSet) /\ h \in GroupSet
        BY <1>1, <1>2, <1>7
      <3>2. /\ <<h>> \o t \in Seq(GroupSet) /\ <<h>> \o t # <<>> /\ (<<h>> \o t)[1] = h
            /\ Len(<<h>> \o t) = Len(t) + 1 /\ DOMAIN (<<h>> \o t) = 1 .. Len(t) + 1
            /\ \A i \in 1 .. Len(t) : (<<h>> \o t)[i + 1] = t[i]
        BY <3>1, Prepended
      <3> QED BY <1>1, <1>2, <1>7, <3>2
    <2>2. Len(t) + 1 = Len(todo)
      BY <1>1
    <2> QED BY <1>1, <2>1, <2>2
  <1>9. 1 \in DOMAIN todo /\ \A i \in DOMAIN todo : i # 1 => todo'[i] = todo[i]
    <2>1. ASSUME NEW i \in DOMAIN todo, i # 1 PROVE todo'[i] = todo[i]
      <3>1. PICK m \in 1 .. Len(todo) - 1 : i = m + 1
        <4>1. i - 1 \in 1 .. Len(todo) - 1 /\ i = (i - 1) + 1
          BY <1>1, <2>1
        <4> QED BY <4>1
      <3> QED BY <1>1, <1>8, <3>1
    <2> QED BY <1>1, <2>1
  <1>10. Head(todo') = todo'[1]
    BY <1>8, TailItems
  <1>11. /\ todo'[1] = Group(todo[1].name, Tail(todo[1].writes))
         /\ todo'[1].writes = Tail(todo[1].writes)
    BY <1>1, <1>7, <1>8 DEF h
  <1>12. /\ Items(todo[1].writes) = {w} \cup Items(todo'[1].writes)
         /\ w = Head(todo[1].writes)
    BY <1>1, <1>4, <1>11
  <1>13. todo[1].writes \in Seq(WriteSet) /\ todo[1].writes # <<>>
    BY <1>1, <1>2, <1>3
  <1>14. Head(todo) = todo[1]
    BY <1>1 DEF g
  <1> QED BY <1>1, <1>5, <1>6, <1>8, <1>9, <1>10, <1>11, <1>12, <1>13, <1>14

LEMMA CommitFacts ==
  ASSUME Types, Commit
  PROVE  /\ flash' = Seen /\ pend' = <<>> /\ Items(pend') = {}
         /\ todo' \in Seq(GroupSet) /\ Len(todo) \in Nat \ {0} /\ todo # <<>> /\ 1 \in DOMAIN todo
         /\ Head(todo) = todo[1] /\ todo[1].writes = <<>>
         /\ DOMAIN todo = 1 .. Len(todo) /\ DOMAIN todo' = 1 .. Len(todo) - 1
         /\ \A i \in 1 .. Len(todo) - 1 : i + 1 \in DOMAIN todo /\ todo'[i] = todo[i + 1]
  <1>1. /\ flash' = Seen /\ pend' = <<>> /\ todo # <<>> /\ todo' = Tail(todo)
        /\ Head(todo).writes = <<>> /\ todo \in Seq(GroupSet)
    BY DEF Types, Commit, Busy, This
  <1> QED BY <1>1, TailItems, FewItems

LEMMA FailFacts ==
  ASSUME Types, CallFails
  PROVE  /\ flash' = flash /\ pend' = pend /\ failed' = failed \cup {todo[1].name}
         /\ todo \in Seq(GroupSet) /\ todo' \in Seq(GroupSet)
         /\ Len(todo) \in Nat \ {0} /\ DOMAIN todo = 1 .. Len(todo)
         /\ 1 \in DOMAIN todo /\ todo # <<>> /\ Head(todo) = todo[1]
         /\ \/ todo[1].name = "wifi" /\ todo' = <<>> /\ DOMAIN todo' = {}
            \/ /\ todo[1].name = "sanity" /\ DOMAIN todo' = DOMAIN todo
               /\ todo'[1] = Group("sanity", <<>>) /\ \A i \in DOMAIN todo : i # 1 => todo'[i] = todo[i]
            \/ /\ todo[1].name # "wifi" /\ DOMAIN todo' = 1 .. Len(todo) - 1
               /\ \A i \in 1 .. Len(todo) - 1 : i + 1 \in DOMAIN todo /\ todo'[i] = todo[i + 1]
  <1> DEFINE g == Head(todo)
             t == Tail(todo)
  <1>1. /\ g = todo[1] /\ g \in GroupSet /\ t \in Seq(GroupSet) /\ todo # <<>> /\ todo \in Seq(GroupSet)
        /\ DOMAIN todo = 1 .. Len(todo) /\ Len(t) = Len(todo) - 1 /\ DOMAIN t = 1 .. Len(todo) - 1
        /\ Len(todo) \in Nat \ {0}
        /\ \A i \in 1 .. Len(todo) - 1 : t[i] = todo[i + 1]
    BY TailItems DEF Types, CallFails, Busy
  <1>2. /\ flash' = flash /\ pend' = pend /\ failed' = failed \cup {g.name}
        /\ todo' = CASE g.name = "wifi" -> <<>>
                     [] g.name = "sanity" /\ g.writes # <<>> -> <<Group("sanity", <<>>)>> \o t
                     [] OTHER -> t
    BY DEF CallFails, This
  <1>3. 1 \in DOMAIN todo /\ \A i \in 1 .. Len(todo) - 1 : i + 1 \in DOMAIN todo
    BY <1>1
  <1> DEFINE h == Group("sanity", <<>>)
  <1> HIDE DEF g, t
  <1>4. CASE todo' = <<h>> \o t /\ g.name = "sanity"
    <2>1. h \in GroupSet
      BY DEF GroupSet, Group, Names
    <2> HIDE DEF h
    <2>3. /\ todo' \in Seq(GroupSet) /\ todo'[1] = h /\ DOMAIN todo' = DOMAIN todo
          /\ \A i \in 1 .. Len(todo) - 1 : todo'[i + 1] = t[i]
      <3>1. /\ todo' \in Seq(GroupSet) /\ todo' # <<>> /\ todo'[1] = h
            /\ DOMAIN todo' = 1 .. Len(t) + 1 /\ \A i \in 1 .. Len(t) : todo'[i + 1] = t[i]
        <4>1. t \in Seq(GroupSet) /\ h \in GroupSet
          BY <1>1, <1>4, <2>1
        <4>2. /\ <<h>> \o t \in Seq(GroupSet) /\ <<h>> \o t # <<>> /\ (<<h>> \o t)[1] = h
              /\ Len(<<h>> \o t) = Len(t) + 1 /\ DOMAIN (<<h>> \o t) = 1 .. Len(t) + 1
              /\ \A i \in 1 .. Len(t) : (<<h>> \o t)[i + 1] = t[i]
          BY <4>1, Prepended
        <4> QED BY <1>1, <1>4, <2>1, <4>2
      <3>2. Len(t) + 1 = Len(todo)
        BY <1>1
      <3> QED BY <1>1, <3>1, <3>2
    <2>4. ASSUME NEW i \in DOMAIN todo, i # 1 PROVE todo'[i] = todo[i]
      <3>1. PICK m \in 1 .. Len(todo) - 1 : i = m + 1
        <4>1. i - 1 \in 1 .. Len(todo) - 1 /\ i = (i - 1) + 1
          BY <1>1, <2>4
        <4> QED BY <4>1
      <3> QED BY <1>1, <2>3, <3>1
    <2> QED BY <1>1, <1>2, <1>3, <1>4, <2>3, <2>4 DEF g, h
  <1> HIDE DEF h
  <1>5. CASE todo' = <<>> /\ g.name = "wifi"
    BY <1>1, <1>2, <1>3, <1>5 DEF g, t
  <1>6. CASE todo' = t /\ g.name # "wifi"
    BY <1>1, <1>2, <1>3, <1>6 DEF g, t
  <1>7. \/ todo' = <<>> /\ g.name = "wifi"
        \/ todo' = <<h>> \o t /\ g.name = "sanity"
        \/ todo' = t /\ g.name # "wifi"
    BY <1>2 DEF h
  <1> QED BY <1>4, <1>5, <1>6, <1>7

LEMMA AgreeMonotone ==
  ASSUME NEW g, NEW h, NEW k, NEW v, Items(h.writes) \subseteq Items(g.writes), Agree(g, k, v)
  PROVE  Agree(h, k, v)
  BY DEF Agree

(* Every call keeps what is agreed for a key.                              *)
LEMMA AgreesKept ==
  ASSUME Types, Write \/ Commit \/ CallFails, NEW k, NEW v, Agrees(k, v)
  PROVE  Agrees(k, v)'
  <1>0. \A i \in DOMAIN todo : Agree(todo[i], k, v)
    BY DEF Agrees
  <1>1. CASE Write
    <2>1. PICK w \in WriteSet : /\ 1 \in DOMAIN todo /\ DOMAIN todo' = DOMAIN todo
                                /\ \A i \in DOMAIN todo : i # 1 => todo'[i] = todo[i]
                                /\ Items(todo[1].writes) = {w} \cup Items(todo'[1].writes)
      BY <1>1, WriteFacts
    <2>2. Agree(todo'[1], k, v)
      BY <1>0, <2>1 DEF Agree
    <2>3. \A i \in DOMAIN todo' : Agree(todo'[i], k, v)
      BY <1>0, <2>1, <2>2
    <2> QED BY <2>3 DEF Agrees, Agree
  <1>2. CASE Commit
    <2>1. \A i \in DOMAIN todo' : Agree(todo'[i], k, v)
      BY <1>0, <1>2, CommitFacts
    <2> QED BY <2>1 DEF Agrees, Agree
  <1>3. CASE CallFails
    <2>1. Agree(Group("sanity", <<>>), k, v)
      BY FewItems DEF Agree, Group
    <2>2. \A i \in DOMAIN todo' : Agree(todo'[i], k, v)
      BY <1>0, <1>3, <2>1, FailFacts
    <2> QED BY <2>2 DEF Agrees, Agree
  <1> QED BY <1>1, <1>2, <1>3

LEMMA SafeSeen ==
  ASSUME Types, NEW k \in Keys, NEW v, Safe(k, v)
  PROVE  Seen[k] = v
  BY SeenCases DEF Types, Safe

LEMMA SafeKept ==
  ASSUME Types, Write \/ Commit \/ CallFails, NEW k \in Keys, NEW v, Safe(k, v)
  PROVE  Safe(k, v)'
  <1>1. Agrees(k, v)'
    BY AgreesKept DEF Safe
  <1>2. CASE Write
    <2>1. PICK w \in WriteSet : /\ Items(pend') = Items(pend) \cup {w} /\ 1 \in DOMAIN todo
                                /\ Items(todo[1].writes) = {w} \cup Items(todo'[1].writes)
      BY <1>2, WriteFacts
    <2>2. k \in DOMAIN w => w[k] = v
      BY <2>1 DEF Safe, Agrees, Agree
    <2>3. flash' = flash
      BY <1>2 DEF Write
    <2> QED BY <1>1, <2>1, <2>2, <2>3 DEF Safe
  <1>3. CASE Commit
    BY <1>1, <1>3, CommitFacts, SafeSeen DEF Safe
  <1>4. CASE CallFails
    BY <1>1, <1>4, FailFacts DEF Safe
  <1> QED BY <1>2, <1>3, <1>4

(* Writing and committing bring a value on its way nearer.                 *)
LEMMA WillBeKept ==
  ASSUME Types, Write \/ Commit, NEW k \in Keys, NEW v, NEW o, WillBe(k, v, o)
  PROVE  WillBe(k, v, o)'
  <1>1. CASE Safe(k, v)
    BY <1>1, SafeKept DEF WillBe
  <1>2. CASE Written(k, v, o) /\ Write
    <2>1. PICK w \in WriteSet :
             /\ Seen'[k] = IF k \in DOMAIN w THEN w[k] ELSE Seen[k]
             /\ 1 \in DOMAIN todo /\ Items(todo[1].writes) = {w} \cup Items(todo'[1].writes)
             /\ todo'[1] = Group(todo[1].name, Tail(todo[1].writes))
             /\ Head(todo) = todo[1] /\ Head(todo') = todo'[1] /\ todo' # <<>>
      BY <1>2, WriteFacts
    <2>2. k \in DOMAIN w => w[k] = v
      BY <1>2, <2>1 DEF Written, Agrees, Agree
    <2>3. Agrees(k, v)' /\ Seen'[k] = v
      BY <1>2, <2>1, <2>2, AgreesKept DEF Written
    <2>4. Head(todo').name = o
      BY <1>2, <2>1 DEF Written, Group
    <2> QED BY <2>1, <2>3, <2>4 DEF WillBe, Written
  <1>3. CASE Written(k, v, o) /\ Commit
    <2>1. Agrees(k, v)' /\ flash'[k] = v /\ Items(pend') = {}
      BY <1>3, AgreesKept, CommitFacts DEF Written
    <2> QED BY <2>1 DEF WillBe, Safe
  <1>4. CASE Coming(k, v, o) /\ Write
    <2>1. PICK w \in WriteSet :
             /\ Seen'[k] = IF k \in DOMAIN w THEN w[k] ELSE Seen[k]
             /\ 1 \in DOMAIN todo /\ Items(todo[1].writes) = {w} \cup Items(todo'[1].writes)
             /\ todo'[1] = Group(todo[1].name, Tail(todo[1].writes))
             /\ DOMAIN todo' = DOMAIN todo /\ \A i \in DOMAIN todo : i # 1 => todo'[i] = todo[i]
             /\ Head(todo) = todo[1] /\ Head(todo') = todo'[1] /\ todo' # <<>>
             /\ DOMAIN todo = 1 .. Len(todo)
      BY <1>4, WriteFacts DEF Types
    <2>2. PICK j \in DOMAIN todo :
             /\ todo[j].name = o /\ \E x \in Items(todo[j].writes) : k \in DOMAIN x
             /\ \A i \in DOMAIN todo : i >= j => Agree(todo[i], k, v)
      BY <1>4 DEF Coming
    <2>3. todo'[j].name = o
      BY <2>1, <2>2 DEF Group
    <2>4. \A i \in DOMAIN todo' : i >= j => Agree(todo'[i], k, v)
      <3>1. Agree(todo[1], k, v) => Agree(todo'[1], k, v)
        BY <2>1 DEF Agree
      <3> QED BY <2>1, <2>2, <3>1
    <2>5. CASE \E x \in Items(todo'[j].writes) : k \in DOMAIN x
      <3>1. Coming(k, v, o)'
        BY <2>1, <2>2, <2>3, <2>4, <2>5 DEF Coming, Agree
      <3> QED BY <3>1 DEF WillBe
    <2>6. CASE ~ \E x \in Items(todo'[j].writes) : k \in DOMAIN x
      <3>1. j = 1 /\ k \in DOMAIN w
        BY <2>1, <2>2, <2>6
      <3>2. Agree(todo[1], k, v) /\ w[k] = v
        BY <2>1, <2>2, <3>1 DEF Agree
      <3>3. Seen'[k] = v
        BY <2>1, <3>1, <3>2
      <3>4. \A i \in DOMAIN todo' : Agree(todo'[i], k, v)
        BY <2>1, <2>4, <3>1
      <3>5. Written(k, v, o)'
        BY <2>1, <2>3, <3>1, <3>3, <3>4 DEF Written, Agrees, Agree
      <3> QED BY <3>5 DEF WillBe
    <2> QED BY <2>5, <2>6
  <1>5. CASE Coming(k, v, o) /\ Commit
    <2>1. PICK j \in DOMAIN todo :
             /\ todo[j].name = o /\ \E x \in Items(todo[j].writes) : k \in DOMAIN x
             /\ \A i \in DOMAIN todo : i >= j => Agree(todo[i], k, v)
      BY <1>5 DEF Coming
    <2>2. /\ todo[1].writes = <<>> /\ Len(todo) \in Nat \ {0}
          /\ DOMAIN todo = 1 .. Len(todo) /\ DOMAIN todo' = 1 .. Len(todo) - 1
          /\ \A i \in 1 .. Len(todo) - 1 : i + 1 \in DOMAIN todo /\ todo'[i] = todo[i + 1]
      BY <1>5, CommitFacts
    <2>3. j # 1
      BY <2>1, <2>2, FewItems
    <2>4. PICK m \in 1 .. Len(todo) - 1 : j = m + 1
      <3>1. j - 1 \in 1 .. Len(todo) - 1 /\ j = (j - 1) + 1
        BY <2>2, <2>3
      <3> QED BY <3>1
    <2>5. /\ m \in DOMAIN todo' /\ todo'[m].name = o
          /\ \E x \in Items(todo'[m].writes) : k \in DOMAIN x
      BY <2>1, <2>2, <2>4
    <2>6. ASSUME NEW i \in DOMAIN todo', i >= m PROVE Agree(todo'[i], k, v)
      <3>1. i + 1 \in DOMAIN todo /\ i + 1 >= j /\ todo'[i] = todo[i + 1]
        BY <2>2, <2>4, <2>6
      <3> QED BY <2>1, <3>1
    <2>7. Coming(k, v, o)'
      BY <2>5, <2>6 DEF Coming, Agree
    <2> QED BY <2>7 DEF WillBe
  <1> QED BY <1>1, <1>2, <1>3, <1>4, <1>5 DEF WillBe

(* So does a call that fails, unless it ends the group or all of them.     *)
LEMMA WillBeFails ==
  ASSUME Types, CallFails, NEW k \in Keys, NEW v, NEW o, WillBe(k, v, o)
  PROVE  WillBe(k, v, o)' \/ {"wifi", o} \cap failed' # {}
  <1>0. Len(todo) \in Nat \ {0} /\ DOMAIN todo = 1 .. Len(todo)
    BY FailFacts
  <1>1. /\ failed' = failed \cup {todo[1].name}
        /\ Len(todo) \in Nat \ {0} /\ DOMAIN todo = 1 .. Len(todo)
        /\ 1 \in DOMAIN todo /\ Head(todo) = todo[1]
        /\ \/ todo[1].name = "wifi"
           \/ /\ todo[1].name = "sanity" /\ DOMAIN todo' = DOMAIN todo
              /\ todo'[1] = Group("sanity", <<>>) /\ \A i \in DOMAIN todo : i # 1 => todo'[i] = todo[i]
           \/ /\ DOMAIN todo' = 1 .. Len(todo) - 1
              /\ \A i \in 1 .. Len(todo) - 1 : i + 1 \in DOMAIN todo /\ todo'[i] = todo[i + 1]
    BY FailFacts
  <1>2. CASE Safe(k, v)
    BY <1>2, SafeKept DEF WillBe
  <1>3. CASE Written(k, v, o)
    BY <1>1, <1>3 DEF Written
  <1>4. CASE Coming(k, v, o)
    <2>1. PICK j \in DOMAIN todo :
             /\ todo[j].name = o /\ \E x \in Items(todo[j].writes) : k \in DOMAIN x
             /\ \A i \in DOMAIN todo : i >= j => Agree(todo[i], k, v)
      BY <1>4 DEF Coming
    <2>2. CASE j = 1 \/ todo[1].name = "wifi"
      BY <1>1, <2>1, <2>2
    <2>3. CASE /\ j # 1 /\ DOMAIN todo' = DOMAIN todo
               /\ todo'[1] = Group("sanity", <<>>) /\ \A i \in DOMAIN todo : i # 1 => todo'[i] = todo[i]
      <3>1. j >= 1 /\ ~ (1 >= j)
        BY <1>0, <2>3
      <3>2. \A i \in DOMAIN todo' : i >= j => Agree(todo'[i], k, v)
        BY <2>1, <2>3, <3>1
      <3>3. Coming(k, v, o)'
        BY <2>1, <2>3, <3>2 DEF Coming, Agree
      <3> QED BY <3>3 DEF WillBe
    <2>4. CASE /\ j # 1 /\ DOMAIN todo' = 1 .. Len(todo) - 1
               /\ \A i \in 1 .. Len(todo) - 1 : i + 1 \in DOMAIN todo /\ todo'[i] = todo[i + 1]
      <3>1. PICK m \in 1 .. Len(todo) - 1 : j = m + 1
        <4>1. j - 1 \in 1 .. Len(todo) - 1 /\ j = (j - 1) + 1
          BY <1>0, <2>4
        <4> QED BY <4>1
      <3>2. /\ m \in DOMAIN todo' /\ todo'[m].name = o
            /\ \E x \in Items(todo'[m].writes) : k \in DOMAIN x
        BY <2>1, <2>4, <3>1
      <3>3. ASSUME NEW i \in DOMAIN todo', i >= m PROVE Agree(todo'[i], k, v)
        <4>1. i + 1 \in DOMAIN todo /\ i + 1 >= j /\ todo'[i] = todo[i + 1]
          BY <1>0, <2>4, <3>1, <3>3
        <4> QED BY <2>1, <4>1
      <3>4. Coming(k, v, o)'
        BY <3>2, <3>3 DEF Coming, Agree
      <3> QED BY <3>4 DEF WillBe
    <2> QED BY <1>1, <2>2, <2>3, <2>4
  <1> QED BY <1>2, <1>3, <1>4 DEF WillBe

(* Once nothing is left to do, what was to be is.                          *)
LEMMA WillBeDone ==
  ASSUME todo = <<>>, NEW k, NEW v, NEW o, WillBe(k, v, o) PROVE Safe(k, v)
  BY DEF WillBe, Written, Coming

(* A value that is safe outlives any end of the run.                       *)
LEMMA SafeStops ==
  ASSUME Types, Stop, NEW k \in Keys, NEW v, Safe(k, v)
  PROVE  Safe(k, v)'
  <1>1. pend' = <<>> /\ todo' = <<>>
    BY DEF Stop
  <1>2. PICK n \in 0 .. Len(pend) :
          \/ flash' = Applied(n)
          \/ /\ n < Len(pend) /\ DOMAIN pend[n + 1] = Keys
             /\ \E S \in Parts : flash' = [x \in Keys |-> IF x \in S THEN Erased[x] ELSE Applied(n)[x]]
    BY DEF Stop, ErasedIn
  <1>3. Applied(n)[k] = v
    BY AppliedCases DEF Types, Safe
  <1>4. CASE n < Len(pend) /\ DOMAIN pend[n + 1] = Keys
    <2>1. n + 1 \in DOMAIN pend
      BY <1>4 DEF Types
    <2>2. pend[n + 1] \in Items(pend) /\ pend[n + 1] \in WriteSet
      BY <2>1 DEF Items, Types
    <2>3. pend[n + 1] = Erased
      BY <1>4, <2>2 DEF WriteSet
    <2>4. Erased[k] = v
      BY <2>2, <2>3 DEF Safe, Erased
    <2> QED BY <1>1, <1>2, <1>3, <2>4, FewItems DEF Safe, Agrees
  <1> QED BY <1>1, <1>2, <1>3, <1>4, FewItems DEF Safe, Agrees

-----------------------------------------------------------------------------
(* Keys and their values.                                                  *)

LEMMA KeyNames ==
  /\ SettingKeys \subseteq {"modes", "general", "api", "netip"}
  /\ PairKeys \subseteq Keys /\ SettingKeys \subseteq Keys /\ Secrets \subseteq Keys
  /\ Keys = PairKeys \cup SettingKeys \cup Secrets
  /\ "tcp_token" \in Secrets /\ "admin_pass" \in Secrets
  /\ PairKeys \cap SettingKeys = {} /\ PairKeys \cap Secrets = {} /\ SettingKeys \cap Secrets = {}
  /\ {"secrets", "sanity", "wifi", "erase"} \cap Keys = {}
  <1>1. \A i \in DOMAIN Early : Early[i] \in {"modes", "general"}
    BY SettingsAssumption
  <1>2. \A i \in DOMAIN Late : Late[i] \in {"api", "netip"}
    BY SettingsAssumption
  <1>3. SettingKeys \subseteq {"modes", "general", "api", "netip"}
    BY <1>1, <1>2 DEF SettingKeys
  <1> QED BY <1>3, SecretsAssumption DEF Keys, PairKeys

LEMMA AllowedCases ==
  /\ Allowed("wifi_ssid") = Nets \cup {None} /\ Allowed("wifi_pass") = Nets \cup {None}
  /\ Allowed("provisioned") = BOOLEAN
  /\ \A k \in SettingKeys : Allowed(k) = Options
  /\ \A k \in Secrets : Allowed(k) = Nat \cup {None}
  /\ \A k \in Keys : Allowed(k) \subseteq AllValues
  <1>1. /\ Allowed("wifi_ssid") = Nets \cup {None} /\ Allowed("wifi_pass") = Nets \cup {None}
        /\ Allowed("provisioned") = BOOLEAN
    BY KeyNames DEF Allowed, PairKeys
  <1>2. \A k \in SettingKeys : Allowed(k) = Options
    BY KeyNames DEF Allowed, PairKeys
  <1>3. \A k \in Secrets : Allowed(k) = Nat \cup {None}
    BY KeyNames DEF Allowed, PairKeys
  <1> QED BY <1>1, <1>2, <1>3, KeyNames DEF AllValues, PairKeys

LEMMA ValueAt == \A k, v : DOMAIN Value(k, v) = {k} /\ Value(k, v)[k] = v
  BY DEF Value

LEMMA ValueWrite ==
  ASSUME NEW k \in Keys, NEW v \in Allowed(k)
  PROVE  /\ Value(k, v) \in WriteSet /\ DOMAIN Value(k, v) = {k} /\ Value(k, v)[k] = v
         /\ Partial(Value(k, v))
  <1>1. DOMAIN Value(k, v) = {k} /\ Value(k, v)[k] = v
    BY DEF Value
  <1>2. {k} # Keys
    BY KeyNames DEF PairKeys
  <1>3. Value(k, v) \in [{k} -> AllValues]
    BY AllowedCases DEF Value
  <1>4. Partial(Value(k, v))
    BY <1>1 DEF Partial
  <1> QED BY <1>1, <1>2, <1>3, <1>4 DEF WriteSet

LEMMA ErasedWrite ==
  /\ Erased \in WriteSet /\ DOMAIN Erased = Keys /\ Partial(Erased)
  /\ Erased["wifi_ssid"] = None /\ Erased["wifi_pass"] = None /\ Erased["provisioned"] = FALSE
  /\ \A k \in SettingKeys : Erased[k] = Default
  /\ \A k \in Secrets : Erased[k] = None
  <1>1. DOMAIN Erased = Keys
    BY DEF Erased
  <1>2. /\ Erased["wifi_ssid"] = None /\ Erased["wifi_pass"] = None /\ Erased["provisioned"] = FALSE
        /\ \A k \in SettingKeys : Erased[k] = Default
        /\ \A k \in Secrets : Erased[k] = None
    BY KeyNames DEF Erased, PairKeys
  <1>3. ASSUME NEW k \in Keys PROVE Erased[k] \in Allowed(k)
    <2>1. CASE k \in PairKeys
      BY <1>2, <2>1, AllowedCases DEF PairKeys
    <2>2. CASE k \in SettingKeys
      BY <1>2, <2>2, AllowedCases, DefaultAssumption
    <2>3. CASE k \in Secrets
      BY <1>2, <2>3, AllowedCases
    <2> QED BY <2>1, <2>2, <2>3, KeyNames
  <1>4. Partial(Erased)
    BY <1>1, <1>3 DEF Partial
  <1>5. Erased \in [Keys -> AllValues]
    BY <1>1, <1>3, AllowedCases DEF Erased
  <1> QED BY <1>1, <1>2, <1>4, <1>5 DEF WriteSet

LEMMA WritesAllowed ==
  ASSUME NEW w \in WriteSet
  PROVE  DOMAIN w \subseteq Keys /\ \A k \in DOMAIN w : w[k] \in Allowed(k)
  BY DEF WriteSet, Partial

-----------------------------------------------------------------------------
(* What is loaded.                                                         *)

LEMMA SeenTyped ==
  ASSUME Types
  PROVE  DOMAIN Seen = Keys /\ \A k \in Keys : Seen[k] \in Allowed(k)
  <1>1. DOMAIN Seen = Keys
    BY DEF Seen, Applied
  <1>2. ASSUME NEW k \in Keys PROVE Seen[k] \in Allowed(k)
    <2>1. CASE Seen[k] = flash[k]
      BY <2>1 DEF Types, Partial
    <2>2. CASE \E w \in Items(pend) : k \in DOMAIN w /\ Seen[k] = w[k]
      <3>1. Items(pend) \subseteq WriteSet
        BY SeqItems DEF Types
      <3> QED BY <2>2, <3>1, WritesAllowed
    <2> QED BY <2>1, <2>2, SeenCases DEF Types
  <1> QED BY <1>1, <1>2

LEMMA FreshFound ==
  ASSUME NEW H, IsFiniteSet(H)
  PROVE  (CHOOSE n \in 1 .. Cardinality(H) + 1 : n \notin H) \in Nat
  <1>1. Cardinality(H) \in Nat
    BY FS_CardinalityType
  <1> DEFINE c == Cardinality(H)
  <1>2. ASSUME 1 .. c + 1 \subseteq H PROVE FALSE
    <2>1. IsFiniteSet(1 .. c + 1) /\ Cardinality(1 .. c + 1) = c + 1
      <3>1. /\ IsFiniteSet(1 .. c + 1)
            /\ Cardinality(1 .. c + 1) = IF 1 > c + 1 THEN 0 ELSE (c + 1) - 1 + 1
        BY <1>1, FS_Interval
      <3> QED BY <1>1, <3>1
    <2>2. Cardinality(1 .. c + 1) <= c
      BY <1>2, FS_Subset
    <2> QED BY <1>1, <2>1, <2>2
  <1>3. \E n \in 1 .. c + 1 : n \notin H
    BY <1>2
  <1>4. (CHOOSE n \in 1 .. c + 1 : n \notin H) \in 1 .. c + 1
    BY <1>3
  <1> QED BY <1>1, <1>4

LEMMA FreshNat ==
  ASSUME Types, NEW k
  PROVE  Fresh(k) \in Nat
  <1> DEFINE A == {flash[k], token}
             I == {j \in DOMAIN pend : k \in DOMAIN pend[j]}
             B == {pend[i][k] : i \in I}
             X == {k} \cap DOMAIN promised
             D == {promised[x] : x \in X}
             H == A \cup B \cup D
  <1>1. IsFiniteSet(A)
    <2>1. A = {flash[k]} \cup {token}
      OBVIOUS
    <2>2. IsFiniteSet({flash[k]} \cup {token})
      BY FS_Singleton, FS_Union
    <2> QED BY <2>1, <2>2
  <1>2. IsFiniteSet(B)
    <2>1. Len(pend) \in Nat /\ DOMAIN pend = 1 .. Len(pend)
      BY LenProperties DEF Types
    <2>2. IsFiniteSet(1 .. Len(pend))
      BY <2>1, FS_Interval
    <2>3. IsFiniteSet(I)
      BY <2>1, <2>2, FS_Subset
    <2> HIDE DEF I
    <2> DEFINE f == [i \in I |-> pend[i][k]]
    <2>4. f \in Surjection(I, B)
      BY DEF Surjection
    <2> HIDE DEF f, B
    <2> QED BY <2>3, <2>4, FS_Surjection
  <1>3. IsFiniteSet(D)
    <2>1. D = {} \/ D = {promised[k]}
      OBVIOUS
    <2>2. IsFiniteSet({promised[k]}) /\ IsFiniteSet({})
      BY FS_EmptySet, FS_Singleton
    <2> HIDE DEF D
    <2> QED BY <2>1, <2>2
  <1> HIDE DEF A, B, D
  <1>4. IsFiniteSet(H)
    BY <1>1, <1>2, <1>3, FS_Union
  <1>5. Fresh(k) = CHOOSE n \in 1 .. Cardinality(H) + 1 : n \notin H
    BY DEF Fresh, A, B, D
  <1> HIDE DEF H
  <1>6. (CHOOSE n \in 1 .. Cardinality(H) + 1 : n \notin H) \in Nat
    BY <1>4, FreshFound
  <1> QED BY <1>5, <1>6

LEMMA LoadedTyped ==
  ASSUME Types
  PROVE  /\ DOMAIN Loaded = Keys /\ \A k \in Keys : Loaded[k] \in Allowed(k)
         /\ \A k \in Secrets : Loaded[k] \in Nat
         /\ \A k \in Keys \ Missing : k # "provisioned" => Loaded[k] = Seen[k]
         /\ Loaded["provisioned"] = (Seen["provisioned"] /\ ~HalfPair)
  <1>1. DOMAIN Loaded = Keys
    BY DEF Loaded
  <1>2. Missing \subseteq Secrets /\ "provisioned" \notin Missing
    BY KeyNames DEF Missing, PairKeys
  <1>3. \A k \in Missing : Loaded[k] \in Nat
    BY <1>2, FreshNat, KeyNames DEF Loaded
  <1>4. \A k \in Keys \ Missing : k # "provisioned" => Loaded[k] = Seen[k]
    BY DEF Loaded
  <1>5. Loaded["provisioned"] = (Seen["provisioned"] /\ ~HalfPair)
    BY <1>2, KeyNames DEF Loaded, PairKeys
  <1>6. \A k \in Secrets : Loaded[k] \in Nat
    <2> TAKE k \in Secrets
    <2>1. CASE k \in Missing
      BY <1>3, <2>1
    <2>2. CASE k \notin Missing
      <3>1. Loaded[k] = Seen[k] /\ Seen[k] \in Nat \cup {None} /\ Seen[k] # None
        BY <1>4, <2>2, KeyNames, SeenTyped, AllowedCases DEF Missing, PairKeys
      <3> QED BY <3>1
    <2> QED BY <2>1, <2>2
  <1>7. ASSUME NEW k \in Keys PROVE Loaded[k] \in Allowed(k)
    <2>1. CASE k = "provisioned"
      <3>1. Seen["provisioned"] \in BOOLEAN
        BY <2>1, SeenTyped, AllowedCases
      <3>2. (Seen["provisioned"] /\ ~HalfPair) \in BOOLEAN
        BY <3>1
      <3> QED BY <1>5, <2>1, <3>2, AllowedCases
    <2>2. CASE k \in Secrets
      BY <1>6, <2>2, AllowedCases
    <2>3. CASE k # "provisioned" /\ k \notin Secrets
      BY <1>2, <1>4, <2>3, SeenTyped
    <2> QED BY <2>1, <2>2, <2>3
  <1> QED BY <1>1, <1>4, <1>5, <1>6, <1>7

LEMMA GroupTyped ==
  ASSUME NEW n \in Names, NEW s \in Seq(WriteSet)
  PROVE  Group(n, s) \in GroupSet /\ Group(n, s).name = n /\ Group(n, s).writes = s
  BY DEF Group, GroupSet

LEMMA NewSecretItems ==
  ASSUME Types, NEW k
  PROVE  /\ NewSecret(k) \in Seq(WriteSet)
         /\ Items(NewSecret(k)) = {Value(x, Loaded[x]) : x \in {k} \cap Missing}
  <1>1. CASE k \in Missing
    <2>1. k \in Secrets
      BY <1>1 DEF Missing
    <2>2. Loaded[k] \in Allowed(k) /\ k \in Keys
      BY <2>1, KeyNames, LoadedTyped
    <2>3. Value(k, Loaded[k]) \in WriteSet
      BY <2>2, ValueWrite
    <2>4. NewSecret(k) = <<Value(k, Loaded[k])>>
      BY <1>1 DEF NewSecret
    <2>5. Items(<<Value(k, Loaded[k])>>) = {Value(k, Loaded[k])}
      BY FewItems
    <2>6. {Value(x, Loaded[x]) : x \in {k} \cap Missing} = {Value(k, Loaded[k])}
      BY <1>1
    <2>7. <<Value(k, Loaded[k])>> \in Seq(WriteSet)
      BY <2>3
    <2> QED BY <2>4, <2>5, <2>6, <2>7
  <1>2. CASE k \notin Missing
    <2>1. NewSecret(k) = <<>>
      BY <1>2 DEF NewSecret
    <2>2. {Value(x, Loaded[x]) : x \in {k} \cap Missing} = {}
      BY <1>2
    <2> QED BY <2>1, <2>2, FewItems
  <1> QED BY <1>1, <1>2

LEMMA NewSecretsItems ==
  ASSUME Types
  PROVE  /\ NewSecrets \in Seq(WriteSet)
         /\ Items(NewSecrets) = {Value(k, Loaded[k]) : k \in Missing}
  <1> DEFINE a == NewSecret("ap_pass")
             b == NewSecret("admin_pass")
             c == NewSecret("tcp_token")
             d == NewSecret("ota_token")
             V(k) == {Value(x, Loaded[x]) : x \in {k} \cap Missing}
  <1>1. /\ a \in Seq(WriteSet) /\ Items(a) = V("ap_pass")
        /\ b \in Seq(WriteSet) /\ Items(b) = V("admin_pass")
        /\ c \in Seq(WriteSet) /\ Items(c) = V("tcp_token")
        /\ d \in Seq(WriteSet) /\ Items(d) = V("ota_token")
    BY NewSecretItems
  <1>2. NewSecrets = ((a \o b) \o c) \o d
    BY DEF NewSecrets
  <1> HIDE DEF a, b, c, d
  <1>3. PICK ab \in Seq(WriteSet) : ab = a \o b /\ Items(ab) = Items(a) \cup Items(b)
    BY <1>1, ConcatItems
  <1>4. PICK abc \in Seq(WriteSet) : abc = ab \o c /\ Items(abc) = Items(ab) \cup Items(c)
    BY <1>1, ConcatItems
  <1>5. abc \o d \in Seq(WriteSet) /\ Items(abc \o d) = Items(abc) \cup Items(d)
    BY <1>1, ConcatItems
  <1>6. Missing \subseteq {"ap_pass", "admin_pass", "tcp_token", "ota_token"}
    BY SecretsAssumption DEF Missing
  <1>7. V("ap_pass") \cup V("admin_pass") \cup V("tcp_token") \cup V("ota_token")
          = {Value(k, Loaded[k]) : k \in Missing}
    BY <1>6
  <1>8. NewSecrets = abc \o d
    BY <1>2, <1>3, <1>4
  <1>9. Items(abc \o d) = V("ap_pass") \cup V("admin_pass") \cup V("tcp_token") \cup V("ota_token")
    BY <1>1, <1>3, <1>4, <1>5
  <1> QED BY <1>5, <1>7, <1>8, <1>9

(* The groups of a load: missing secrets, and a flag without a pair.       *)
LEMMA LoadFacts ==
  ASSUME Types
  PROVE  /\ LoadGroups \in Seq(GroupSet)
         /\ \A g \in Items(LoadGroups) :
              \/ g.name = "secrets" /\ Items(g.writes) = {Value(k, Loaded[k]) : k \in Missing}
              \/ g.name = "sanity" /\ Items(g.writes) = {Value("provisioned", FALSE)} /\ HalfPair
         /\ Missing # {} => \E g \in Items(LoadGroups) :
              g.name = "secrets" /\ Items(g.writes) = {Value(k, Loaded[k]) : k \in Missing}
  <1> DEFINE s == Group("secrets", NewSecrets)
             f == Value("provisioned", FALSE)
             h == Group("sanity", <<f>>)
             a == IF Missing = {} THEN <<>> ELSE <<s>>
             b == IF HalfPair THEN <<h>> ELSE <<>>
  <1>1. /\ s \in GroupSet /\ s.name = "secrets"
        /\ Items(s.writes) = {Value(k, Loaded[k]) : k \in Missing}
    <2>1. "secrets" \in Names
      BY DEF Names
    <2> QED BY <2>1, GroupTyped, NewSecretsItems
  <1>2. /\ h \in GroupSet /\ h.name = "sanity" /\ Items(h.writes) = {f}
    <2>1. "sanity" \in Names
      BY DEF Names
    <2>2. "provisioned" \in Keys /\ FALSE \in Allowed("provisioned")
      BY KeyNames, AllowedCases DEF PairKeys
    <2>3. f \in WriteSet
      BY <2>2, ValueWrite
    <2> HIDE DEF f
    <2>4. <<f>> \in Seq(WriteSet) /\ Items(<<f>>) = {f}
      BY <2>3, FewItems
    <2> QED BY <2>1, <2>4, GroupTyped
  <1>3. LoadGroups = a \o b
    BY DEF LoadGroups
  <1> HIDE DEF s, h, f
  <1>4. a \in Seq(GroupSet) /\ Items(a) = IF Missing = {} THEN {} ELSE {s}
    <2>1. <<s>> \in Seq(GroupSet) /\ Items(<<s>>) = {s} /\ Items(<<>>) = {} /\ <<>> \in Seq(GroupSet)
      BY <1>1, FewItems
    <2> QED BY <2>1
  <1>5. b \in Seq(GroupSet) /\ Items(b) = IF HalfPair THEN {h} ELSE {}
    <2>1. <<h>> \in Seq(GroupSet) /\ Items(<<h>>) = {h} /\ Items(<<>>) = {} /\ <<>> \in Seq(GroupSet)
      BY <1>2, FewItems
    <2> QED BY <2>1
  <1> HIDE DEF a, b
  <1>6. a \o b \in Seq(GroupSet) /\ Items(a \o b) = Items(a) \cup Items(b)
    BY <1>4, <1>5, ConcatItems
  <1> QED BY <1>1, <1>2, <1>3, <1>4, <1>5, <1>6 DEF f

(* A load writes no key that has a proper value.                           *)
LEMMA LoadAgrees ==
  ASSUME Types, NEW k \in Keys, k \notin Missing, k = "provisioned" => ~HalfPair,
         NEW v, NEW g \in Items(LoadGroups)
  PROVE  Agree(g, k, v)
  <1>1. CASE Items(g.writes) = {Value(x, Loaded[x]) : x \in Missing}
    <2>1. ASSUME NEW x \in Missing PROVE k \notin DOMAIN Value(x, Loaded[x])
      BY DEF Value
    <2> QED BY <1>1, <2>1 DEF Agree
  <1>2. CASE Items(g.writes) = {Value("provisioned", FALSE)} /\ HalfPair
    BY <1>2 DEF Agree, Value
  <1> QED BY <1>1, <1>2, LoadFacts

-----------------------------------------------------------------------------
(* A start.                                                                *)

LEMMA BootKeeps ==
  ASSUME ConfigInv, Boot
  PROVE  ConfigInv'
  <1> USE DEF ConfigInv
  <1>1. /\ job = Off /\ pend = <<>> /\ todo = <<>> /\ failed = {} /\ Items(pend) = {}
    BY FewItems DEF Boot, Types
  <1> DEFINE shown == IF sta' = None THEN Secrets ELSE {}
             gives == [k \in shown |-> Loaded[k]]
  <1>2. /\ sta' = IF Loaded["provisioned"] THEN <<Loaded["wifi_ssid"], Loaded["wifi_pass"]>> ELSE None
        /\ token' = Loaded["tcp_token"]
        /\ job' = [kind |-> "boot", gives |-> gives] /\ todo' = LoadGroups /\ failed' = {}
        /\ defect' = defect /\ flash' = flash /\ pend' = pend /\ restart' = restart
        /\ trouble' = trouble /\ cut' = cut /\ promised' = promised
        /\ requests' = requests /\ fails' = fails /\ crashes' = crashes
    BY DEF Boot, Begin
  <1>3. /\ job'.kind = "boot" /\ job'.gives = gives /\ job' # Off /\ job' # Idle
        /\ DOMAIN gives = shown /\ shown \subseteq Secrets /\ \A k \in shown : gives[k] = Loaded[k]
    <2>1. job'.kind = "boot" /\ job'.gives = gives
      BY <1>2
    <2> QED BY <2>1 DEF Off, Idle
  <1> HIDE DEF gives, shown
  <1>4. \A k \in Keys : Seen[k] = flash[k]
    BY <1>1, SeenCases DEF Types
  <1>5. sta' \in {None} \cup ((Nets \cup {None}) \X (Nets \cup {None}))
    <2>1. Loaded["wifi_ssid"] \in Nets \cup {None} /\ Loaded["wifi_pass"] \in Nets \cup {None}
      BY LoadedTyped, AllowedCases, KeyNames DEF PairKeys
    <2> QED BY <1>2, <2>1
  <1>6. Types'
    <2>1. todo' \in Seq(GroupSet)
      BY <1>2, LoadFacts
    <2>2. token' \in Nat
      BY <1>2, LoadedTyped, KeyNames
    <2>3. Partial(gives)
      BY <1>3, KeyNames, LoadedTyped DEF Partial
    <2>4. Partial(flash)' /\ Partial(promised)'
      BY <1>2 DEF Types, Partial
    <2>5. job'.kind \in Kinds /\ Partial(job.gives)'
      BY <1>3, <2>3 DEF Kinds, Partial
    <2> QED BY <1>2, <1>3, <1>5, <2>1, <2>2, <2>4, <2>5 DEF Types
  <1>7. ASSUME NEW k \in Keys, NEW v, flash[k] = v, k \notin Missing, k = "provisioned" => ~HalfPair
        PROVE  Safe(k, v)'
    <2>1. \A i \in DOMAIN todo' : Agree(todo'[i], k, v)
      BY <1>2, <1>7, LoadAgrees DEF Items
    <2> QED BY <1>1, <1>2, <1>7, <2>1 DEF Safe, Agrees, Agree
  <1>8. KeptInv'
    <2>1. WellPromised(promised)'
      BY <1>2 DEF KeptInv, WellPromised
    <2>2. ASSUME NEW k \in DOMAIN promised, NEW v, v = promised[k] PROVE Safe(k, v)'
      <3>1. k \in Keys /\ flash[k] = v
        BY <2>2 DEF Types, Partial, KeptInv, Safe
      <3>2. k \notin Missing
        BY <1>4, <2>2, <3>1 DEF Missing, KeptInv, WellPromised
      <3>3. k = "provisioned" => ~HalfPair
        <4>1. SUFFICES ASSUME k = "provisioned", HalfPair PROVE FALSE
          OBVIOUS
        <4>2. {"wifi_ssid", "wifi_pass", "provisioned"} \subseteq DOMAIN promised
          BY <4>1 DEF KeptInv, WellPromised, PairKeys
        <4>3. \A x \in {"wifi_ssid", "wifi_pass", "provisioned"} : Seen[x] = promised[x]
          BY <1>4, <4>2, KeyNames DEF KeptInv, Safe, PairKeys
        <4> QED BY <4>1, <4>2, <4>3 DEF HalfPair, KeptInv, WellPromised
      <3> QED BY <1>7, <3>1, <3>2, <3>3
    <2>3. \A k \in DOMAIN promised' : Safe(k, promised[k])'
      <3> TAKE k \in DOMAIN promised'
      <3>1. PICK v : v = promised[k]
        OBVIOUS
      <3>2. Safe(k, v)' /\ promised'[k] = v
        BY <1>2, <2>2, <3>1
      <3> QED BY <3>2 DEF Safe, Agrees, Agree
    <2> QED BY <2>1, <2>3 DEF KeptInv
  <1>9. ASSUME NEW k \in Secrets, NEW v, v = Loaded[k] PROVE WillBe(k, v, "secrets")'
    <2>1. CASE k \notin Missing
      <3>1. k \in Keys /\ k # "provisioned" /\ flash[k] = v
        BY <1>4, <1>9, <2>1, KeyNames, LoadedTyped DEF PairKeys
      <3>2. Safe(k, v)'
        BY <1>7, <2>1, <3>1
      <3> QED BY <3>2 DEF WillBe
    <2>2. CASE k \in Missing
      <3>1. ASSUME NEW g \in Items(LoadGroups) PROVE Agree(g, k, v)
        <4>1. CASE Items(g.writes) = {Value(x, Loaded[x]) : x \in Missing}
          <5>1. ASSUME NEW x \in Missing, k \in DOMAIN Value(x, Loaded[x]) PROVE Value(x, Loaded[x])[k] = v
            BY <1>9, <5>1 DEF Value
          <5> QED BY <4>1, <5>1 DEF Agree
        <4>2. CASE Items(g.writes) = {Value("provisioned", FALSE)}
          <5>1. k # "provisioned"
            BY KeyNames DEF PairKeys
          <5> QED BY <4>2, <5>1 DEF Agree, Value
        <4> QED BY <4>1, <4>2, LoadFacts
      <3>2. PICK g \in Items(LoadGroups) :
              g.name = "secrets" /\ Items(g.writes) = {Value(x, Loaded[x]) : x \in Missing}
        BY <2>2, LoadFacts
      <3>3. PICK j \in DOMAIN todo' : todo'[j] = g
        BY <1>2, <3>2 DEF Items
      <3>4. \E w \in Items(todo'[j].writes) : k \in DOMAIN w
        <4>1. Value(k, Loaded[k]) \in Items(todo'[j].writes) /\ k \in DOMAIN Value(k, Loaded[k])
          BY <2>2, <3>2, <3>3 DEF Value
        <4> QED BY <4>1
      <3>5. \A i \in DOMAIN todo' : Agree(todo'[i], k, v)
        BY <1>2, <3>1 DEF Items
      <3>6. Coming(k, v, "secrets")'
        BY <3>2, <3>3, <3>4, <3>5 DEF Coming, Agree
      <3> QED BY <3>6 DEF WillBe
    <2> QED BY <2>1, <2>2
  <1>10. DueInv'
    <2>1. WellPromised(job.gives)'
      <3>1. DOMAIN gives \subseteq Secrets /\ \A k \in DOMAIN gives : gives[k] # None
        BY <1>3, LoadedTyped, NoneAssumption
      <3> QED BY <1>3, <3>1, KeyNames DEF WellPromised, PairKeys
    <2>2. \A i \in DOMAIN todo' : todo'[i].name \in {"secrets", "sanity"}
      BY <1>2, LoadFacts DEF Items
    <2>3. \A k \in DOMAIN job'.gives : WillBe(k, job.gives[k], Owner(k))'
      <3> TAKE k \in DOMAIN job'.gives
      <3>1. PICK v : v = Loaded[k]
        OBVIOUS
      <3>2. k \in Secrets /\ job'.gives[k] = v /\ Owner(k)' = "secrets"
        BY <1>3, <3>1 DEF Owner
      <3>3. WillBe(k, v, "secrets")'
        BY <1>9, <3>1, <3>2
      <3> QED BY <3>2, <3>3 DEF WillBe, Safe, Written, Coming, Agrees, Agree
    <2> QED BY <1>2, <1>3, <2>1, <2>2, <2>3 DEF DueInv
  <1>11. TokenInv'
    <2>1. PICK v : v = Loaded["tcp_token"]
      OBVIOUS
    <2>2. WillBe("tcp_token", v, "secrets")'
      BY <1>9, <2>1, KeyNames
    <2>3. ~Renewed' /\ Target' = v
      BY <1>2, <1>3, <2>1 DEF Renewed, Target
    <2>4. WillBe("tcp_token", Target, IF Renewed THEN "tcp_token" ELSE "secrets")'
      BY <2>2, <2>3 DEF WillBe, Safe, Written, Coming, Agrees, Agree
    <2> QED BY <1>2, <2>4 DEF TokenInv
  <1>12. PairInv'
    <2>1. sta' # None => sta'[1] # None /\ sta'[2] # None
      <3>1. ASSUME Loaded["provisioned"] PROVE Loaded["wifi_ssid"] # None /\ Loaded["wifi_pass"] # None
        <4>1. Seen["wifi_ssid"] # None /\ Seen["wifi_pass"] # None
          BY <3>1, LoadedTyped DEF HalfPair
        <4>2. {"wifi_ssid", "wifi_pass"} \subseteq Keys \ Missing
          BY KeyNames DEF Missing, PairKeys
        <4> QED BY <4>1, <4>2, LoadedTyped
      <3> QED BY <1>2, <3>1
    <2>2. ASSUME NEW i \in DOMAIN todo'
          PROVE  todo'[i].name # "wifi" /\ \A w \in Items(todo'[i].writes) : Plain(w)
      <3>1. PICK g \in Items(LoadGroups) : todo'[i] = g
        BY <1>2 DEF Items
      <3>2. CASE g.name = "secrets" /\ Items(g.writes) = {Value(x, Loaded[x]) : x \in Missing}
        <4>1. ASSUME NEW x \in Missing PROVE Plain(Value(x, Loaded[x]))
          BY KeyNames DEF Plain, Value, Missing, PairKeys
        <4> QED BY <3>1, <3>2, <4>1
      <3>3. CASE g.name = "sanity" /\ Items(g.writes) = {Value("provisioned", FALSE)}
        <4>1. Plain(Value("provisioned", FALSE))
          BY DEF Plain, Value
        <4> QED BY <3>1, <3>3, <4>1
      <3> QED BY <3>2, <3>3, LoadFacts
    <2>3. ~cut' => Whole(flash)' /\ \A w \in Items(pend)' : Plain(w)
      BY <1>1, <1>2 DEF PairInv, Whole
    <2> QED BY <2>1, <2>2, <2>3 DEF PairInv, Plain
  <1> QED BY <1>6, <1>8, <1>10, <1>11, <1>12

LEMMA NothingGiven == DOMAIN Nothing = {} /\ Partial(Nothing) /\ WellPromised(Nothing)
  BY DEF Nothing, Partial, WellPromised, PairKeys

LEMMA NvsFailure ==
  ASSUME Types, NEW kind \in Defects, NvsFails(kind)
  PROVE  job = Off /\ pend = <<>> /\ todo = <<>> /\ failed = {} /\ fails' \in 0 .. MaxFails /\ defect' \in Defects
  <1>1. fails \in 0 .. MaxFails /\ (defect = kind \/ fails < MaxFails)
    BY DEF NvsFails, Types
  <1>2. fails' = IF defect = kind THEN fails ELSE fails + 1
    BY DEF NvsFails
  <1>3. fails' \in 0 .. MaxFails
    BY <1>1, <1>2, BoundsAssumption
  <1>4. job = Off /\ defect' \in Defects
    BY DEF NvsFails, Types
  <1> QED BY <1>3, <1>4 DEF Types

(* Nothing but the flash is left of a start that aborts; what is erased of *)
(* it, no promise is about.                                                *)
LEMMA AbortKeeps ==
  ASSUME ConfigInv, job = Off,
         UNCHANGED <<pend, job, todo, failed, sta, token, restart, trouble, cut, requests, crashes>>,
         fails' \in 0 .. MaxFails, defect' \in Defects,
         \/ flash' = flash /\ promised' = promised
         \/ promised' = Nothing /\ \E S \in Parts : flash' = ErasedIn(flash, S)
  PROVE  ConfigInv'
  <1> USE DEF ConfigInv
  <1>1. /\ pend = <<>> /\ todo = <<>> /\ failed = {} /\ job'.kind = "off" /\ job'.gives = Nothing /\ job' # Idle
        /\ DOMAIN job'.gives = {}
    BY DEF Types, Off, Idle, Nothing
  <1>2. DOMAIN flash' = Keys /\ \A k \in Keys : flash'[k] = flash[k] \/ flash'[k] = Erased[k]
    BY DEF Types, ErasedIn
  <1>3. Types'
    <2>1. Partial(flash)'
      BY <1>2, ErasedWrite DEF Types, Partial
    <2>2. Partial(promised)' /\ Partial(job.gives)'
      BY <1>1, NothingGiven DEF Types, Partial
    <2> QED BY <1>1, <1>2, <2>1, <2>2 DEF Types
  <1>4. KeptInv'
    <2>1. CASE promised' = Nothing
      BY <2>1, NothingGiven DEF KeptInv, WellPromised
    <2>2. CASE flash' = flash /\ promised' = promised
      <3>1. WellPromised(promised)'
        BY <2>2 DEF KeptInv, WellPromised
      <3>2. \A k \in DOMAIN promised' : Safe(k, promised[k])'
        BY <2>2 DEF KeptInv, Safe, Agrees, Agree
      <3> QED BY <3>1, <3>2 DEF KeptInv
    <2> QED BY <2>1, <2>2
  <1>5. DueInv'
    BY <1>1 DEF DueInv, WellPromised, PairKeys
  <1>6. TokenInv'
    BY <1>1 DEF TokenInv
  <1>7. PairInv'
    <2>1. ~cut' => Whole(flash)'
      <3>1. \A k \in {"wifi_ssid", "wifi_pass"} : flash'[k] = flash[k] \/ flash'[k] = None
        BY <1>2, ErasedWrite, KeyNames DEF PairKeys
      <3> QED BY <3>1 DEF PairInv, Whole
    <2> QED BY <1>1, <2>1, FewItems DEF PairInv
  <1> QED BY <1>3, <1>4, <1>5, <1>6, <1>7

LEMMA StartAbortsKeeps == ConfigInv /\ StartAborts => ConfigInv'
  <1> SUFFICES ASSUME ConfigInv, StartAborts PROVE ConfigInv'
    OBVIOUS
  <1>1. NvsFails("init") /\ "init" \in Defects
    BY DEF StartAborts, Defects
  <1>2. job = Off /\ fails' \in 0 .. MaxFails /\ defect' \in Defects
    BY <1>1, NvsFailure DEF ConfigInv
  <1> QED BY <1>2, AbortKeeps DEF StartAborts

LEMMA StartErasesKeeps == ConfigInv /\ StartErases => ConfigInv'
  <1> SUFFICES ASSUME ConfigInv, StartErases PROVE ConfigInv'
    OBVIOUS
  <1>1. fails \in 0 .. MaxFails /\ fails < MaxFails /\ fails' = fails + 1
    BY DEF ConfigInv, Types, StartErases
  <1>2. fails' \in 0 .. MaxFails
    BY <1>1, BoundsAssumption
  <1>3. job = Off /\ defect' \in Defects
    BY DEF StartErases, ConfigInv, Types
  <1> QED BY <1>2, <1>3, AbortKeeps DEF StartErases

LEMMA BootBlindKeeps ==
  ASSUME ConfigInv, BootBlind
  PROVE  ConfigInv'
  <1> USE DEF ConfigInv
  <1>1. /\ job = Off /\ pend = <<>> /\ todo = <<>> /\ failed = {} /\ fails' \in 0 .. MaxFails
        /\ defect' \in Defects
    <2>1. NvsFails("reads") /\ "reads" \in Defects
      BY DEF BootBlind, Defects
    <2> QED BY <2>1, NvsFailure
  <1>2. /\ sta' = None /\ token' = Fresh("tcp_token") /\ job' = Idle /\ trouble' = TRUE
        /\ flash' = flash /\ pend' = pend /\ todo' = todo /\ failed' = failed
        /\ restart' = restart /\ cut' = cut /\ promised' = promised
        /\ requests' = requests /\ crashes' = crashes
    BY DEF BootBlind
  <1>3. job'.kind = "idle" /\ job'.gives = Nothing /\ job' # Off /\ DOMAIN job'.gives = {}
    BY <1>2 DEF Idle, Off, Nothing
  <1>4. token' \in Nat
    BY <1>2, FreshNat
  <1>5. Types'
    <2>1. Partial(flash)' /\ Partial(promised)' /\ Partial(job.gives)'
      BY <1>2, <1>3 DEF Types, Partial
    <2> QED BY <1>1, <1>2, <1>3, <1>4, <2>1 DEF Types, Kinds
  <1>6. KeptInv'
    <2>1. WellPromised(promised)'
      BY <1>2 DEF KeptInv, WellPromised
    <2>2. \A k \in DOMAIN promised' : Safe(k, promised[k])'
      BY <1>2 DEF KeptInv, Safe, Agrees, Agree
    <2> QED BY <2>1, <2>2 DEF KeptInv
  <1>7. DueInv'
    BY <1>3 DEF DueInv, WellPromised, PairKeys
  <1>8. TokenInv'
    BY <1>2 DEF TokenInv
  <1>9. PairInv'
    BY <1>1, <1>2 DEF PairInv, Whole, Plain
  <1> QED BY <1>5, <1>6, <1>7, <1>8, <1>9

-----------------------------------------------------------------------------
(* A request, by what its groups write.                                    *)

GroupOf(kind, k) == IF kind = "factory" THEN "erase" ELSE IF k \in PairKeys THEN "wifi" ELSE k

GoodRequest(kind, touches, gives, groups) ==
  /\ kind \in {"browse", "config", "regen", "factory"}
  /\ groups \in Seq(GroupSet) /\ Partial(gives) /\ WellPromised(gives)
  /\ PairKeys \cap touches = {} \/ PairKeys \subseteq touches
  /\ \A g \in Items(groups) : IF g.name = "wifi" THEN \E net \in Nets : g = SaveWifi(net)
                              ELSE \A w \in Items(g.writes) : Plain(w)
  /\ \A k \in Keys \ touches : \A g \in Items(groups) : Agree(g, k, Seen[k])
  /\ \A k \in DOMAIN gives :
       /\ \A g \in Items(groups) : Agree(g, k, gives[k])
       /\ \E g \in Items(groups) : /\ g.name = GroupOf(kind, k)
                                   /\ \E w \in Items(g.writes) : k \in DOMAIN w
  /\ "tcp_token" \in touches => kind = "factory" \/ (kind = "regen" /\ "tcp_token" \in DOMAIN gives)

LEMMA RequestKeeps ==
  ASSUME ConfigInv, NEW kind, NEW touches, NEW gives, NEW groups,
         GoodRequest(kind, touches, gives, groups), Request(kind, touches, gives, groups)
  PROVE  ConfigInv'
  <1> USE DEF ConfigInv
  <1>1. job = Idle /\ todo = <<>> /\ failed = {} /\ job # Off /\ token \in Nat
    BY DEF Request, Types, Idle, Off
  <1>2. /\ job' = [kind |-> kind, gives |-> gives] /\ todo' = LoadGroups \o groups /\ failed' = {}
        /\ promised' = Without(promised, touches)
        /\ requests' = requests + 1 /\ requests < MaxRequests
        /\ defect' = defect /\ flash' = flash /\ pend' = pend /\ sta' = sta /\ token' = token
        /\ restart' = restart /\ trouble' = trouble /\ cut' = cut /\ fails' = fails /\ crashes' = crashes
    BY DEF Request, Begin
  <1>3. job'.kind = kind /\ job'.gives = gives /\ job' # Off /\ job' # Idle
    BY <1>2 DEF GoodRequest, Off, Idle
  <1>4. /\ todo' \in Seq(GroupSet) /\ Items(todo') = Items(LoadGroups) \cup Items(groups)
        /\ DOMAIN todo' = 1 .. Len(LoadGroups) + Len(groups)
        /\ Len(LoadGroups) \in Nat /\ Len(groups) \in Nat /\ DOMAIN groups = 1 .. Len(groups)
        /\ \A i \in 1 .. Len(LoadGroups) + Len(groups) :
             todo'[i] = IF i <= Len(LoadGroups) THEN LoadGroups[i] ELSE groups[i - Len(LoadGroups)]
    <2>1. LoadGroups \in Seq(GroupSet) /\ groups \in Seq(GroupSet)
      BY LoadFacts DEF GoodRequest
    <2>2. /\ LoadGroups \o groups \in Seq(GroupSet)
          /\ Items(LoadGroups \o groups) = Items(LoadGroups) \cup Items(groups)
      BY <2>1, ConcatItems
    <2>3. /\ Len(LoadGroups \o groups) = Len(LoadGroups) + Len(groups)
          /\ \A i \in 1 .. Len(LoadGroups) + Len(groups) : (LoadGroups \o groups)[i]
               = IF i <= Len(LoadGroups) THEN LoadGroups[i] ELSE groups[i - Len(LoadGroups)]
      BY <2>1, ConcatProperties
    <2>4. Len(LoadGroups) \in Nat /\ Len(groups) \in Nat /\ DOMAIN groups = 1 .. Len(groups)
      BY <2>1, LenProperties
    <2> QED BY <1>2, <2>2, <2>3, <2>4
  <1>5. /\ DOMAIN promised' = DOMAIN promised \ touches
        /\ \A k \in DOMAIN promised' : promised'[k] = promised[k]
    BY <1>2 DEF Without
  <1>6. Types'
    <2>1. Partial(flash)' /\ Partial(job.gives)'
      BY <1>2, <1>3 DEF Types, Partial, GoodRequest
    <2>2. Partial(promised)'
      BY <1>5 DEF Types, Partial
    <2>3. requests' \in 0 .. MaxRequests
      BY <1>2, BoundsAssumption DEF Types
    <2>4. job'.kind \in Kinds /\ job'.kind # "off" /\ job'.kind # "idle"
      BY <1>3 DEF Kinds, GoodRequest
    <2>5. /\ job'.kind = "off" <=> job' = Off
          /\ job'.kind = "idle" <=> job' = Idle
          /\ job' \in {Off, Idle} => todo' = <<>> /\ failed' = {}
          /\ job' = Off => pend' = <<>>
      BY <1>3, <2>4
    <2>6. /\ pend' \in Seq(WriteSet) /\ DOMAIN flash' = Keys /\ failed' \subseteq Names
          /\ defect' \in Defects /\ restart' \in BOOLEAN /\ trouble' \in BOOLEAN /\ cut' \in BOOLEAN
          /\ sta' \in {None} \cup ((Nets \cup {None}) \X (Nets \cup {None}))
          /\ token' \in Nat \cup {None} /\ (job' # Off => token' \in Nat)
          /\ fails' \in 0 .. MaxFails /\ crashes' \in 0 .. MaxCrashes
      BY <1>1, <1>2 DEF Types
    <2> QED BY <1>4, <2>1, <2>2, <2>3, <2>4, <2>5, <2>6 DEF Types
  (* A key the request does not touch keeps its value.                     *)
  <1>7. ASSUME NEW k \in Keys \ touches, NEW v, Safe(k, v),
               k \notin Missing, k = "provisioned" => ~HalfPair
        PROVE  Safe(k, v)'
    <2>1. Seen[k] = v
      BY <1>7, SafeSeen
    <2>2. \A g \in Items(todo') : Agree(g, k, v)
      BY <1>4, <1>7, <2>1, LoadAgrees DEF GoodRequest
    <2>3. \A i \in DOMAIN todo' : Agree(todo'[i], k, v)
      BY <2>2 DEF Items
    <2> QED BY <1>2, <1>7, <2>3 DEF Safe, Agrees, Agree
  <1>8. KeptInv'
    <2>1. WellPromised(promised)'
      BY <1>5 DEF KeptInv, WellPromised, GoodRequest, PairKeys
    <2>2. ASSUME NEW k \in DOMAIN promised \ touches, NEW v, v = promised[k] PROVE Safe(k, v)'
      <3>1. k \in Keys /\ Safe(k, v) /\ Seen[k] = v
        <4>1. k \in Keys /\ Safe(k, v)
          BY <2>2 DEF Types, Partial, KeptInv
        <4> QED BY <4>1, SafeSeen
      <3>2. k \notin Missing
        BY <2>2, <3>1 DEF Missing, KeptInv, WellPromised
      <3>3. k = "provisioned" => ~HalfPair
        <4>1. SUFFICES ASSUME k = "provisioned", HalfPair PROVE FALSE
          OBVIOUS
        <4>2. {"wifi_ssid", "wifi_pass", "provisioned"} \subseteq DOMAIN promised
          BY <4>1 DEF KeptInv, WellPromised, PairKeys
        <4>3. \A x \in {"wifi_ssid", "wifi_pass", "provisioned"} : Seen[x] = promised[x]
          BY <4>2, KeyNames, SafeSeen DEF KeptInv, PairKeys
        <4> QED BY <4>1, <4>2, <4>3 DEF HalfPair, KeptInv, WellPromised
      <3> QED BY <1>7, <3>1, <3>2, <3>3
    <2>3. \A k \in DOMAIN promised' : Safe(k, promised[k])'
      <3> TAKE k \in DOMAIN promised'
      <3>1. PICK v : v = promised[k]
        OBVIOUS
      <3>2. Safe(k, v)' /\ promised'[k] = v
        BY <1>5, <2>2, <3>1
      <3> QED BY <3>2 DEF Safe, Agrees, Agree
    <2> QED BY <2>1, <2>3 DEF KeptInv
  (* A value it is to set is on its way.                                   *)
  <1>9. ASSUME NEW k \in DOMAIN gives, NEW v, v = gives[k] PROVE WillBe(k, v, GroupOf(kind, k))'
    <2>1. PICK g \in Items(groups) : /\ g.name = GroupOf(kind, k)
                                     /\ \E w \in Items(g.writes) : k \in DOMAIN w
      BY DEF GoodRequest
    <2>2. PICK r \in DOMAIN groups : groups[r] = g
      BY DEF Items
    <2>3. PICK j \in DOMAIN todo' : j = Len(LoadGroups) + r
      BY <1>4
    <2>4. ASSUME NEW i \in DOMAIN todo', i >= j PROVE Agree(todo'[i], k, v)
      <3>1. i - Len(LoadGroups) \in DOMAIN groups /\ todo'[i] = groups[i - Len(LoadGroups)]
        BY <1>4, <2>2, <2>3, <2>4
      <3> QED BY <1>9, <3>1 DEF GoodRequest, Items
    <2>5. todo'[j] = g
      <3>1. ~(j <= Len(LoadGroups)) /\ j - Len(LoadGroups) = r /\ j \in 1 .. Len(LoadGroups) + Len(groups)
        BY <1>4, <2>2, <2>3
      <3> QED BY <1>4, <2>2, <3>1
    <2>6. Coming(k, v, GroupOf(kind, k))'
      BY <2>1, <2>4, <2>5 DEF Coming, Agree, GroupOf
    <2> QED BY <2>6 DEF WillBe
  <1>10. DueInv'
    <2>1. WellPromised(job.gives)'
      BY <1>3 DEF WellPromised, GoodRequest
    <2>2. \A k \in DOMAIN job'.gives : WillBe(k, job.gives[k], Owner(k))'
      <3> TAKE k \in DOMAIN job'.gives
      <3>1. PICK v : v = gives[k]
        OBVIOUS
      <3>2. k \in DOMAIN gives /\ job'.gives[k] = v /\ Owner(k)' = GroupOf(kind, k)
        BY <1>3, <3>1 DEF Owner, GroupOf, GoodRequest
      <3>3. WillBe(k, v, GroupOf(kind, k))'
        BY <1>9, <3>1, <3>2
      <3> QED BY <3>2, <3>3 DEF WillBe, Safe, Written, Coming, Agrees, Agree, GroupOf
    <2> QED BY <1>3, <2>1, <2>2 DEF DueInv, GoodRequest
  <1>11. TokenInv'
    <2>1. SUFFICES ASSUME ~trouble, ~restart, sta # None, kind # "factory"
                   PROVE  WillBe("tcp_token", Target, IF Renewed THEN "tcp_token" ELSE "secrets")'
      BY <1>1, <1>2, <1>3 DEF TokenInv
    <2>2. Renewed' = (kind = "regen" /\ "tcp_token" \in DOMAIN gives)
      BY <1>3 DEF Renewed
    <2>3. CASE kind = "regen" /\ "tcp_token" \in DOMAIN gives
      <3>1. PICK v : v = gives["tcp_token"]
        OBVIOUS
      <3>2. GroupOf(kind, "tcp_token") = "tcp_token"
        BY <2>3, KeyNames DEF GroupOf
      <3>3. WillBe("tcp_token", v, "tcp_token")'
        BY <1>9, <2>3, <3>1, <3>2 DEF WillBe, Safe, Written, Coming, Agrees, Agree
      <3>4. Target' = v
        BY <1>3, <2>2, <2>3, <3>1 DEF Target
      <3> QED BY <2>2, <2>3, <3>3, <3>4 DEF WillBe, Safe, Written, Coming, Agrees, Agree
    <2>4. CASE ~(kind = "regen" /\ "tcp_token" \in DOMAIN gives)
      <3>1. PICK v : v = token
        OBVIOUS
      <3>2. "tcp_token" \in Keys \ touches /\ "tcp_token" # "provisioned"
        BY <2>1, <2>4, KeyNames DEF GoodRequest
      <3>3. Safe("tcp_token", v)
        <4>1. ~Renewed /\ job.kind = "idle"
          BY <1>1 DEF Renewed, Idle
        <4>2. WillBe("tcp_token", Target, IF Renewed THEN "tcp_token" ELSE "secrets")
          BY <2>1, <4>1 DEF TokenInv
        <4> QED BY <1>1, <3>1, <4>1, <4>2, WillBeDone DEF Target
      <3>4. "tcp_token" \notin Missing
        <4>1. Seen["tcp_token"] = v
          BY <3>2, <3>3, SafeSeen
        <4> QED BY <1>1, <3>1, <4>1, NoneAssumption DEF Missing
      <3>5. Safe("tcp_token", v)'
        BY <1>7, <3>2, <3>3, <3>4
      <3>6. Target' = v
        BY <1>2, <2>2, <2>4, <3>1 DEF Target
      <3> QED BY <2>2, <2>4, <3>5, <3>6 DEF WillBe, Safe, Agrees, Agree
    <2> QED BY <2>3, <2>4
  <1>12. PairInv'
    <2>1. \A g \in Items(LoadGroups) : g.name # "wifi" /\ \A w \in Items(g.writes) : Plain(w)
      <3> TAKE g \in Items(LoadGroups)
      <3>2. CASE g.name = "secrets" /\ Items(g.writes) = {Value(x, Loaded[x]) : x \in Missing}
        <4>1. ASSUME NEW x \in Missing PROVE Plain(Value(x, Loaded[x]))
          BY KeyNames DEF Plain, Value, Missing, PairKeys
        <4> QED BY <3>2, <4>1
      <3>3. CASE g.name = "sanity" /\ Items(g.writes) = {Value("provisioned", FALSE)}
        <4>1. Plain(Value("provisioned", FALSE))
          BY DEF Plain, Value
        <4> QED BY <3>3, <4>1
      <3> QED BY <3>2, <3>3, LoadFacts
    <2>2. ASSUME NEW i \in DOMAIN todo'
          PROVE  IF todo'[i].name # "wifi" THEN \A w \in Items(todo'[i].writes) : Plain(w)
                 ELSE \E net \in Nets : todo'[i] = SaveWifi(net)
      <3>1. todo'[i] \in Items(todo')
        BY DEF Items
      <3> QED BY <1>4, <2>1, <3>1 DEF GoodRequest
    <2>3. ~cut' => Whole(flash)' /\ \A w \in Items(pend)' : Plain(w)
      BY <1>1, <1>2 DEF PairInv, Whole
    <2>4. sta' # None => sta'[1] # None /\ sta'[2] # None
      BY <1>2 DEF PairInv
    <2> QED BY <2>2, <2>3, <2>4 DEF PairInv, Plain, SaveWifi
  <1> QED BY <1>6, <1>8, <1>10, <1>11, <1>12

-----------------------------------------------------------------------------
(* The requests there are.                                                 *)

LEMMA BrowseKeeps ==
  ASSUME ConfigInv, Browse PROVE ConfigInv'
  <1>1. GoodRequest("browse", {}, Nothing, <<>>)
    BY NothingGiven, FewItems DEF GoodRequest
  <1> QED BY <1>1, RequestKeeps DEF Browse

(* A request of one group with one write.                                  *)
LEMMA OneGroup ==
  ASSUME NEW n \in Names, NEW w \in WriteSet
  PROVE  /\ Group(n, <<w>>) \in GroupSet /\ <<Group(n, <<w>>)>> \in Seq(GroupSet)
         /\ Items(<<Group(n, <<w>>)>>) = {Group(n, <<w>>)}
         /\ Group(n, <<w>>).name = n /\ Items(Group(n, <<w>>).writes) = {w}
  <1>1. <<w>> \in Seq(WriteSet) /\ Items(<<w>>) = {w}
    BY FewItems
  <1>2. PICK s \in Seq(WriteSet) : s = <<w>>
    BY <1>1
  <1>3. PICK g \in GroupSet : g = Group(n, s) /\ g.name = n /\ g.writes = s
    BY GroupTyped
  <1>4. <<g>> \in Seq(GroupSet) /\ Items(<<g>>) = {g}
    BY FewItems
  <1> QED BY <1>1, <1>2, <1>3, <1>4

LEMMA RegenKeeps ==
  ASSUME ConfigInv, NEW k \in Secrets, Regen(k) PROVE ConfigInv'
  <1>1. PICK n \in Nat : n = Fresh(k)
    BY FreshNat DEF ConfigInv
  <1>2. k \in Keys /\ n \in Allowed(k)
    BY KeyNames, AllowedCases
  <1>3. PICK new \in WriteSet : new = Value(k, n) /\ DOMAIN new = {k} /\ new[k] = n /\ Partial(new)
    BY <1>2, ValueWrite
  <1>4. PICK g \in GroupSet : /\ g = SaveToken(k, new) /\ g.name = k /\ Items(g.writes) = {new}
                              /\ <<g>> \in Seq(GroupSet) /\ Items(<<g>>) = {g}
    <2>1. k \in Names
      BY DEF Names
    <2>2. PICK g : g = SaveToken(k, new)
      OBVIOUS
    <2>3. /\ <<g>> \in Seq(GroupSet) /\ Items(<<g>>) = {g}
          /\ g.name = k /\ Items(g.writes) = {new}
      BY <2>1, <2>2, OneGroup DEF SaveToken
    <2>4. g \in GroupSet
      BY <2>3, SeqItems
    <2> QED BY <2>2, <2>3, <2>4
  <1>5. Request("regen", {k}, new, <<g>>)
    BY <1>1, <1>3, <1>4 DEF Regen
  <1>6. k \notin PairKeys /\ k # "wifi" /\ n # None
    BY <1>2, KeyNames, NoneAssumption
  <1>7. GoodRequest("regen", {k}, new, <<g>>)
    <2>1. WellPromised(new)
      BY <1>3, <1>6 DEF WellPromised, PairKeys
    <2>2. Plain(new)
      BY <1>3, <1>6 DEF Plain, PairKeys
    <2>3. \A x, v : x # k => Agree(g, x, v)
      BY <1>3, <1>4 DEF Agree
    <2>4. Agree(g, k, new[k])
      BY <1>3, <1>4 DEF Agree
    <2>5. \A x \in DOMAIN new : /\ \A h \in Items(<<g>>) : Agree(h, x, new[x])
                                /\ \E h \in Items(<<g>>) : /\ h.name = GroupOf("regen", x)
                                                           /\ \E w \in Items(h.writes) : x \in DOMAIN w
      BY <1>3, <1>4, <1>6, <2>4 DEF GroupOf
    <2>6. \A h \in Items(<<g>>) : h.name # "wifi" /\ \A w \in Items(h.writes) : Plain(w)
      BY <1>4, <1>6, <2>2
    <2>7. \A x \in Keys \ {k} : \A h \in Items(<<g>>) : Agree(h, x, Seen[x])
      BY <1>4, <2>3
    <2> QED BY <1>3, <1>4, <1>6, <2>1, <2>5, <2>6, <2>7 DEF GoodRequest, PairKeys
  <1> QED BY <1>5, <1>7, RequestKeeps

LEMMA FactoryKeeps ==
  ASSUME ConfigInv, Factory PROVE ConfigInv'
  <1>1. PICK gives : gives = Without(Erased, Secrets)
    OBVIOUS
  <1>2. DOMAIN gives = Keys \ Secrets /\ \A k \in DOMAIN gives : gives[k] = Erased[k]
    BY <1>1, ErasedWrite DEF Without
  <1>3. PICK g : g = Group("erase", <<Erased>>)
    OBVIOUS
  <1>4. /\ <<g>> \in Seq(GroupSet) /\ Items(<<g>>) = {g} /\ g.name = "erase" /\ Items(g.writes) = {Erased}
    <2>1. "erase" \in Names
      BY DEF Names
    <2> QED BY <1>3, <2>1, ErasedWrite, OneGroup
  <1>5. Request("factory", Keys, gives, <<g>>)
    BY <1>1, <1>3 DEF Factory
  <1>6. GoodRequest("factory", Keys, gives, <<g>>)
    <2>1. Partial(gives)
      BY <1>2, ErasedWrite DEF Partial
    <2>2. WellPromised(gives)
      BY <1>2, ErasedWrite, KeyNames DEF WellPromised, PairKeys
    <2>3. \A x \in DOMAIN gives : /\ \A h \in Items(<<g>>) : Agree(h, x, gives[x])
                                  /\ \E h \in Items(<<g>>) : /\ h.name = GroupOf("factory", x)
                                                             /\ \E w \in Items(h.writes) : x \in DOMAIN w
      BY <1>2, <1>4, ErasedWrite DEF GroupOf, Agree
    <2>4. \A h \in Items(<<g>>) : h.name # "wifi" /\ \A w \in Items(h.writes) : Plain(w)
      BY <1>4 DEF Plain
    <2> QED BY <1>4, <2>1, <2>2, <2>3, <2>4, KeyNames DEF GoodRequest
  <1> QED BY <1>5, <1>6, RequestKeeps

LEMMA RebootKeeps ==
  ASSUME ConfigInv, Reboot PROVE ConfigInv'
  <1> USE DEF ConfigInv
  <1>1. /\ restart' = TRUE /\ requests' = requests + 1 /\ requests < MaxRequests
        /\ defect' = defect /\ flash' = flash /\ pend' = pend /\ job' = job /\ todo' = todo /\ failed' = failed
        /\ sta' = sta /\ token' = token /\ trouble' = trouble /\ cut' = cut /\ promised' = promised
        /\ fails' = fails /\ crashes' = crashes
    BY DEF Reboot
  <1>2. requests' \in 0 .. MaxRequests
    BY <1>1, BoundsAssumption DEF Types
  <1>3. Types'
    <2>1. Partial(flash)' /\ Partial(promised)' /\ Partial(job.gives)'
      BY <1>1 DEF Types, Partial
    <2> QED BY <1>1, <1>2, <2>1 DEF Types
  <1>4. KeptInv'
    BY <1>1 DEF KeptInv, WellPromised, Safe, Agrees, Agree
  <1>5. DueInv'
    <2>1. job.kind # "boot" /\ DOMAIN job.gives = {}
      BY DEF Reboot, Idle, Nothing
    <2> QED BY <1>1, <2>1 DEF DueInv, WellPromised, PairKeys
  <1>6. TokenInv'
    BY <1>1 DEF TokenInv
  <1>7. PairInv'
    <2>1. todo = <<>>
      BY DEF Reboot, Types
    <2> QED BY <1>1, <2>1 DEF PairInv, Whole, Plain
  <1> QED BY <1>3, <1>4, <1>5, <1>6, <1>7

LEMMA SettingsSaved ==
  ASSUME NEW names, names \in Seq(SettingKeys), NEW f \in [SettingKeys -> Options], NEW s,
         s = [i \in DOMAIN names |-> SaveSettings(names[i], f[names[i]])]
  PROVE  /\ s \in Seq(GroupSet)
         /\ Items(s) = {SaveSettings(names[i], f[names[i]]) : i \in DOMAIN names}
  <1>1. ASSUME NEW i \in DOMAIN names PROVE SaveSettings(names[i], f[names[i]]) \in GroupSet
    <2>1. PICK k \in SettingKeys : k = names[i]
      OBVIOUS
    <2>2. k \in Names /\ k \in Keys /\ f[k] \in Allowed(k)
      BY KeyNames, AllowedCases DEF Names
    <2>3. PICK w \in WriteSet : w = Value(k, f[k])
      BY <2>2, ValueWrite
    <2>4. Group(k, <<w>>) \in GroupSet
      BY <2>2, <2>3, OneGroup
    <2> QED BY <2>1, <2>3, <2>4 DEF SaveSettings
  <1>2. DOMAIN names = 1 .. Len(names) /\ Len(names) \in Nat
    BY LenProperties
  <1>3. s \in [1 .. Len(names) -> GroupSet]
    BY <1>1, <1>2
  <1>4. s \in Seq(GroupSet)
    BY <1>2, <1>3
  <1> QED BY <1>4 DEF Items

LEMMA PairWrites ==
  ASSUME NEW net \in Nets
  PROVE  /\ SaveWifi(net) \in GroupSet /\ SaveWifi(net).name = "wifi"
         /\ Items(SaveWifi(net).writes)
              = {Value("wifi_ssid", net), Value("wifi_pass", net), Value("provisioned", TRUE)}
  <1>1. PICK a \in WriteSet : a = Value("wifi_ssid", net)
    BY ValueWrite, KeyNames, AllowedCases DEF PairKeys
  <1>2. PICK b \in WriteSet : b = Value("wifi_pass", net)
    BY ValueWrite, KeyNames, AllowedCases DEF PairKeys
  <1>3. PICK c \in WriteSet : c = Value("provisioned", TRUE)
    BY ValueWrite, KeyNames, AllowedCases DEF PairKeys
  <1>4. <<a, b, c>> \in Seq(WriteSet) /\ Items(<<a, b, c>>) = {a, b, c}
    BY FewItems
  <1>5. SaveWifi(net) = Group("wifi", <<a, b, c>>)
    BY <1>1, <1>2, <1>3 DEF SaveWifi
  <1>6. "wifi" \in Names
    BY DEF Names
  <1> QED BY <1>1, <1>2, <1>3, <1>4, <1>5, <1>6, GroupTyped

(* Each group of a request to configure, and who writes what.              *)
LEMMA ConfigKeeps ==
  ASSUME ConfigInv, NEW net \in Nets \cup {None}, NEW v \in Options \cup {None},
         NEW sent, sent = [k \in IF v = None THEN {} ELSE SettingKeys |-> v],
         NEW pass, pass = Nothing \/ pass = Value("admin_pass", Fresh("admin_pass")),
         Config(net, sent, pass)
  PROVE  ConfigInv'
  <1> DEFINE f == [k \in SettingKeys |-> IF k \in DOMAIN sent THEN sent[k] ELSE Seen[k]]
             pair == IF net = None THEN Nothing ELSE Pair(net)
             a == IF net = None THEN <<>> ELSE <<SaveWifi(net)>>
             b == [i \in DOMAIN Early |-> SaveSettings(Early[i], f[Early[i]])]
             c == IF pass = Nothing THEN <<>> ELSE <<SaveAdminPass(pass)>>
             d == [i \in DOMAIN Late |-> SaveSettings(Late[i], f[Late[i]])]
             gives == Overlay(Overlay(sent, pass), pair)
  <1>1. /\ DOMAIN sent \subseteq SettingKeys /\ \A k \in DOMAIN sent : sent[k] \in Options
        /\ DOMAIN sent \in {{}, SettingKeys}
    OBVIOUS
  <1>2. f \in [SettingKeys -> Options]
    BY <1>1, SeenTyped, AllowedCases, KeyNames DEF ConfigInv
  <1>3. /\ Early \in Seq(SettingKeys) /\ Late \in Seq(SettingKeys)
        /\ \A i \in DOMAIN Early : Early[i] \in SettingKeys
        /\ \A i \in DOMAIN Late : Late[i] \in SettingKeys
        /\ \A k \in SettingKeys : (\E i \in DOMAIN Early : k = Early[i]) \/ (\E i \in DOMAIN Late : k = Late[i])
    <2>1. /\ \A i \in DOMAIN Early : Early[i] \in SettingKeys
          /\ \A i \in DOMAIN Late : Late[i] \in SettingKeys
          /\ \A k \in SettingKeys : (\E i \in DOMAIN Early : k = Early[i]) \/ (\E i \in DOMAIN Late : k = Late[i])
      BY DEF SettingKeys
    <2>2. /\ Early \in [1 .. Len(Early) -> SettingKeys] /\ Len(Early) \in Nat
          /\ Late \in [1 .. Len(Late) -> SettingKeys] /\ Len(Late) \in Nat
      BY <2>1, SettingsAssumption
    <2> QED BY <2>1, <2>2
  <1>4. PICK new : pass = Nothing \/ (/\ pass = new /\ new \in WriteSet /\ DOMAIN new = {"admin_pass"}
                                      /\ new["admin_pass"] \in Nat /\ Partial(new))
    <2>1. PICK n \in Nat : n = Fresh("admin_pass")
      BY FreshNat DEF ConfigInv
    <2>2. "admin_pass" \in Keys /\ n \in Allowed("admin_pass")
      BY KeyNames, AllowedCases
    <2>3. PICK w \in WriteSet : /\ w = Value("admin_pass", n) /\ DOMAIN w = {"admin_pass"}
                                /\ w["admin_pass"] = n /\ Partial(w)
      BY <2>2, ValueWrite
    <2> QED BY <2>1, <2>3
  <1>5. DOMAIN pass \subseteq {"admin_pass"} /\ Partial(pass) /\ \A k \in DOMAIN pass : pass[k] \in Nat
    BY <1>4, NothingGiven
  <1>6. /\ net = None => DOMAIN pair = {}
        /\ net # None => /\ net \in Nets /\ DOMAIN pair = PairKeys /\ pair["wifi_ssid"] = net
                         /\ pair["wifi_pass"] = net /\ pair["provisioned"] = TRUE
    BY NothingGiven DEF Pair, PairKeys
  <1>7. Request("config", DOMAIN gives, gives, ((a \o b) \o c) \o d)
    <2>1. /\ \A i \in DOMAIN Early : f[Early[i]] = IF Early[i] \in DOMAIN sent THEN sent[Early[i]] ELSE Seen[Early[i]]
          /\ \A i \in DOMAIN Late : f[Late[i]] = IF Late[i] \in DOMAIN sent THEN sent[Late[i]] ELSE Seen[Late[i]]
      BY <1>3
    <2>2. /\ b = [i \in DOMAIN Early |-> SaveSettings(Early[i], IF Early[i] \in DOMAIN sent THEN sent[Early[i]] ELSE Seen[Early[i]])]
          /\ d = [i \in DOMAIN Late |-> SaveSettings(Late[i], IF Late[i] \in DOMAIN sent THEN sent[Late[i]] ELSE Seen[Late[i]])]
      BY <2>1
    <2> HIDE DEF f, b, d
    <2> QED BY <2>2 DEF Config
  <1> HIDE DEF f
  <1>8. /\ b \in Seq(GroupSet) /\ Items(b) = {SaveSettings(Early[i], f[Early[i]]) : i \in DOMAIN Early}
        /\ d \in Seq(GroupSet) /\ Items(d) = {SaveSettings(Late[i], f[Late[i]]) : i \in DOMAIN Late}
    BY <1>2, <1>3, SettingsSaved
  <1>9. a \in Seq(GroupSet) /\ Items(a) = IF net = None THEN {} ELSE {SaveWifi(net)}
    <2>1. CASE net = None
      BY <2>1, FewItems
    <2>2. CASE net # None
      <3>1. PICK g \in GroupSet : g = SaveWifi(net)
        BY <1>6, <2>2, PairWrites
      <3>2. <<g>> \in Seq(GroupSet) /\ Items(<<g>>) = {g}
        BY FewItems
      <3>3. a = <<g>>
        BY <2>2, <3>1
      <3> QED BY <2>2, <3>1, <3>2, <3>3
    <2> QED BY <2>1, <2>2
  <1>10. c \in Seq(GroupSet) /\ Items(c) = IF pass = Nothing THEN {} ELSE {SaveAdminPass(pass)}
    <2>1. "admin_pass" \in Names
      BY KeyNames DEF Names
    <2>2. CASE pass = Nothing
      BY <2>2, FewItems
    <2>3. CASE pass # Nothing
      <3>1. <<SaveAdminPass(pass)>> \in Seq(GroupSet) /\ Items(<<SaveAdminPass(pass)>>) = {SaveAdminPass(pass)}
        BY <1>4, <2>1, <2>3, OneGroup DEF SaveAdminPass
      <3> QED BY <2>3, <3>1
    <2> QED BY <2>2, <2>3
  <1> HIDE DEF a, b, c, d
  <1>11. PICK groups \in Seq(GroupSet) :
           /\ groups = ((a \o b) \o c) \o d
           /\ Items(groups) = ((Items(a) \cup Items(b)) \cup Items(c)) \cup Items(d)
    <2> /\ a \in Seq(GroupSet) /\ b \in Seq(GroupSet) /\ c \in Seq(GroupSet) /\ d \in Seq(GroupSet)
      BY <1>8, <1>9, <1>10
    <2>1. PICK ab \in Seq(GroupSet) : ab = a \o b /\ Items(ab) = Items(a) \cup Items(b)
      BY ConcatItems
    <2>2. PICK abc \in Seq(GroupSet) : abc = ab \o c /\ Items(abc) = Items(ab) \cup Items(c)
      BY ConcatItems
    <2>3. PICK abcd \in Seq(GroupSet) : abcd = abc \o d /\ Items(abcd) = Items(abc) \cup Items(d)
      BY ConcatItems
    <2> QED BY <2>1, <2>2, <2>3
  <1>12. ASSUME NEW g \in Items(groups)
         PROVE  \/ net # None /\ g = SaveWifi(net)
                \/ \E k \in SettingKeys : g = SaveSettings(k, f[k])
                \/ pass # Nothing /\ g = SaveAdminPass(pass)
    BY <1>3, <1>8, <1>9, <1>10, <1>11, <1>12
  <1>13. /\ net # None => SaveWifi(net) \in Items(groups)
         /\ \A k \in SettingKeys : SaveSettings(k, f[k]) \in Items(groups)
         /\ pass # Nothing => SaveAdminPass(pass) \in Items(groups)
    BY <1>3, <1>8, <1>9, <1>10, <1>11
  <1>14. /\ DOMAIN gives = (DOMAIN sent \cup DOMAIN pass) \cup DOMAIN pair
         /\ \A k \in DOMAIN pair : gives[k] = pair[k]
         /\ \A k \in DOMAIN pass : gives[k] = pass[k]
         /\ \A k \in DOMAIN sent : gives[k] = sent[k] /\ f[k] = sent[k]
    <2>1. \A k \in DOMAIN sent : f[k] = sent[k]
      BY <1>1 DEF f
    <2>2. DOMAIN sent \cap DOMAIN pass = {} /\ DOMAIN sent \cap DOMAIN pair = {} /\ DOMAIN pass \cap DOMAIN pair = {}
      BY <1>1, <1>5, <1>6, KeyNames
    <2> HIDE DEF pair
    <2> QED BY <2>1, <2>2 DEF Overlay
  <1> HIDE DEF gives, pair
  <1>15. ASSUME NEW k \in SettingKeys
         PROVE  /\ SaveSettings(k, f[k]).name = k
                /\ Items(SaveSettings(k, f[k]).writes) = {Value(k, f[k])}
    <2>1. PICK w \in WriteSet : w = Value(k, f[k])
      BY <1>2, ValueWrite, KeyNames, AllowedCases
    <2>2. k \in Names
      BY DEF Names
    <2> QED BY <2>1, <2>2, OneGroup DEF SaveSettings
  <1>16. ASSUME pass # Nothing
         PROVE  /\ SaveAdminPass(pass).name = "admin_pass" /\ Items(SaveAdminPass(pass).writes) = {pass}
                /\ DOMAIN pass = {"admin_pass"}
    <2>1. "admin_pass" \in Names
      BY KeyNames DEF Names
    <2> QED BY <1>4, <1>16, <2>1, OneGroup DEF SaveAdminPass
  <1>17. GoodRequest("config", DOMAIN gives, gives, groups)
    <2>1. Partial(gives)
      <3>1. \A k \in DOMAIN sent : k \in Keys /\ gives[k] \in Allowed(k)
        BY <1>1, <1>14, KeyNames, AllowedCases
      <3>2. \A k \in DOMAIN pass : k \in Keys /\ gives[k] \in Allowed(k)
        BY <1>5, <1>14, KeyNames, AllowedCases
      <3>3. \A k \in DOMAIN pair : k \in Keys /\ gives[k] \in Allowed(k)
        <4> TAKE k \in DOMAIN pair
        <4>1. net \in Nets /\ k \in PairKeys /\ pair["wifi_ssid"] = net /\ pair["wifi_pass"] = net /\ pair["provisioned"] = TRUE
          BY <1>6
        <4>2. pair[k] \in Allowed(k)
          BY <4>1, AllowedCases DEF PairKeys
        <4> QED BY <1>14, <4>1, <4>2, KeyNames
      <3> QED BY <1>14, <3>1, <3>2, <3>3 DEF Partial
    <2>2. /\ DOMAIN sent \cap PairKeys = {} /\ DOMAIN pass \cap PairKeys = {}
          /\ DOMAIN sent \cap Secrets = {} /\ DOMAIN pair \cap Secrets = {}
          /\ "tcp_token" \notin DOMAIN gives
      <3>1. DOMAIN pair \subseteq PairKeys /\ PairKeys \cap Secrets = {} /\ SettingKeys \cap Secrets = {}
        BY <1>6, KeyNames
      <3>2. "admin_pass" \notin PairKeys /\ PairKeys \cap SettingKeys = {} /\ "tcp_token" \in Secrets
        BY KeyNames
      <3> QED BY <1>1, <1>5, <1>14, <3>1, <3>2
    <2>3. PairKeys \cap DOMAIN gives = {} \/ PairKeys \subseteq DOMAIN gives
      BY <1>6, <1>14, <2>2
    <2>4. WellPromised(gives)
      <3>1. "provisioned" \in DOMAIN gives => gives["wifi_ssid"] # None /\ gives["wifi_pass"] # None
        BY <1>6, <1>14, <2>2 DEF PairKeys
      <3>2. \A k \in DOMAIN gives \cap Secrets : gives[k] # None
        BY <1>5, <1>14, <2>2, NoneAssumption
      <3> QED BY <2>3, <3>1, <3>2 DEF WellPromised
    <2>5. ASSUME NEW g \in Items(groups)
          PROVE  IF g.name = "wifi" THEN \E x \in Nets : g = SaveWifi(x)
                 ELSE \A w \in Items(g.writes) : Plain(w)
      <3>1. CASE net # None /\ g = SaveWifi(net)
        BY <1>6, <3>1, PairWrites
      <3>2. CASE \E k \in SettingKeys : g = SaveSettings(k, f[k])
        <4>1. PICK k \in SettingKeys : g = SaveSettings(k, f[k])
          BY <3>2
        <4>2. Plain(Value(k, f[k])) /\ k # "wifi"
          BY KeyNames DEF Plain, Value, PairKeys
        <4> QED BY <1>15, <4>1, <4>2
      <3>3. CASE pass # Nothing /\ g = SaveAdminPass(pass)
        <4>1. Plain(pass)
          BY <1>16, <3>3 DEF Plain
        <4> QED BY <1>16, <3>3, <4>1
      <3> QED BY <1>12, <3>1, <3>2, <3>3
    (* Each key is written with what is promised for it or with what it had. *)
    <2>6. ASSUME NEW k \in Keys, NEW g \in Items(groups)
          PROVE  Agree(g, k, IF k \in DOMAIN gives THEN gives[k] ELSE Seen[k])
      <3>1. CASE net # None /\ g = SaveWifi(net)
        <4>1. k \in PairKeys => k \in DOMAIN gives /\ gives[k] = pair[k]
          BY <1>6, <1>14, <3>1
        <4>2. \A w \in Items(g.writes) : k \in DOMAIN w => k \in PairKeys /\ w[k] = pair[k]
          <5>1. /\ pair["wifi_ssid"] = net /\ pair["wifi_pass"] = net /\ pair["provisioned"] = TRUE
                /\ Items(g.writes) = {Value("wifi_ssid", net), Value("wifi_pass", net), Value("provisioned", TRUE)}
            BY <1>6, <3>1, PairWrites
          <5>2. \A x \in {net, TRUE}, y \in PairKeys : DOMAIN Value(y, x) = {y} /\ Value(y, x)[y] = x
            BY ValueAt
          <5>3. ASSUME NEW w, w = Value("wifi_ssid", net), k \in DOMAIN w PROVE k \in PairKeys /\ w[k] = pair[k]
            BY <5>1, <5>2, <5>3 DEF PairKeys
          <5>4. ASSUME NEW w, w = Value("wifi_pass", net), k \in DOMAIN w PROVE k \in PairKeys /\ w[k] = pair[k]
            BY <5>1, <5>2, <5>4 DEF PairKeys
          <5>5. ASSUME NEW w, w = Value("provisioned", TRUE), k \in DOMAIN w PROVE k \in PairKeys /\ w[k] = pair[k]
            BY <5>1, <5>2, <5>5 DEF PairKeys
          <5> QED BY <5>1, <5>3, <5>4, <5>5
        <4> QED BY <4>1, <4>2 DEF Agree
      <3>2. CASE \E x \in SettingKeys : g = SaveSettings(x, f[x])
        <4>1. PICK x \in SettingKeys : g = SaveSettings(x, f[x])
          BY <3>2
        <4>2. x \in DOMAIN gives => gives[x] = f[x]
          BY <1>5, <1>6, <1>14, KeyNames
        <4>3. x \notin DOMAIN gives => Seen[x] = f[x]
          BY <1>14 DEF f
        <4>4. Items(g.writes) = {Value(x, f[x])}
          BY <1>15, <4>1
        <4> QED BY <4>2, <4>3, <4>4 DEF Agree, Value
      <3>3. CASE pass # Nothing /\ g = SaveAdminPass(pass)
        BY <1>14, <1>16, <3>3 DEF Agree
      <3> QED BY <1>12, <3>1, <3>2, <3>3
    <2>7. ASSUME NEW k \in DOMAIN gives
          PROVE  \E g \in Items(groups) : /\ g.name = GroupOf("config", k)
                                          /\ \E w \in Items(g.writes) : k \in DOMAIN w
      <3>1. CASE k \in DOMAIN pair
        <4>1. net # None /\ k \in PairKeys
          BY <1>6, <3>1
        <4>2. \E w \in Items(SaveWifi(net).writes) : k \in DOMAIN w
          <5>1. Items(SaveWifi(net).writes) = {Value("wifi_ssid", net), Value("wifi_pass", net), Value("provisioned", TRUE)}
            BY <1>6, <4>1, PairWrites
          <5>2. /\ k = "wifi_ssid" => k \in DOMAIN Value("wifi_ssid", net)
                /\ k = "wifi_pass" => k \in DOMAIN Value("wifi_pass", net)
                /\ k = "provisioned" => k \in DOMAIN Value("provisioned", TRUE)
            BY ValueAt
          <5> QED BY <4>1, <5>1, <5>2 DEF PairKeys
        <4> QED BY <1>6, <1>13, <4>1, <4>2, PairWrites DEF GroupOf
      <3>2. CASE k \in DOMAIN pass
        <4>1. pass # Nothing /\ k = "admin_pass" /\ k \notin PairKeys
          BY <2>2, <3>2, <1>5, NothingGiven
        <4> QED BY <1>13, <1>16, <3>2, <4>1 DEF GroupOf
      <3>3. CASE k \in DOMAIN sent
        <4>1. k \in SettingKeys /\ k \notin PairKeys
          BY <1>1, <2>2, <3>3
        <4>2. k \in DOMAIN Value(k, f[k])
          BY DEF Value
        <4> QED BY <1>13, <1>15, <4>1, <4>2 DEF GroupOf
      <3> QED BY <1>14, <3>1, <3>2, <3>3
    <2>8. \A k \in Keys \ DOMAIN gives : \A g \in Items(groups) : Agree(g, k, Seen[k])
      BY <2>6
    <2>9. \A k \in DOMAIN gives : \A g \in Items(groups) : Agree(g, k, gives[k])
      BY <2>1, <2>6 DEF Partial
    <2> QED BY <2>1, <2>2, <2>3, <2>4, <2>5, <2>7, <2>8, <2>9 DEF GoodRequest
  <1> QED BY <1>7, <1>11, <1>17, RequestKeeps

-----------------------------------------------------------------------------
(* The calls of NVS.                                                       *)

LEMMA CallFrame ==
  ASSUME Types, Write \/ Commit \/ CallFails
  PROVE  /\ defect' = defect /\ job' = job /\ sta' = sta /\ token' = token /\ restart' = restart
         /\ promised' = promised /\ requests' = requests /\ crashes' = crashes
         /\ trouble => trouble'
         /\ failed' # failed => trouble'
         /\ ~trouble' => Write \/ Commit
         /\ Write \/ Commit => failed' = failed /\ trouble' = trouble /\ fails' = fails
         /\ job # Off /\ job # Idle
  <1>1. todo # <<>>
    BY DEF Write, Commit, CallFails, Busy
  <1>2. job # Off /\ job # Idle
    BY <1>1 DEF Types
  <1> QED BY <1>2 DEF Write, Commit, CallFails

LEMMA PromisesOnTheWay ==
  ASSUME ConfigInv, Write \/ Commit \/ CallFails
  PROVE  KeptInv' /\ DueInv' /\ TokenInv'
  <1> USE DEF ConfigInv
  <1>1. KeptInv'
    <2>1. WellPromised(promised)'
      BY CallFrame DEF KeptInv, WellPromised
    <2>2. \A k \in DOMAIN promised' : Safe(k, promised[k])'
      <3> TAKE k \in DOMAIN promised'
      <3>1. PICK v : v = promised[k]
        OBVIOUS
      <3>2. k \in Keys /\ promised'[k] = v /\ Safe(k, v)
        BY <3>1, CallFrame DEF Types, Partial, KeptInv
      <3>3. Safe(k, v)'
        BY <3>2, SafeKept
      <3> QED BY <3>2, <3>3 DEF Safe, Agrees, Agree
    <2> QED BY <2>1, <2>2 DEF KeptInv
  <1>2. DueInv'
    <2>1. WellPromised(job.gives)'
      BY CallFrame DEF DueInv, WellPromised
    <2>2. job'.kind = "boot" => /\ DOMAIN job'.gives \subseteq Secrets
                                /\ failed' \subseteq {"secrets", "sanity"}
                                /\ \A i \in DOMAIN todo' : todo'[i].name \in {"secrets", "sanity"}
      <3>1. SUFFICES ASSUME job.kind = "boot"
                     PROVE  /\ DOMAIN job.gives \subseteq Secrets
                            /\ failed' \subseteq {"secrets", "sanity"}
                            /\ \A i \in DOMAIN todo' : todo'[i].name \in {"secrets", "sanity"}
        BY CallFrame
      <3>2. /\ DOMAIN job.gives \subseteq Secrets
            /\ failed \subseteq {"secrets", "sanity"}
            /\ \A i \in DOMAIN todo : todo[i].name \in {"secrets", "sanity"}
        BY <3>1 DEF DueInv
      <3>3. CASE Write
        <4>1. /\ DOMAIN todo' = DOMAIN todo /\ todo'[1].name = todo[1].name
              /\ \A i \in DOMAIN todo : i # 1 => todo'[i] = todo[i]
          BY <3>3, WriteFacts DEF Group
        <4> QED BY <3>2, <3>3, <4>1, CallFrame
      <3>4. CASE Commit
        BY <3>2, <3>4, CommitFacts, CallFrame
      <3>5. CASE CallFails
        <4>1. failed' \subseteq {"secrets", "sanity"} /\ todo[1].name # "wifi"
          BY <3>2, <3>5, FailFacts
        <4>2. Group("sanity", <<>>).name = "sanity"
          BY DEF Group
        <4>3. \A i \in DOMAIN todo' : todo'[i].name \in {"secrets", "sanity"}
          BY <3>2, <3>5, <4>1, <4>2, FailFacts
        <4> QED BY <3>2, <4>1, <4>3
      <3> QED BY <3>3, <3>4, <3>5
    <2>3. ASSUME NEW k \in DOMAIN job'.gives
          PROVE  {"wifi", Owner(k)'} \cap failed' # {} \/ WillBe(k, job.gives[k], Owner(k))'
      <3>1. PICK v, o : v = job.gives[k] /\ o = Owner(k)
        OBVIOUS
      <3>2. k \in Keys /\ k \in DOMAIN job.gives /\ job'.gives[k] = v /\ Owner(k)' = o
        BY <3>1, CallFrame DEF Types, Partial, Owner
      <3>3. {"wifi", o} \cap failed # {} \/ WillBe(k, v, o)
        BY <3>1, <3>2 DEF DueInv
      <3>4. failed \subseteq failed'
        BY CallFrame, FailFacts
      <3>5. {"wifi", o} \cap failed' # {} \/ WillBe(k, v, o)'
        BY <3>2, <3>3, <3>4, WillBeKept, WillBeFails
      <3> QED BY <3>2, <3>5 DEF WillBe, Safe, Written, Coming, Agrees, Agree
    <2> QED BY <2>1, <2>2, <2>3 DEF DueInv
  <1>3. TokenInv'
    <2>1. failed' # {} => trouble'
      BY CallFrame DEF TokenInv
    <2>2. ASSUME ~trouble', ~restart', sta' # None, job'.kind \notin {"off", "factory"}
          PROVE  WillBe("tcp_token", Target, IF Renewed THEN "tcp_token" ELSE "secrets")'
      <3>1. PICK v, o : v = Target /\ o = IF Renewed THEN "tcp_token" ELSE "secrets"
        OBVIOUS
      <3>2. Target' = v /\ (IF Renewed THEN "tcp_token" ELSE "secrets")' = o
        BY <3>1, CallFrame DEF Target, Renewed
      <3>3. WillBe("tcp_token", v, o) /\ (Write \/ Commit) /\ "tcp_token" \in Keys
        BY <2>2, <3>1, CallFrame, KeyNames DEF TokenInv
      <3>4. WillBe("tcp_token", v, o)'
        BY <3>3, WillBeKept
      <3> QED BY <3>2, <3>4 DEF WillBe, Safe, Written, Coming, Agrees, Agree
    <2> QED BY <2>1, <2>2 DEF TokenInv
  <1> QED BY <1>1, <1>2, <1>3

LEMMA CallTypes ==
  ASSUME Types, Write \/ Commit \/ CallFails
  PROVE  Types'
  <1>1. /\ DOMAIN flash' = Keys /\ Partial(flash)' /\ pend' \in Seq(WriteSet) /\ todo' \in Seq(GroupSet)
        /\ failed' \subseteq Names /\ trouble' \in BOOLEAN /\ cut' \in BOOLEAN /\ fails' \in 0 .. MaxFails
    <2>1. CASE Write
      <3>1. pend' \in Seq(WriteSet) /\ todo' \in Seq(GroupSet)
        BY <2>1, WriteFacts
      <3>2. flash' = flash /\ failed' = failed /\ trouble' = trouble /\ cut' = cut /\ fails' = fails
        BY <2>1 DEF Write
      <3> QED BY <3>1, <3>2 DEF Types, Partial
    <2>2. CASE Commit
      <3>1. pend' \in Seq(WriteSet) /\ todo' \in Seq(GroupSet) /\ flash' = Seen
        BY <2>2, CommitFacts
      <3>2. failed' = failed /\ trouble' = trouble /\ cut' \in BOOLEAN /\ fails' = fails
        BY <2>2 DEF Commit
      <3>3. DOMAIN flash' = Keys /\ Partial(flash)'
        BY <3>1, SeenTyped DEF Partial
      <3> QED BY <3>1, <3>2, <3>3 DEF Types
    <2>3. CASE CallFails
      <3>1. /\ pend' = pend /\ todo' \in Seq(GroupSet) /\ flash' = flash
            /\ todo[1].name \in Names /\ failed' = failed \cup {todo[1].name}
        <4>1. todo \in Seq(GroupSet) /\ 1 \in DOMAIN todo
          BY <2>3, FailFacts
        <4>2. todo[1] \in GroupSet
          BY <4>1
        <4>3. todo[1].name \in Names
          BY <4>2 DEF GroupSet
        <4> QED BY <2>3, <4>3, FailFacts
      <3>2. trouble' = TRUE /\ cut' \in BOOLEAN /\ fails' = fails + 1 /\ fails < MaxFails
        BY <2>3 DEF CallFails
      <3>3. fails' \in 0 .. MaxFails
        BY <3>2, BoundsAssumption DEF Types
      <3> QED BY <3>1, <3>2, <3>3 DEF Types, Partial
    <2> QED BY <2>1, <2>2, <2>3
  <1>2. Partial(promised)' /\ Partial(job.gives)'
    BY CallFrame DEF Types, Partial
  <1> QED BY <1>1, <1>2, CallFrame DEF Types

(* Pending writes that are plain leave whole pairs whole.                  *)
LEMMA PlainWhole ==
  ASSUME Types, Whole(flash), \A w \in Items(pend) : Plain(w), NEW n \in 0 .. Len(pend)
  PROVE  Whole(Applied(n))
  <1>1. ASSUME NEW k \in {"wifi_ssid", "wifi_pass"}
        PROVE  Applied(n)[k] = flash[k] \/ Applied(n)[k] = None
    <2>1. k \in Keys
      BY KeyNames DEF PairKeys
    <2>2. \A w \in Items(pend) : k \in DOMAIN w => w[k] = None
      BY ErasedWrite DEF Plain
    <2> QED BY <2>1, <2>2, AppliedCases DEF Types
  <1> QED BY <1>1 DEF Whole

LEMMA SavingMoves ==
  ASSUME NEW writes, NEW s, NEW w, Saving(writes), writes # <<>>, w = Head(writes), s = Tail(writes),
         \A k \in Keys : Seen'[k] = IF k \in DOMAIN w THEN w[k] ELSE Seen[k]
  PROVE  Saving(s)'
  <1>1. PICK net \in Nets :
          \/ writes = <<Value("wifi_ssid", net), Value("wifi_pass", net), Value("provisioned", TRUE)>>
          \/ Seen["wifi_ssid"] = net /\ writes = <<Value("wifi_pass", net), Value("provisioned", TRUE)>>
          \/ /\ Seen["wifi_ssid"] = net /\ Seen["wifi_pass"] = net
             /\ writes = <<Value("provisioned", TRUE)>> \/ writes = <<>>
    BY DEF Saving
  <1> DEFINE a == Value("wifi_ssid", net)
             b == Value("wifi_pass", net)
             c == Value("provisioned", TRUE)
  <1>2. /\ DOMAIN a = {"wifi_ssid"} /\ a["wifi_ssid"] = net
        /\ DOMAIN b = {"wifi_pass"} /\ b["wifi_pass"] = net
        /\ DOMAIN c = {"provisioned"}
    BY ValueAt
  <1>3. "wifi_ssid" \in Keys /\ "wifi_pass" \in Keys
    BY KeyNames DEF PairKeys
  <1> HIDE DEF a, b, c
  <1>4. CASE writes = <<a, b, c>>
    <2>1. w = a /\ s = <<b, c>>
      BY <1>4
    <2>2. Seen'["wifi_ssid"] = net
      BY <1>2, <1>3, <2>1
    <2> QED BY <2>1, <2>2 DEF Saving, b, c
  <1>5. CASE Seen["wifi_ssid"] = net /\ writes = <<b, c>>
    <2>1. w = b /\ s = <<c>>
      BY <1>5
    <2>2. Seen'["wifi_ssid"] = net /\ Seen'["wifi_pass"] = net
      BY <1>2, <1>3, <1>5, <2>1
    <2> QED BY <2>1, <2>2 DEF Saving, c
  <1>6. CASE Seen["wifi_ssid"] = net /\ Seen["wifi_pass"] = net /\ writes = <<c>>
    <2>1. w = c /\ s = <<>>
      BY <1>6
    <2>2. Seen'["wifi_ssid"] = net /\ Seen'["wifi_pass"] = net
      BY <1>2, <1>3, <1>6, <2>1
    <2> QED BY <2>1, <2>2 DEF Saving
  <1> QED BY <1>1, <1>4, <1>5, <1>6 DEF a, b, c

LEMMA HeadSaves ==
  ASSUME PairInv, 1 \in DOMAIN todo, todo[1].name = "wifi"
  PROVE  Saving(todo[1].writes)
  <1>1. CASE Saving(todo[1].writes)
    BY <1>1
  <1>2. CASE \E net \in Nets : todo[1] = SaveWifi(net)
    <2>1. PICK net \in Nets : todo[1] = SaveWifi(net)
      BY <1>2
    <2>2. PICK writes : writes = <<Value("wifi_ssid", net), Value("wifi_pass", net), Value("provisioned", TRUE)>>
      OBVIOUS
    <2>3. todo[1] = [name |-> "wifi", writes |-> writes]
      BY <2>1, <2>2 DEF SaveWifi, Group
    <2>4. todo[1].writes = writes
      BY <2>3
    <2> QED BY <2>2, <2>4 DEF Saving
  <1> QED BY <1>1, <1>2 DEF PairInv

LEMMA PairOnTheWay ==
  ASSUME ConfigInv, Write \/ Commit \/ CallFails
  PROVE  PairInv'
  <1> USE DEF ConfigInv
  <1>0. sta' # None => sta'[1] # None /\ sta'[2] # None
    BY CallFrame DEF PairInv
  <1>1. CASE Write
    <2>1. PICK w \in WriteSet :
             /\ Items(pend') = Items(pend) \cup {w}
             /\ \A k \in Keys : Seen'[k] = IF k \in DOMAIN w THEN w[k] ELSE Seen[k]
             /\ 1 \in DOMAIN todo /\ DOMAIN todo' = DOMAIN todo
             /\ todo'[1] = Group(todo[1].name, Tail(todo[1].writes))
             /\ \A i \in DOMAIN todo : i # 1 => todo'[i] = todo[i]
             /\ Items(todo[1].writes) = {w} \cup Items(todo'[1].writes)
             /\ todo[1].writes # <<>> /\ w = Head(todo[1].writes)
             /\ Head(todo) = todo[1] /\ Head(todo') = todo'[1] /\ todo # <<>> /\ todo' # <<>>
      BY <1>1, WriteFacts
    <2>2. todo'[1].name = todo[1].name /\ todo'[1].writes = Tail(todo[1].writes)
      BY <2>1 DEF Group
    <2>3. flash' = flash /\ cut' = cut
      BY <1>1 DEF Write
    <2>4. ASSUME NEW j \in DOMAIN todo', j # 1
          PROVE  IF todo'[j].name # "wifi" THEN \A x \in Items(todo'[j].writes) : Plain(x)
                 ELSE \E net \in Nets : todo'[j] = SaveWifi(net)
      BY <2>1, <2>4 DEF PairInv
    <2>5. CASE todo[1].name = "wifi"
      <3>1. PICK s : s = Tail(todo[1].writes)
        OBVIOUS
      <3>2. Saving(s)'
        BY <2>1, <2>5, <3>1, HeadSaves, SavingMoves
      <3>3. Saving(todo[1].writes)'
        BY <2>2, <3>1, <3>2 DEF Saving
      <3>4. ~cut' => Whole(flash)'
        BY <2>3 DEF PairInv, Whole
      <3> QED BY <1>0, <2>1, <2>2, <2>4, <2>5, <3>3, <3>4 DEF PairInv, SaveWifi, Plain
    <2>6. CASE todo[1].name # "wifi"
      <3>1. \A x \in Items(todo[1].writes) : Plain(x)
        BY <2>1, <2>6 DEF PairInv
      <3>2. Plain(w) /\ \A x \in Items(todo'[1].writes) : Plain(x)
        BY <2>1, <3>1
      <3>3. ~cut' => Whole(flash)' /\ \A x \in Items(pend') : Plain(x)
        BY <2>1, <2>3, <2>6, <3>2 DEF PairInv, Whole
      <3> QED BY <1>0, <2>1, <2>2, <2>4, <2>6, <3>2, <3>3 DEF PairInv, SaveWifi, Plain
    <2> QED BY <2>5, <2>6
  <1>2. CASE Commit
    <2>1. /\ flash' = Seen /\ Items(pend') = {} /\ Len(todo) \in Nat \ {0} /\ todo # <<>> /\ 1 \in DOMAIN todo
          /\ Head(todo) = todo[1] /\ todo[1].writes = <<>> /\ DOMAIN todo' = 1 .. Len(todo) - 1
          /\ \A i \in 1 .. Len(todo) - 1 : i + 1 \in DOMAIN todo /\ todo'[i] = todo[i + 1]
      BY <1>2, CommitFacts
    <2>2. cut' = (cut /\ todo[1].name # "wifi")
      BY <1>2, <2>1 DEF Commit, This
    <2>3. ASSUME NEW j \in DOMAIN todo'
          PROVE  IF todo'[j].name # "wifi" THEN \A x \in Items(todo'[j].writes) : Plain(x)
                 ELSE \E net \in Nets : todo'[j] = SaveWifi(net)
      <3>1. j + 1 \in DOMAIN todo /\ todo'[j] = todo[j + 1] /\ j + 1 # 1
        BY <2>1, <2>3
      <3> QED BY <3>1 DEF PairInv
    <2>4. ~cut' => Whole(Seen)
      <3>1. CASE todo[1].name = "wifi"
        <4>1. Saving(<<>>)
          BY <2>1, <3>1, HeadSaves
        <4>2. Seen["wifi_ssid"] = Seen["wifi_pass"]
          BY <4>1 DEF Saving
        <4> QED BY <4>2 DEF Whole
      <3>2. CASE todo[1].name # "wifi" /\ ~cut
        <4>1. Whole(flash) /\ \A w \in Items(pend) : Plain(w)
          BY <2>1, <3>2 DEF PairInv
        <4>2. Len(pend) \in 0 .. Len(pend)
          BY LenProperties DEF Types
        <4> QED BY <4>1, <4>2, PlainWhole DEF Seen
      <3> QED BY <2>2, <3>1, <3>2
    <2>5. ~cut' => Whole(flash)'
      BY <2>1, <2>4 DEF Whole
    <2> QED BY <1>0, <2>1, <2>3, <2>5 DEF PairInv, SaveWifi, Plain
  <1>3. CASE CallFails
    <2>1. /\ flash' = flash /\ pend' = pend /\ Len(todo) \in Nat \ {0} /\ todo # <<>> /\ 1 \in DOMAIN todo
          /\ Head(todo) = todo[1]
      BY <1>3, FailFacts
    <2>2. cut' = (cut \/ todo[1].name = "wifi")
      BY <1>3, <2>1 DEF CallFails, This
    <2>3. \/ todo[1].name = "wifi" /\ todo' = <<>> /\ DOMAIN todo' = {}
          \/ /\ todo[1].name = "sanity" /\ DOMAIN todo' = DOMAIN todo
             /\ todo'[1] = Group("sanity", <<>>) /\ \A i \in DOMAIN todo : i # 1 => todo'[i] = todo[i]
          \/ /\ todo[1].name # "wifi" /\ DOMAIN todo' = 1 .. Len(todo) - 1
             /\ \A i \in 1 .. Len(todo) - 1 : i + 1 \in DOMAIN todo /\ todo'[i] = todo[i + 1]
      BY <1>3, FailFacts
    <2>4. ASSUME NEW j \in DOMAIN todo'
          PROVE  IF todo'[j].name # "wifi" THEN \A x \in Items(todo'[j].writes) : Plain(x)
                 ELSE \E net \in Nets : todo'[j] = SaveWifi(net)
      <3>1. CASE todo'[j] = Group("sanity", <<>>)
        BY <3>1, FewItems DEF Group
      <3>2. CASE j \in DOMAIN todo /\ j # 1 /\ todo'[j] = todo[j]
        BY <3>2 DEF PairInv
      <3>3. CASE DOMAIN todo' = 1 .. Len(todo) - 1 /\ j + 1 \in DOMAIN todo /\ todo'[j] = todo[j + 1]
        <4>1. j + 1 # 1
          BY <2>1, <3>3
        <4> QED BY <3>3, <4>1 DEF PairInv
      <3> QED BY <2>3, <3>1, <3>2, <3>3
    <2>5. ~cut' => Whole(flash)' /\ \A w \in Items(pend') : Plain(w)
      BY <2>1, <2>2 DEF PairInv, Whole
    <2> QED BY <1>0, <2>4, <2>5 DEF PairInv, SaveWifi, Plain
  <1> QED BY <1>1, <1>2, <1>3

-----------------------------------------------------------------------------
(* The answer, the end of a run and the theorems.                          *)

LEMMA AnswerKeeps ==
  ASSUME ConfigInv, Answer
  PROVE  ConfigInv'
  <1> USE DEF ConfigInv
  <1>1. /\ job # Off /\ job # Idle /\ todo = <<>> /\ token \in Nat
        /\ promised' = IF Done THEN Overlay(promised, Without(job.gives, failed)) ELSE promised
        /\ token' = IF job.kind = "regen" /\ Done /\ "tcp_token" \in DOMAIN job.gives
                    THEN job.gives["tcp_token"] ELSE token
        /\ restart' = (restart \/ (job.kind = "factory" /\ Done))
        /\ job' = Idle /\ failed' = {}
        /\ defect' = defect /\ flash' = flash /\ pend' = pend /\ todo' = todo /\ sta' = sta
        /\ trouble' = trouble /\ cut' = cut /\ requests' = requests /\ fails' = fails /\ crashes' = crashes
    BY DEF Answer, Busy, Types
  <1>2. job'.kind = "idle" /\ job'.gives = Nothing /\ job' # Off
    BY <1>1 DEF Idle, Off
  <1> DEFINE news == Without(job.gives, failed)
  <1>3. DOMAIN news = DOMAIN job.gives \ failed /\ \A k \in DOMAIN news : news[k] = job.gives[k]
    BY DEF Without
  <1> HIDE DEF news
  <1>4. Done => /\ DOMAIN promised' = DOMAIN promised \cup DOMAIN news
                /\ \A k \in DOMAIN promised' :
                     promised'[k] = IF k \in DOMAIN news THEN news[k] ELSE promised[k]
    BY <1>1 DEF Overlay, news
  (* What is promised is not of a group that failed. *)
  <1>5. ASSUME Done, NEW k \in DOMAIN news PROVE {"wifi", Owner(k)} \cap failed = {}
    <2>1. k \in Keys /\ k \notin failed /\ k \in DOMAIN job.gives
      BY <1>3 DEF Types, Partial
    <2>2. CASE job.kind = "boot"
      BY <1>5, <2>1, <2>2 DEF Done, Owner, DueInv
    <2>3. CASE job.kind = "config"
      BY <1>5, <2>1, <2>3 DEF Done, Owner
    <2>4. CASE job.kind \notin {"boot", "config"}
      <3>1. failed \subseteq {"secrets", "sanity"}
        BY <1>5, <2>4 DEF Done
      <3>2. Owner(k) \notin {"secrets", "sanity"}
        BY <2>1, <2>4, KeyNames DEF Owner
      <3> QED BY <3>1, <3>2
    <2> QED BY <2>2, <2>3, <2>4
  <1>6. ASSUME Done, NEW k \in DOMAIN news, NEW v, v = news[k] PROVE Safe(k, v)
    <2>1. k \in DOMAIN job.gives /\ job.gives[k] = v
      BY <1>3, <1>6
    <2>2. WillBe(k, v, Owner(k))
      BY <1>5, <1>6, <2>1 DEF DueInv
    <2> QED BY <1>1, <2>2, WillBeDone
  <1>7. Types'
    <2>1. Partial(flash)' /\ Partial(job.gives)'
      BY <1>1, <1>2, NothingGiven DEF Types, Partial
    <2>2. Partial(promised)'
      BY <1>1, <1>3, <1>4 DEF Types, Partial
    <2>3. token' \in Nat
      <3>1. "tcp_token" \in DOMAIN job.gives => job.gives["tcp_token"] \in Nat
        <4>1. SUFFICES ASSUME "tcp_token" \in DOMAIN job.gives PROVE job.gives["tcp_token"] \in Nat
          OBVIOUS
        <4>2. job.gives["tcp_token"] \in Nat \cup {None}
          BY <4>1, KeyNames, AllowedCases DEF Types, Partial
        <4>3. job.gives["tcp_token"] # None
          BY <4>1, KeyNames DEF DueInv, WellPromised
        <4> QED BY <4>2, <4>3
      <3> QED BY <1>1, <3>1
    <2>4. restart' \in BOOLEAN
      BY <1>1
    <2>5. job'.kind \in Kinds /\ job' \in {Off, Idle} /\ todo' = <<>> /\ failed' = {} /\ failed' \subseteq Names
      BY <1>1, <1>2 DEF Kinds
    <2>6. /\ pend' \in Seq(WriteSet) /\ todo' \in Seq(GroupSet) /\ DOMAIN flash' = Keys
          /\ sta' \in {None} \cup ((Nets \cup {None}) \X (Nets \cup {None}))
          /\ defect' \in Defects /\ trouble' \in BOOLEAN /\ cut' \in BOOLEAN
          /\ requests' \in 0 .. MaxRequests /\ fails' \in 0 .. MaxFails /\ crashes' \in 0 .. MaxCrashes
      BY <1>1 DEF Types
    <2> QED BY <1>1, <1>2, <2>1, <2>2, <2>3, <2>4, <2>5, <2>6 DEF Types
  <1>8. KeptInv'
    <2>1. \A k, v : Safe(k, v) => Safe(k, v)'
      BY <1>1 DEF Safe, Agrees, Agree
    <2>2. CASE ~Done
      <3>1. promised' = promised
        BY <1>1, <2>2
      <3> QED BY <1>1, <3>1 DEF KeptInv, WellPromised, Safe, Agrees, Agree
    <2>3. CASE Done
      <3>1. WellPromised(promised)'
        <4>1. PairKeys \cap failed = {} \/ PairKeys \cap DOMAIN news = {}
          <5>1. failed \subseteq Names /\ PairKeys \cap Names = {}
            BY KeyNames DEF Types, Names, PairKeys
          <5> QED BY <5>1
        <4>2. PairKeys \cap DOMAIN news = {} \/ PairKeys \subseteq DOMAIN news
          BY <1>3, <4>1 DEF DueInv, WellPromised
        <4>3. PairKeys \cap DOMAIN promised' = {} \/ PairKeys \subseteq DOMAIN promised'
          BY <1>4, <2>3, <4>2 DEF KeptInv, WellPromised
        <4>4. "provisioned" \in DOMAIN promised' /\ promised'["provisioned"]
                => promised'["wifi_ssid"] # None /\ promised'["wifi_pass"] # None
          <5>1. CASE PairKeys \subseteq DOMAIN news
            <6>1. \A k \in PairKeys : promised'[k] = job.gives[k] /\ k \in DOMAIN job.gives
              BY <1>3, <1>4, <2>3, <5>1
            <6> QED BY <6>1 DEF DueInv, WellPromised, PairKeys
          <5>2. CASE PairKeys \cap DOMAIN news = {}
            <6>1. \A k \in PairKeys : (k \in DOMAIN promised' <=> k \in DOMAIN promised)
                                      /\ (k \in DOMAIN promised => promised'[k] = promised[k])
              BY <1>4, <2>3, <5>2
            <6> QED BY <6>1 DEF KeptInv, WellPromised, PairKeys
          <5> QED BY <4>2, <5>1, <5>2
        <4>5. \A k \in DOMAIN promised' \cap Secrets : promised'[k] # None
          BY <1>3, <1>4, <2>3 DEF KeptInv, DueInv, WellPromised
        <4> QED BY <4>3, <4>4, <4>5 DEF WellPromised
      <3>2. \A k \in DOMAIN promised' : Safe(k, promised[k])'
        <4> TAKE k \in DOMAIN promised'
        <4>1. PICK v : v = promised'[k]
          OBVIOUS
        <4>2. CASE k \in DOMAIN news
          <5>1. Safe(k, v)
            BY <1>4, <1>6, <2>3, <4>1, <4>2
          <5> QED BY <2>1, <4>1, <5>1 DEF Safe, Agrees, Agree
        <4>3. CASE k \notin DOMAIN news
          <5>1. Safe(k, v)
            BY <1>4, <2>3, <4>1, <4>3 DEF KeptInv
          <5> QED BY <2>1, <4>1, <5>1 DEF Safe, Agrees, Agree
        <4> QED BY <4>2, <4>3
      <3> QED BY <3>1, <3>2 DEF KeptInv
    <2> QED BY <2>2, <2>3
  <1>9. DueInv'
    BY <1>2, NothingGiven DEF DueInv, WellPromised, PairKeys
  <1>10. TokenInv'
    <2>1. SUFFICES ASSUME ~trouble, ~restart', sta # None
                   PROVE  WillBe("tcp_token", Target, IF Renewed THEN "tcp_token" ELSE "secrets")'
      BY <1>1, <1>2 DEF TokenInv
    <2>2. failed = {}
      BY <2>1 DEF TokenInv
    <2>3. Done
      BY <2>2 DEF Done
    <2>4. ~restart /\ job.kind # "factory" /\ job.kind # "off"
      BY <1>1, <2>1, <2>3 DEF Types
    <2>5. PICK v : v = Target
      OBVIOUS
    <2>6. Safe("tcp_token", v)
      BY <1>1, <2>1, <2>4, <2>5, WillBeDone DEF TokenInv
    <2>7. ~Renewed' /\ Target' = v
      BY <1>1, <1>2, <2>3, <2>5 DEF Renewed, Target
    <2>8. Safe("tcp_token", v)'
      BY <1>1, <2>6 DEF Safe, Agrees, Agree
    <2> QED BY <2>7, <2>8 DEF WillBe, Safe, Agrees, Agree
  <1>11. PairInv'
    BY <1>1 DEF PairInv, Whole, Plain
  <1> QED BY <1>7, <1>8, <1>9, <1>10, <1>11

LEMMA StopKeeps ==
  ASSUME ConfigInv, Stop, crashes' \in 0 .. MaxCrashes
  PROVE  ConfigInv'
  <1> USE DEF ConfigInv
  <1>1. /\ pend' = <<>> /\ job' = Off /\ todo' = <<>> /\ failed' = {}
        /\ sta' = None /\ token' = None /\ restart' = FALSE /\ trouble' = FALSE
        /\ cut' = (cut \/ (Busy /\ This.name = "wifi"))
        /\ defect' = defect /\ promised' = promised /\ requests' = requests /\ fails' = fails
    BY DEF Stop
  <1>2. job'.kind = "off" /\ job'.gives = Nothing /\ job' # Idle
    BY <1>1 DEF Off, Idle
  <1>3. PICK n \in 0 .. Len(pend) :
          \/ flash' = Applied(n)
          \/ \E S \in Parts : flash' = [x \in Keys |-> IF x \in S THEN Erased[x] ELSE Applied(n)[x]]
    BY DEF Stop, ErasedIn
  <1>4. DOMAIN Applied(n) = Keys /\ \A k \in Keys : Applied(n)[k] \in Allowed(k)
    <2>1. DOMAIN Applied(n) = Keys
      BY DEF Applied
    <2>2. ASSUME NEW k \in Keys PROVE Applied(n)[k] \in Allowed(k)
      <3>1. CASE Applied(n)[k] = flash[k]
        BY <3>1 DEF Types, Partial
      <3>2. CASE \E w \in Items(pend) : k \in DOMAIN w /\ Applied(n)[k] = w[k]
        <4>1. Items(pend) \subseteq WriteSet
          BY SeqItems DEF Types
        <4> QED BY <3>2, <4>1, WritesAllowed
      <3> QED BY <3>1, <3>2, AppliedCases DEF Types
    <2> QED BY <2>1, <2>2
  <1>5. DOMAIN flash' = Keys /\ \A k \in Keys : flash'[k] = Applied(n)[k] \/ flash'[k] = Erased[k]
    BY <1>3, <1>4
  <1>6. Types'
    <2>1. Partial(flash)'
      BY <1>4, <1>5, ErasedWrite DEF Partial
    <2>2. Partial(promised)' /\ Partial(job.gives)'
      BY <1>1, <1>2, NothingGiven DEF Types, Partial
    <2>3. cut' \in BOOLEAN
      BY <1>1 DEF Types
    <2>4. pend' \in Seq(WriteSet) /\ todo' \in Seq(GroupSet)
      BY <1>1
    <2> QED BY <1>1, <1>2, <1>5, <2>1, <2>2, <2>3, <2>4 DEF Types, Kinds
  <1>7. KeptInv'
    <2>1. WellPromised(promised)'
      BY <1>1 DEF KeptInv, WellPromised
    <2>2. \A k \in DOMAIN promised' : Safe(k, promised[k])'
      <3> TAKE k \in DOMAIN promised'
      <3>1. PICK v : v = promised[k]
        OBVIOUS
      <3>2. k \in Keys /\ promised'[k] = v /\ Safe(k, v)
        BY <1>1, <3>1 DEF Types, Partial, KeptInv
      <3>3. Safe(k, v)'
        BY <3>2, SafeStops
      <3> QED BY <3>2, <3>3 DEF Safe, Agrees, Agree
    <2> QED BY <2>1, <2>2 DEF KeptInv
  <1>8. DueInv'
    BY <1>2, NothingGiven DEF DueInv, WellPromised, PairKeys
  <1>9. TokenInv'
    BY <1>1 DEF TokenInv
  <1>10. PairInv'
    <2>1. ~cut' => Whole(flash)'
      <3>1. SUFFICES ASSUME ~cut, ~(Busy /\ This.name = "wifi") PROVE Whole(flash)'
        BY <1>1
      <3>2. Whole(flash) /\ \A w \in Items(pend) : Plain(w)
        BY <3>1 DEF PairInv, Busy, This
      <3>3. Whole(Applied(n))
        BY <3>2, PlainWhole
      <3>4. \A k \in {"wifi_ssid", "wifi_pass"} : flash'[k] = Applied(n)[k] \/ flash'[k] = None
        BY <1>5, ErasedWrite, KeyNames DEF PairKeys
      <3> QED BY <3>3, <3>4 DEF Whole
    <2> QED BY <1>1, <2>1, FewItems DEF PairInv
  <1> QED BY <1>6, <1>7, <1>8, <1>9, <1>10

LEMMA StartKeeps == Init => ConfigInv
  <1> SUFFICES ASSUME Init PROVE ConfigInv
    OBVIOUS
  <1> USE DEF Init
  <1>1. Types
    <2>1. Partial(flash) /\ DOMAIN flash = Keys
      BY ErasedWrite
    <2>2. Partial(promised) /\ Partial(job.gives) /\ job.kind = "off" /\ job # Idle
      BY NothingGiven DEF Off, Idle
    <2>3. pend \in Seq(WriteSet) /\ todo \in Seq(GroupSet)
      OBVIOUS
    <2>4. job = Off /\ todo = <<>> /\ failed = {} /\ pend = <<>> /\ sta = None /\ token = None
      OBVIOUS
    <2>5. requests \in 0 .. MaxRequests /\ fails \in 0 .. MaxFails /\ crashes \in 0 .. MaxCrashes
      BY BoundsAssumption
    <2>6. restart \in BOOLEAN /\ trouble \in BOOLEAN /\ cut \in BOOLEAN /\ defect \in Defects
      OBVIOUS
    <2> QED BY <2>1, <2>2, <2>3, <2>4, <2>5, <2>6 DEF Types, Kinds
  <1>2. KeptInv
    BY NothingGiven DEF KeptInv
  <1>3. DueInv
    BY NothingGiven DEF DueInv, Off
  <1>4. TokenInv
    BY DEF TokenInv, Off
  <1>5. PairInv
    BY FewItems, ErasedWrite DEF PairInv, Whole
  <1> QED BY <1>1, <1>2, <1>3, <1>4, <1>5 DEF ConfigInv

THEOREM ConfigInvariant == Spec => []ConfigInv
  <1>1. ASSUME ConfigInv, [Next]_vars PROVE ConfigInv'
    <2>1. CASE Boot \/ StartAborts \/ StartErases
      BY <1>1, <2>1, BootKeeps, StartAbortsKeeps, StartErasesKeeps
    <2>2. CASE BootBlind
      BY <1>1, <2>2, BootBlindKeeps
    <2>3. CASE Requests
      <3>1. CASE Browse
        BY <1>1, <3>1, BrowseKeeps
      <3>2. CASE Factory
        BY <1>1, <3>2, FactoryKeeps
      <3>3. CASE Reboot
        BY <1>1, <3>3, RebootKeeps
      <3>4. ASSUME NEW net \in Nets \cup {None}, NEW v \in Options \cup {None}, NEW change \in BOOLEAN,
                   Config(net, [k \in IF v = None THEN {} ELSE SettingKeys |-> v],
                          IF change THEN Value("admin_pass", Fresh("admin_pass")) ELSE Nothing)
            PROVE  ConfigInv'
        <4>1. PICK sent : sent = [k \in IF v = None THEN {} ELSE SettingKeys |-> v]
          OBVIOUS
        <4>2. PICK pass : pass = IF change THEN Value("admin_pass", Fresh("admin_pass")) ELSE Nothing
          OBVIOUS
        <4>3. Config(net, sent, pass)
          BY <3>4, <4>1, <4>2
        <4>4. pass = Nothing \/ pass = Value("admin_pass", Fresh("admin_pass"))
          BY <4>2
        <4> QED BY <1>1, <4>1, <4>3, <4>4, ConfigKeeps
      <3>5. ASSUME NEW k \in Secrets \cap {"tcp_token", "ota_token"}, Regen(k) PROVE ConfigInv'
        BY <1>1, <3>5, RegenKeeps
      <3> QED BY <2>3, <3>1, <3>2, <3>3, <3>4, <3>5 DEF Requests
    <2>4. CASE Write \/ Commit \/ CallFails
      BY <1>1, <2>4, PromisesOnTheWay, CallTypes, PairOnTheWay DEF ConfigInv
    <2>5. CASE Answer
      BY <1>1, <2>5, AnswerKeeps
    <2>6. CASE PowerFails
      <3>1. crashes' \in 0 .. MaxCrashes /\ Stop
        BY <1>1, <2>6, BoundsAssumption DEF PowerFails, ConfigInv, Types
      <3> QED BY <1>1, <3>1, StopKeeps
    <2>7. CASE Restart
      <3>1. crashes' \in 0 .. MaxCrashes /\ Stop
        BY <1>1, <2>7 DEF Restart, ConfigInv, Types
      <3> QED BY <1>1, <3>1, StopKeeps
    <2>8. CASE UNCHANGED vars
      <3>1. /\ UNCHANGED <<defect, flash, pend, job, todo, failed, sta, token, restart, trouble, cut>>
            /\ UNCHANGED <<promised, requests, fails, crashes>>
        BY <2>8 DEF vars
      <3>2. Types'
        BY <1>1, <3>1 DEF ConfigInv, Types, Partial
      <3>3. KeptInv'
        BY <1>1, <3>1 DEF ConfigInv, KeptInv, WellPromised, Safe, Agrees, Agree
      <3>4. Seen' = Seen
        BY <3>1 DEF Seen, Applied, Writes, LastWrite
      <3>5. DueInv'
        BY <1>1, <3>1, <3>4 DEF ConfigInv, DueInv, WellPromised, WillBe, Safe, Written, Coming, Agrees, Agree, Owner
      <3>6. TokenInv'
        BY <1>1, <3>1, <3>4 DEF ConfigInv, TokenInv, WillBe, Safe, Written, Coming, Agrees, Agree, Renewed, Target
      <3>7. PairInv'
        BY <1>1, <3>1, <3>4 DEF ConfigInv, PairInv, Whole, Plain, Saving, SaveWifi
      <3> QED BY <3>2, <3>3, <3>5, <3>6, <3>7 DEF ConfigInv
    <2> QED BY <1>1, <2>1, <2>2, <2>3, <2>4, <2>5, <2>6, <2>7, <2>8 DEF Next
  <1> QED BY <1>1, StartKeeps, PTL DEF Spec

(* Types, and a station that is never started with half a pair; name and   *)
(* password belong together unless the last save was cut short.            *)
THEOREM WholePairs == Spec => []Safety
  <1>1. ConfigInv => Safety
    <2> SUFFICES ASSUME ConfigInv PROVE Safety
      OBVIOUS
    <2> USE DEF ConfigInv
    <2>1. \A i \in DOMAIN pend : Partial(pend[i])
      <3>1. \A i \in DOMAIN pend : pend[i] \in WriteSet
        BY DEF Types
      <3> QED BY <3>1 DEF WriteSet
    <2>2. ASSUME NEW i \in DOMAIN todo, NEW j \in DOMAIN todo[i].writes
          PROVE  Partial(todo[i].writes[j])
      <3>1. todo[i] \in GroupSet
        BY DEF Types
      <3>2. todo[i].writes \in Seq(WriteSet)
        BY <3>1 DEF GroupSet
      <3>3. todo[i].writes[j] \in WriteSet
        BY <3>2
      <3> QED BY <3>3 DEF WriteSet
    <2>3. {restart, trouble, cut} \subseteq BOOLEAN
      BY DEF Types
    <2>4. TypeOK
      BY <2>1, <2>2, <2>3 DEF TypeOK, Types, Kinds
    <2>5. NormalHasNetwork
      BY DEF PairInv, NormalHasNetwork
    <2>6. QuietPairs
      BY DEF PairInv, QuietPairs, Whole
    <2> QED BY <2>4, <2>5, <2>6 DEF Safety
  <1> QED BY <1>1, ConfigInvariant, PTL

(* What the owner was told holds on flash through any number of failing    *)
(* calls, power failures, restarts and later requests, until it is changed *)
(* or a start erases NVS (mode_mgr.c:322-325).                             *)
THEOREM PromisesAreKept == Spec => []KeptPromises
  <1>1. ConfigInv => KeptPromises
    BY DEF ConfigInv, KeptInv, Safe, KeptPromises
  <1> QED BY <1>1, ConfigInvariant, PTL

(* The TCP server asks for the token that is stored, unless NVS failed in  *)
(* this run or a restart is to come.                                       *)
THEOREM TokensAgree == Spec => []QuietTokenAgrees
  <1>1. ConfigInv => QuietTokenAgrees
    <2> SUFFICES ASSUME ConfigInv, job = Idle, sta # None, ~trouble, ~restart
                 PROVE  token = flash["tcp_token"]
      BY DEF QuietTokenAgrees
    <2>1. todo = <<>> /\ job.kind = "idle" /\ ~Renewed
      BY DEF ConfigInv, Types, Idle, Renewed
    <2>2. Safe("tcp_token", Target)
      BY <2>1, WillBeDone DEF ConfigInv, TokenInv
    <2> QED BY <2>1, <2>2 DEF Safe, Target
  <1> QED BY <1>1, ConfigInvariant, PTL
=============================================================================
