------------------------------- MODULE SlotPool -------------------------------
(***************************************************************************)
(* What the TCP server promises about its client slots, without sockets,   *)
(* tasks, mutexes and buffers: a slot is opened only when it is free, goes *)
(* through the handshake before it serves, never serves again once it is   *)
(* closing, and comes back as free.  TcpServer implements it.              *)
(***************************************************************************)
EXTENDS Integers

CONSTANTS MaxClients, AuthReq

VARIABLE st   \* state of every slot

Slots  == 0 .. MaxClients - 1
States == {"free", "opening", "pending", "serving", "closing"}

Init == st = [s \in Slots |-> "free"]

Move(s, from, to) == st[s] = from /\ st' = [st EXCEPT ![s] = to]

(* A connection takes the first free slot. *)
Open(s) == /\ Move(s, "free", "opening")
           /\ \A t \in 0 .. s - 1 : st[t] # "free"

(* The slot's resources could not be created. *)
Refuse(s) == Move(s, "opening", "free")

Start(s) == Move(s, "opening", IF AuthReq THEN "pending" ELSE "serving")

Authenticate(s) == AuthReq /\ Move(s, "pending", "serving")

Disconnect(s) == \E from \in {"pending", "serving"} : Move(s, from, "closing")

Release(s) == Move(s, "closing", "free")

Next == \E s \in Slots : \/ Open(s) \/ Refuse(s) \/ Start(s)
                         \/ Authenticate(s) \/ Disconnect(s) \/ Release(s)

Spec == Init /\ [][Next]_st

(* A closing slot becomes free again. *)
ClosedIsReleased == \A s \in Slots : st[s] = "closing" ~> st[s] = "free"

=============================================================================
