------------------------------ MODULE Document ------------------------------
(***************************************************************************)
(* What the store of the portal's document promises (device_store.h):      *)
(* the document is replaced as a whole or not at all, an answer "ok" comes *)
(* only after that, and whatever interrupts a request leaves the document  *)
(* as it was or as it should become - unless what the promise makes an     *)
(* exception for has happened: then it may be gone.                        *)
(***************************************************************************)
CONSTANTS Versions,  \* contents a client can store
          NoDoc      \* there is no document

VARIABLES doc,     \* the document a client would read
          except,  \* the exception has just happened
          req      \* the request being served: idle, asked, done; and its target

Idle == [st |-> "idle", to |-> NoDoc]

Init == doc = NoDoc /\ req = Idle

(* To store a version, or (NoDoc) to clear the store. *)
Ask == /\ req = Idle
       /\ \E v \in Versions \cup {NoDoc} : req' = [st |-> "asked", to |-> v]
       /\ UNCHANGED doc

Apply == /\ req.st = "asked"
         /\ doc' = req.to
         /\ req' = [req EXCEPT !.st = "done"]

Confirm == req.st = "done" /\ req' = Idle /\ UNCHANGED doc
Refuse  == req.st = "asked" /\ req' = Idle /\ UNCHANGED doc
Crash   == req # Idle /\ req' = Idle /\ UNCHANGED doc
Lose    == req.st = "asked" /\ except' /\ doc' = NoDoc /\ req' = Idle

Next == Ask \/ Apply \/ Confirm \/ Refuse \/ Crash \/ Lose

Spec == Init /\ [][Next]_<<doc, req>>

=============================================================================
