----------------------------- MODULE PortalStore -----------------------------
(***************************************************************************)
(* How an open portal page saves the document of the device manager        *)
(* (DocumentStore in src/web/src/eo/model.ts, EoApp in eo/app.ts): edits   *)
(* are bundled by a timer, one upload is under way at a time, a request    *)
(* that comes meanwhile is made up for once, and a page that is hidden or  *)
(* left sends what its timer still held back with a beacon.                *)
(*                                                                         *)
(* Every state of the document is a version; each edit makes a new one.    *)
(* Requests travel on connections of their own and may overtake one        *)
(* another.  The gateway (module DeviceStore) stores a request's body as a *)
(* whole or not at all.                                                    *)
(***************************************************************************)
EXTENDS Integers

CONSTANTS
  MaxEdits  \* bound of the model: versions

ASSUME EditsAssumption == MaxEdits \in Nat

VARIABLES
  page,    \* closed, open, or readonly: loading the document failed
  mem,     \* version the page shows (0: an empty document)
  timer,   \* this.timer is set
  saving, again,  \* this.saving, this.again
  reply,   \* what comes back for the upload under way: none, ok or error
  net,     \* requests on their way to the gateway
  db,      \* version the gateway stores
  edits,   \* versions made so far
  blind,   \* history: versions edited from the empty document of a failed load
  blindly, \* history: mem is such a version, or that empty document
  seen     \* history: which of Troubles happened since the page was loaded

storeVars == <<timer, saving, again, reply>>
vars == <<page, mem, storeVars, net, db, edits, blind, blindly, seen>>

Troubles == {"hide", "leave", "clear", "fail", "old"}
Request(kind, v) == [kind |-> kind, ver |-> v]
Requests == [kind : {"post", "beacon", "clear"}, ver : 0 .. MaxEdits]

Init ==
  /\ page = "closed" /\ mem = 0
  /\ timer = FALSE /\ saving = FALSE /\ again = FALSE /\ reply = "none"
  /\ net = {} /\ db = 0 /\ edits = 0 /\ blind = {} /\ blindly = FALSE
  /\ seen = {}

-----------------------------------------------------------------------------
(* EoApp.init. *)
Load ==
  /\ page = "closed" /\ page' = "open"
  /\ mem' = db /\ blindly' = FALSE
  /\ seen' = IF net = {} THEN {} ELSE {"old"}
  /\ UNCHANGED <<storeVars, net, db, edits, blind>>

LoadFails ==
  /\ page = "closed" /\ page' = "readonly"
  /\ mem' = 0 /\ blindly' = TRUE
  /\ seen' = {"fail"}
  /\ UNCHANGED <<storeVars, net, db, edits, blind>>

NewVersion == edits < MaxEdits /\ edits' = edits + 1 /\ mem' = edits + 1

(* Fault: saves although the document was not loaded. *)
EditSchedules ==
  /\ page # "closed"
  /\ NewVersion
  /\ timer' = TRUE
  /\ blind' = IF blindly THEN blind \cup {mem'} ELSE blind
  /\ UNCHANGED <<page, saving, again, reply, net, db, blindly, seen>>

(* An edit, and EoApp.touch with DocumentStore.schedule. *)
Edit ==
  /\ page # "closed"
  /\ NewVersion
  /\ timer' = (timer \/ page = "open")
  /\ blind' = IF blindly THEN blind \cup {mem'} ELSE blind
  /\ UNCHANGED <<page, saving, again, reply, net, db, blindly, seen>>

(* Fault: uploads side by side. *)
FlushConcurrent(v) ==
  /\ timer' = FALSE
  /\ saving' = TRUE /\ reply' = "none"
  /\ net' = net \cup {Request("post", v)}
  /\ UNCHANGED again

(* DocumentStore.flush with v to be saved; the flags as they are on entry. *)
Flush(v) ==
  /\ timer' = FALSE
  /\ IF saving THEN again' = TRUE /\ UNCHANGED <<saving, reply, net>>
     ELSE /\ saving' = TRUE /\ reply' = "none"
          /\ net' = net \cup {Request("post", v)}
          /\ UNCHANGED again

TimerFires ==
  /\ timer
  /\ Flush(mem)
  /\ UNCHANGED <<page, mem, db, edits, blind, blindly, seen>>

(* onRestore replaces the document from a file and saves it at once, also  *)
(* on a page that could not load. *)
Restore ==
  /\ page # "closed"
  /\ NewVersion
  /\ Flush(mem')
  /\ blindly' = FALSE
  /\ UNCHANGED <<page, db, blind, seen>>

(* Faults: the follow-up is forgotten; it waits for its own upload. *)
FlushEndsForgets ==
  /\ saving /\ reply # "none"
  /\ reply' = "none" /\ saving' = FALSE /\ again' = FALSE
  /\ UNCHANGED <<page, mem, timer, net, db, edits, blind, blindly, seen>>
FlushEndsWaits ==
  /\ saving /\ reply # "none" /\ ~again
  /\ reply' = "none" /\ saving' = FALSE
  /\ UNCHANGED <<page, mem, timer, again, net, db, edits, blind, blindly, seen>>

(* The answer is there, or the fetch was rejected: what flush does finally.*)
FlushEnds ==
  /\ saving /\ reply # "none"
  /\ reply' = "none"
  /\ IF again
     THEN /\ again' = FALSE /\ timer' = FALSE
          /\ net' = net \cup {Request("post", mem)}
          /\ UNCHANGED saving
     ELSE saving' = FALSE /\ UNCHANGED <<timer, again, net>>
  /\ UNCHANGED <<page, mem, db, edits, blind, blindly, seen>>

(* The button that deletes everything.  An upload under way goes on. *)
Clear ==
  /\ seen' = seen \cup {"clear"}
  /\ page # "closed"
  /\ NewVersion
  /\ timer' = FALSE
  /\ net' = net \cup {Request("clear", mem')}
  /\ blindly' = FALSE
  /\ UNCHANGED <<page, saving, again, reply, db, blind>>

(* flushBeacon: only what the timer holds back. *)
Beacon(requests) ==
  net' = IF timer THEN requests \cup {Request("beacon", mem)} ELSE requests

Hide ==
  /\ seen' = seen \cup {"hide"}
  /\ page # "closed"
  /\ Beacon(net) /\ timer' = FALSE
  /\ UNCHANGED <<page, mem, saving, again, reply, db, edits, blind, blindly>>

(* The page goes away; the browser aborts its fetch, which the gateway may *)
(* have been sent already or not.  Nobody waits for its answer.            *)
Leave ==
  /\ seen' = seen \cup {"leave"}
  /\ page # "closed" /\ page' = "closed"
  /\ LET posts == {r \in net : r.kind = "post"} IN
     \E sent \in SUBSET posts :
        Beacon((net \ posts) \cup {Request("beacon", r.ver) : r \in sent})
  /\ timer' = FALSE /\ saving' = FALSE /\ again' = FALSE /\ reply' = "none"
  /\ UNCHANGED <<mem, db, edits, blind, blindly>>

-----------------------------------------------------------------------------
(* The gateway: h_eo_post and h_eo_clear, one request after the other.     *)

Answered(r, a) == IF r.kind = "post" THEN a ELSE reply

Serve(r) ==
  /\ net' = net \ {r}
  /\ \/ db' = r.ver /\ reply' = Answered(r, "ok")
        /\ UNCHANGED seen
     \/ db' \in {db, r.ver} /\ reply' = Answered(r, "error")
        /\ seen' = seen \cup {"fail"}
  /\ UNCHANGED <<page, mem, timer, saving, again, edits, blind, blindly>>

Next == \/ Load \/ LoadFails \/ Edit \/ TimerFires \/ Restore \/ FlushEnds
        \/ Clear \/ Hide \/ Leave
        \/ \E r \in net : Serve(r)

Spec == Init /\ [][Next]_vars

(* Timers fire, requests get somewhere, answers are handled. *)
Fairness == /\ WF_vars(TimerFires) /\ WF_vars(FlushEnds)
            /\ \A r \in Requests : WF_vars(r \in net /\ Serve(r))
FairSpec == Spec /\ Fairness
-----------------------------------------------------------------------------
TypeOK ==
  /\ page \in {"closed", "open", "readonly"} /\ mem \in 0 .. MaxEdits
  /\ timer \in BOOLEAN /\ saving \in BOOLEAN /\ again \in BOOLEAN
  /\ again => saving
  /\ reply \in {"none", "ok", "error"}
  /\ net \subseteq Requests /\ db \in 0 .. MaxEdits /\ edits \in 0 .. MaxEdits
  /\ blind \subseteq 1 .. MaxEdits /\ blindly \in BOOLEAN
  /\ seen \subseteq Troubles

(* What an open page shows is stored, or something that will store it is   *)
(* under way: the timer, or an upload of just that version, or the         *)
(* follow-up of an older one (model.ts:301-343).  As long as the page      *)
(* stayed in front, nothing failed and nobody deleted everything.          *)
NothingForgotten ==
  page = "open" /\ seen = {} =>
     \/ mem = db \/ timer
     \/ saving /\ (again \/ Request("post", mem) \in net)

(* Uploads reach the gateway in the order of the versions (model.ts:315-320); *)
(* under the same conditions. *)
NoRollback == [][seen = {} /\ seen' = {} => db' >= db]_vars

(* An edit of the empty document that a failed load leaves never reaches   *)
(* the gateway, whatever is saved, hidden, left or cleared (app.ts:55-64). *)
BlindNeverSaved == db \notin blind /\ \A r \in net : r.ver \notin blind

(* Types, and no edit made blindly is ever saved.                          *)
Safety == TypeOK /\ BlindNeverSaved

(* Under FairSpec and the same conditions: what the page shows gets stored *)
(* if editing pauses (model.ts:301-343).                                   *)
EditsSaved ==
  \A v \in 1 .. MaxEdits :
     page = "open" /\ seen = {} /\ mem = v ~> db >= v \/ seen # {}

=============================================================================
