----------------------------- MODULE UartCommand -----------------------------
(***************************************************************************)
(* Frames and commands to the TCM515 (src/main/enocean_uart.c) and the two *)
(* portal handlers that use commands, reading and writing the base ID      *)
(* (src/main/http_portal.c).                                               *)
(*                                                                         *)
(* Any number of client tasks write frames; the single httpd task sends a  *)
(* command and waits for "the next RESPONSE".  ESP3 responses do not name  *)
(* the command they answer, so the code keeps other frames off the line    *)
(* with s_cmd_mutex.  The UART reader task (highest priority) captures the *)
(* response.  The TCM515 itself is external: it handles what it receives   *)
(* in order, may stay silent, and takes any time to answer.                *)
(***************************************************************************)
EXTENDS Integers, Sequences

CONSTANTS
  Writers,    \* client tasks that write frames
  Portal,     \* the httpd task
  Nobody,     \* a mutex nobody holds
  Ids,        \* base IDs
  NoId,       \* a response without base ID data
  MaxFrames   \* bound of the model: frames written in all

ASSUME PortalAssumption == Portal \notin Writers /\ Nobody \notin Writers \cup {Portal}
ASSUME NoIdAssumption   == NoId \notin Ids
ASSUME FramesAssumption == MaxFrames \in Nat

VARIABLES
  pc,          \* where a task stands
  cmd_mutex,   \* s_cmd_mutex
  tx_mutex,    \* s_tx_mutex
  resp_sem,    \* s_resp_sem, a binary semaphore
  await_resp,  \* s_await_resp
  resp_frame,  \* s_resp_frame; NoFrame while s_resp_len = 0
  to_tcm,      \* frames on the way to the TCM515, oldest first
  from_tcm,    \* its responses on the way back
  base_id,     \* the base ID stored in the TCM515
  frames,      \* number of frames written; numbers them
  job,         \* what the portal handler is at: none, read, write, verify
  new_id,      \* the base ID it was asked to write, NoId if none
  mine,        \* number of the command frame it sent last
  held,        \* history: the base IDs the TCM515 has had since the request,
               \* or since it stored the one the portal sent
  quiet,       \* history: the line was quiet whenever its commands were armed
  reply        \* the base ID its last HTTP reply stated, or NoId

idVars    == <<base_id, held>>
lineVars  == <<to_tcm, from_tcm, idVars>>
respVars  == <<resp_sem, await_resp, resp_frame>>
jobVars   == <<job, new_id, mine, quiet, reply>>
vars == <<pc, cmd_mutex, tx_mutex, respVars, lineVars, frames, jobVars>>

Tasks == Writers \cup {Portal}
NoFrame == [n |-> 0, ok |-> FALSE, base |-> NoId]
Frame == [n : 1 .. MaxFrames, kind : {"telegram", "read", "write"}, id : Ids \cup {NoId}]
Response == [n : 1 .. MaxFrames, ok : BOOLEAN, base : Ids \cup {NoId}]

Init ==
  /\ pc = [t \in Tasks |-> "idle"]
  /\ cmd_mutex = Nobody /\ tx_mutex = Nobody
  /\ resp_sem = 0 /\ await_resp = FALSE /\ resp_frame = NoFrame
  /\ to_tcm = <<>> /\ from_tcm = <<>>
  /\ base_id \in Ids /\ held = {base_id}
  /\ frames = 0
  /\ job = "none" /\ new_id = NoId /\ mine = 0 /\ quiet = TRUE /\ reply = NoId

Go(t, from, to) == pc[t] = from /\ pc' = [pc EXCEPT ![t] = to]

-----------------------------------------------------------------------------
(* write_frame_raw: s_tx_mutex with a limit, then the UART driver, which   *)
(* takes the whole frame or fails.                                         *)

TakeTx(t, to, giveup) ==
  \/ tx_mutex = Nobody /\ tx_mutex' = t /\ Go(t, "raw", to)
  \/ tx_mutex # Nobody /\ UNCHANGED tx_mutex /\ Go(t, "raw", giveup)

UartWrite(t, frame) ==
  /\ frames < MaxFrames
  /\ frames' = frames + 1
  /\ to_tcm' = Append(to_tcm, frame)
  /\ tx_mutex' = Nobody

UartWriteFails == tx_mutex' = Nobody /\ UNCHANGED <<frames, to_tcm>>

-----------------------------------------------------------------------------
(* enocean_uart_write_frame, called by a client task.                      *)

WriterCall(w) ==
  /\ Go(w, "idle", "lock")
  /\ UNCHANGED <<cmd_mutex, tx_mutex, respVars, lineVars, frames, jobVars>>

(* Up to one second; then the frame is dropped. *)
WriterLock(w) ==
  /\ \/ cmd_mutex = Nobody /\ cmd_mutex' = w /\ Go(w, "lock", "raw")
     \/ cmd_mutex # Nobody /\ UNCHANGED cmd_mutex /\ Go(w, "lock", "idle")
  /\ UNCHANGED <<tx_mutex, respVars, lineVars, frames, jobVars>>

WriterTakeTx(w) ==
  /\ TakeTx(w, "write", "unlock")
  /\ UNCHANGED <<cmd_mutex, respVars, lineVars, frames, jobVars>>

(* What a client passes on is any ESP3 frame: a radio telegram or a        *)
(* command of its own, storing another base ID included.                   *)
WriterWrite(w) ==
  /\ Go(w, "write", "unlock")
  /\ \/ \E f \in Frame : f.n = frames + 1 /\ (f.kind = "write" <=> f.id # NoId) /\ UartWrite(w, f)
     \/ UartWriteFails
  /\ UNCHANGED <<cmd_mutex, respVars, from_tcm, idVars, jobVars>>

WriterUnlock(w) ==
  /\ Go(w, "unlock", "idle")
  /\ cmd_mutex' = Nobody
  /\ UNCHANGED <<tx_mutex, respVars, lineVars, frames, jobVars>>

-----------------------------------------------------------------------------
(* enocean_uart_command, called by h_baseid_read and h_baseid_write.       *)

(* A request for the current base ID, or to store a new one. *)
PortalRequest ==
  /\ Go(Portal, "idle", "lock")
  /\ \/ job' = "read" /\ UNCHANGED new_id
     \/ job' = "write" /\ new_id' \in Ids
  /\ quiet' = TRUE /\ reply' = NoId /\ held' = {base_id}
  /\ UNCHANGED <<cmd_mutex, tx_mutex, respVars, to_tcm, from_tcm, base_id, frames, mine>>

(* How the handlers go on when enocean_uart_command returns an error: only *)
(* the read-back after a write is optional.                                *)
CommandFailed ==
  /\ job' = "none"
  /\ reply' = IF job = "verify" THEN new_id ELSE NoId
  /\ new_id' = NoId
  /\ UNCHANGED <<mine, quiet>>

CommandLock ==
  \/ /\ cmd_mutex = Nobody
     /\ cmd_mutex' = Portal
     /\ Go(Portal, "lock", "drain")
     /\ UNCHANGED <<tx_mutex, respVars, lineVars, frames, jobVars>>
  \/ /\ cmd_mutex # Nobody
     /\ Go(Portal, "lock", "idle")
     /\ CommandFailed
     /\ UNCHANGED <<cmd_mutex, tx_mutex, respVars, lineVars, frames>>

(* Fault: the old signal stays. *)
CommandDrainNot ==
  /\ Go(Portal, "drain", "arm")
  /\ resp_frame' = NoFrame
  /\ UNCHANGED <<cmd_mutex, tx_mutex, resp_sem, await_resp, lineVars, frames, jobVars>>

(* An old signal and an old response are taken away before arming. *)
CommandDrain ==
  /\ Go(Portal, "drain", "arm")
  /\ resp_sem' = 0
  /\ resp_frame' = NoFrame
  /\ UNCHANGED <<cmd_mutex, tx_mutex, await_resp, lineVars, frames, jobVars>>

CommandArm ==
  /\ Go(Portal, "arm", "raw")
  /\ await_resp' = TRUE
  /\ quiet' = (quiet /\ to_tcm = <<>> /\ from_tcm = <<>>)
  /\ UNCHANGED <<cmd_mutex, tx_mutex, resp_sem, resp_frame, lineVars, frames,
                 job, new_id, mine, reply>>

CommandTakeTx ==
  /\ TakeTx(Portal, "write", "disarm")
  /\ UNCHANGED <<cmd_mutex, respVars, lineVars, frames, jobVars>>

(* Fault: the line is free for others while the command waits. *)
CommandWriteUnlocks ==
  /\ Go(Portal, "write", "wait")
  /\ LET kind == IF job = "write" THEN "write" ELSE "read"
     IN  UartWrite(Portal, [n |-> frames + 1, kind |-> kind,
                            id |-> IF job = "write" THEN new_id ELSE NoId])
  /\ mine' = frames + 1
  /\ cmd_mutex' = Nobody
  /\ UNCHANGED <<respVars, from_tcm, idVars, job, new_id, quiet, reply>>

CommandWrite ==
  /\ \/ /\ Go(Portal, "write", "wait")
        /\ LET kind == IF job = "write" THEN "write" ELSE "read"
           IN  UartWrite(Portal, [n |-> frames + 1, kind |-> kind,
                                  id |-> IF job = "write" THEN new_id ELSE NoId])
        /\ mine' = frames + 1
     \/ /\ Go(Portal, "write", "disarm")
        /\ UartWriteFails
        /\ UNCHANGED mine
  /\ UNCHANGED <<cmd_mutex, respVars, from_tcm, idVars, job, new_id, quiet, reply>>

CommandSignalled ==
  /\ Go(Portal, "wait", "copy")
  /\ resp_sem = 1
  /\ resp_sem' = 0
  /\ UNCHANGED <<cmd_mutex, tx_mutex, await_resp, resp_frame, lineVars, frames, jobVars>>

(* The wait runs into its 600 ms limit.  The observer may still capture a  *)
(* late response before the next step disarms it. *)
CommandTimeout ==
  /\ Go(Portal, "wait", "disarm")
  /\ resp_sem = 0
  /\ UNCHANGED <<cmd_mutex, tx_mutex, respVars, lineVars, frames, jobVars>>

(* Fault: an error returns with the mutex. *)
CommandDisarmKeeps ==
  /\ Go(Portal, "disarm", "idle")
  /\ await_resp' = FALSE
  /\ CommandFailed
  /\ UNCHANGED <<cmd_mutex, tx_mutex, resp_sem, resp_frame, lineVars, frames>>

CommandDisarm ==
  /\ Go(Portal, "disarm", "idle")
  /\ await_resp' = FALSE
  /\ cmd_mutex' = Nobody
  /\ CommandFailed
  /\ UNCHANGED <<tx_mutex, resp_sem, resp_frame, lineVars, frames>>

(* Fault: the return code of a write is not looked at. *)
CommandCopyBlindly ==
  /\ pc[Portal] = "copy"
  /\ cmd_mutex' = Nobody
  /\ IF job = "write"
     THEN /\ pc' = [pc EXCEPT ![Portal] = "lock"]
          /\ job' = "verify"
          /\ UNCHANGED <<new_id, mine, quiet, reply>>
     ELSE /\ pc' = [pc EXCEPT ![Portal] = "idle"]
          /\ IF resp_frame.ok /\ resp_frame.base # NoId
             THEN job' = "none" /\ reply' = resp_frame.base /\ new_id' = NoId /\ UNCHANGED <<mine, quiet>>
             ELSE CommandFailed
  /\ UNCHANGED <<tx_mutex, respVars, lineVars, frames>>

(* The response is copied and judged: a read needs return code OK and the  *)
(* ID's bytes, a write only its return code, and is then read back.        *)
CommandCopy ==
  /\ pc[Portal] = "copy"
  /\ cmd_mutex' = Nobody
  /\ IF job = "write" /\ resp_frame.ok
     THEN /\ pc' = [pc EXCEPT ![Portal] = "lock"]
          /\ job' = "verify"
          /\ UNCHANGED <<new_id, mine, quiet, reply>>
     ELSE IF job # "write" /\ resp_frame.ok /\ resp_frame.base # NoId
     THEN /\ pc' = [pc EXCEPT ![Portal] = "idle"]
          /\ job' = "none"
          /\ reply' = resp_frame.base
          /\ new_id' = NoId
          /\ UNCHANGED <<mine, quiet>>
     ELSE /\ pc' = [pc EXCEPT ![Portal] = "idle"]
          /\ CommandFailed
  /\ UNCHANGED <<tx_mutex, respVars, lineVars, frames>>

Command == \/ PortalRequest \/ CommandLock \/ CommandDrain \/ CommandArm
           \/ CommandTakeTx \/ CommandWrite \/ CommandSignalled
           \/ CommandTimeout \/ CommandDisarm \/ CommandCopy

-----------------------------------------------------------------------------
(* The TCM515 (external) handles the oldest frame; its answer may get lost *)
(* on the line.  A write may be refused: cycles used up.                   *)
TcmHandles ==
  /\ to_tcm # <<>>
  /\ to_tcm' = Tail(to_tcm)
  /\ LET f == Head(to_tcm) IN
     \E ok \in BOOLEAN, answered \in BOOLEAN :
        /\ f.kind = "read" => ok
        /\ base_id' = IF f.kind = "write" /\ ok THEN f.id ELSE base_id
        /\ held' = IF job = "write" /\ f.n = mine /\ f.kind = "write" /\ ok
                   THEN {f.id} ELSE held \cup {base_id'}
        /\ from_tcm' = IF answered
                       THEN Append(from_tcm, [n |-> f.n, ok |-> ok,
                              base |-> IF f.kind = "read" THEN base_id ELSE NoId])
                       ELSE from_tcm
  /\ UNCHANGED <<pc, cmd_mutex, tx_mutex, respVars, frames, jobVars>>

(* observer_on_frame in the UART reader task, which no task it shares      *)
(* state with can interrupt. *)
Observe ==
  /\ from_tcm # <<>>
  /\ from_tcm' = Tail(from_tcm)
  /\ IF await_resp
     THEN resp_frame' = Head(from_tcm) /\ await_resp' = FALSE /\ resp_sem' = 1
     ELSE UNCHANGED respVars
  /\ UNCHANGED <<pc, cmd_mutex, tx_mutex, to_tcm, idVars, frames, jobVars>>

Writer(w) == \/ WriterCall(w) \/ WriterLock(w) \/ WriterTakeTx(w)
             \/ WriterWrite(w) \/ WriterUnlock(w)

Next == Command \/ TcmHandles \/ Observe \/ \E w \in Writers : Writer(w)

Spec == Init /\ [][Next]_vars

(* Every wait of the code has a limit, so every task that has begun a call *)
(* goes on; nothing is assumed of requests, clients or the TCM515.         *)
Fairness ==
  /\ WF_vars(CommandLock) /\ WF_vars(CommandDrain) /\ WF_vars(CommandArm)
  /\ WF_vars(CommandTakeTx) /\ WF_vars(CommandWrite)
  /\ WF_vars(CommandSignalled \/ CommandTimeout)
  /\ WF_vars(CommandDisarm) /\ WF_vars(CommandCopy)
  /\ \A w \in Writers : WF_vars(WriterLock(w)) /\ WF_vars(WriterTakeTx(w))
                        /\ WF_vars(WriterWrite(w)) /\ WF_vars(WriterUnlock(w))

FairSpec == Spec /\ Fairness

-----------------------------------------------------------------------------
WriterPcs == {"idle", "lock", "raw", "write", "unlock"}
PortalPcs == {"idle", "lock", "drain", "arm", "raw", "write", "wait", "disarm", "copy"}

TypeOK ==
  /\ pc \in [Tasks -> WriterPcs \cup PortalPcs]
  /\ \A w \in Writers : pc[w] \in WriterPcs
  /\ pc[Portal] \in PortalPcs
  /\ cmd_mutex \in Tasks \cup {Nobody} /\ tx_mutex \in Tasks \cup {Nobody}
  /\ resp_sem \in {0, 1} /\ await_resp \in BOOLEAN
  /\ resp_frame \in Response \cup {NoFrame}
  /\ to_tcm \in Seq(Frame) /\ from_tcm \in Seq(Response) /\ base_id \in Ids
  /\ held \in SUBSET Ids
  /\ frames \in 0 .. MaxFrames
  /\ job \in {"none", "read", "write", "verify"} /\ new_id \in Ids \cup {NoId}
  /\ mine \in 0 .. MaxFrames /\ quiet \in BOOLEAN /\ reply \in Ids \cup {NoId}

(* A signal always comes with a response of this command's wait: a late    *)
(* answer to a command that timed out leaves its signal behind, and the    *)
(* next command must not wake up on it with an empty response              *)
(* (enocean_uart.c:220-238).                                               *)
SignalHasResponse == pc[Portal] = "copy" => resp_frame # NoFrame

(* What s_cmd_mutex really achieves: if nothing was under way on the line  *)
(* when the command was armed, the response it gets is its own, whatever   *)
(* the clients try to send meanwhile (enocean_uart.c:182-193, 225-227).    *)
QuietAnswerIsOwn == pc[Portal] = "copy" /\ quiet => resp_frame.n = mine

(* Then a base ID the portal states is one the TCM515 has had since the    *)
(* request, or since it stored the one the portal sent, also when the      *)
(* read-back after that failed: the one it has now, unless a client's      *)
(* frame has changed it meanwhile (http_portal.c:644-695).                 *)
QuietReplyIsTrue == quiet /\ reply # NoId => reply \in held

(* s_tx_mutex is never contended: s_cmd_mutex is always taken first, so    *)
(* its 500 ms limit can never drop a frame (enocean_uart.c:158-193).       *)
TxUncontended == \A t \in Tasks : pc[t] = "raw" => tx_mutex = Nobody

(* Types, no empty response for a woken command, and no frame dropped on  *)
(* the inner mutex.                                                        *)
Safety == TypeOK /\ SignalHasResponse /\ TxUncontended

(* Under FairSpec: every command and every write returns, with a result or *)
(* an error, and the mutex is not kept (enocean_uart.c:175-243).           *)
CommandReturns == pc[Portal] # "idle" ~> pc[Portal] = "idle"
MutexReleased  == cmd_mutex # Nobody ~> cmd_mutex = Nobody
CallsReturn    == CommandReturns /\ MutexReleased

=============================================================================
