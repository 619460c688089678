-------------------------- MODULE UartCommand_proofs --------------------------
(***************************************************************************)
(* Proofs about UartCommand: for any clients, any base IDs and any number  *)
(* of frames.                                                              *)
(***************************************************************************)
EXTENDS UartCommand, TLAPS

(* Who holds the two mutexes, by where the tasks stand. *)
MutexInv ==
  \A t \in Tasks : /\ cmd_mutex = t <=> pc[t] \notin {"idle", "lock"}
                   /\ tx_mutex = t <=> pc[t] = "write"

(* The response is waited for, or is there. *)
RespInv ==
  /\ await_resp => /\ pc[Portal] \in {"raw", "write", "wait", "disarm"}
                   /\ resp_sem = 0 /\ resp_frame = NoFrame
  /\ pc[Portal] = "arm" => resp_sem = 0 /\ resp_frame = NoFrame
  /\ pc[Portal] \in {"raw", "write", "wait", "copy"} /\ ~await_resp => resp_frame # NoFrame
  /\ pc[Portal] = "copy" => ~await_resp

JobInv ==
  /\ pc[Portal] = "idle" <=> job = "none"
  /\ reply # NoId => job = "none"
  /\ job \in {"write", "verify"} => new_id \in Ids

OwnFrame(f) ==
  /\ f.n = mine
  /\ IF job = "write" THEN f.kind = "write" /\ f.id = new_id ELSE f.kind = "read"

OwnResponse(r) ==
  /\ r.n = mine
  /\ IF job = "write" THEN r.ok => new_id \in held ELSE r.base \in held

(* Of a command armed on a quiet line there is one trace: the command, or  *)
(* its response on the way or captured, or nothing, if that was lost.      *)
Trace ==
  \/ (\E f \in Frame : to_tcm = <<f>> /\ OwnFrame(f)) /\ from_tcm = <<>> /\ resp_frame = NoFrame
  \/ to_tcm = <<>> /\ (\E r \in Response : from_tcm = <<r>> /\ OwnResponse(r)) /\ resp_frame = NoFrame
  \/ to_tcm = <<>> /\ from_tcm = <<>> /\ (resp_frame # NoFrame => OwnResponse(resp_frame))

QuietInv ==
  quiet =>
    /\ pc[Portal] \in {"raw", "write"} => to_tcm = <<>> /\ from_tcm = <<>> /\ resp_frame = NoFrame
    /\ pc[Portal] \in {"wait", "copy"} => Trace
    /\ job = "verify" => new_id \in held
    /\ reply # NoId => reply \in held

(* Who asks for a new base ID names one, the portal or a client. *)
SentFrame == {f \in Frame : f.kind = "write" => f.id \in Ids}

CommandInv ==
  TypeOK /\ MutexInv /\ RespInv /\ JobInv /\ QuietInv /\ to_tcm \in Seq(SentFrame)


-----------------------------------------------------------------------------
(* One task goes on, the others stay where they are. *)
LEMMA GoFacts ==
  ASSUME TypeOK, NEW t \in Tasks, NEW from, NEW to \in WriterPcs \cup PortalPcs, Go(t, from, to)
  PROVE  /\ pc[t] = from /\ pc'[t] = to
         /\ \A u \in Tasks : u # t => pc'[u] = pc[u]
         /\ pc' \in [Tasks -> WriterPcs \cup PortalPcs]
  BY DEF Go, TypeOK

LEMMA PortalIsTask == Portal \in Tasks /\ \A w \in Writers : w \in Tasks /\ w # Portal
  BY PortalAssumption DEF Tasks

LEMMA NobodyIsNoTask == Nobody \notin Tasks
  BY PortalAssumption DEF Tasks

(* Who stands in a section that needs s_cmd_mutex is alone there. *)
LEMMA HolderIsAlone ==
  ASSUME MutexInv, NEW t \in Tasks, NEW u \in Tasks, t # u, pc[t] \notin {"idle", "lock"}
  PROVE  pc[u] \in {"idle", "lock"}
  BY DEF MutexInv

(* A task moves on; it may take or give back a mutex on its way. *)
LEMMA MutexStep ==
  ASSUME TypeOK, MutexInv, NEW t \in Tasks,
         \A u \in Tasks : u # t => pc'[u] = pc[u],
         \/ cmd_mutex' = cmd_mutex /\ (pc[t] \in {"idle", "lock"} <=> pc'[t] \in {"idle", "lock"})
         \/ cmd_mutex = Nobody /\ cmd_mutex' = t /\ pc'[t] \notin {"idle", "lock"}
         \/ cmd_mutex = t /\ cmd_mutex' = Nobody /\ pc'[t] \in {"idle", "lock"},
         \/ tx_mutex' = tx_mutex /\ (pc[t] = "write" <=> pc'[t] = "write")
         \/ tx_mutex = Nobody /\ tx_mutex' = t /\ pc'[t] = "write"
         \/ tx_mutex = t /\ tx_mutex' = Nobody /\ pc'[t] # "write"
  PROVE  MutexInv'
  BY NobodyIsNoTask DEF MutexInv

(* Frames and responses keep their types on the way. *)
LEMMA LineTyped ==
  ASSUME TypeOK
  PROVE  /\ \A f \in Frame : Append(to_tcm, f) \in Seq(Frame)
         /\ \A r \in Response : Append(from_tcm, r) \in Seq(Response)
         /\ to_tcm # <<>> => Head(to_tcm) \in Frame /\ Tail(to_tcm) \in Seq(Frame)
         /\ from_tcm # <<>> => Head(from_tcm) \in Response /\ Tail(from_tcm) \in Seq(Response)
         /\ NoFrame \notin Response
<1>1. to_tcm \in Seq(Frame) /\ from_tcm \in Seq(Response)
  BY DEF TypeOK
<1>2. NoFrame \notin Response
  BY FramesAssumption DEF NoFrame, Response
<1> HIDE DEF Frame, Response
<1> QED
  BY <1>1, <1>2

LEMMA SentTyped ==
  ASSUME to_tcm \in Seq(SentFrame)
  PROVE  /\ \A f \in SentFrame : Append(to_tcm, f) \in Seq(SentFrame)
         /\ to_tcm # <<>> => Head(to_tcm) \in SentFrame /\ Tail(to_tcm) \in Seq(SentFrame)
  OBVIOUS

(* A client task, which never meets a waiting command.                     *)
LEMMA WriterKeepsInv ==
  ASSUME CommandInv, NEW w \in Writers, Writer(w)
  PROVE  CommandInv'
<1>1. /\ TypeOK /\ MutexInv /\ RespInv /\ JobInv /\ QuietInv
      /\ w \in Tasks /\ w # Portal /\ Portal \in Tasks
  BY PortalIsTask DEF CommandInv
<1>2. PICK from \in WriterPcs, to \in WriterPcs : Go(w, from, to)
  BY DEF Writer, WriterCall, WriterLock, WriterTakeTx, WriterWrite, WriterUnlock, TakeTx, Go, WriterPcs
<1>3. /\ pc[w] = from /\ pc'[w] = to
      /\ \A u \in Tasks : u # w => pc'[u] = pc[u]
      /\ pc' \in [Tasks -> WriterPcs \cup PortalPcs]
  BY <1>1, <1>2, GoFacts
<1>4. pc'[Portal] = pc[Portal]
  BY <1>1, <1>3
<1>5. UNCHANGED <<respVars, from_tcm, base_id, held, jobVars>>
  BY DEF idVars, Writer, WriterCall, WriterLock, WriterTakeTx, WriterWrite, WriterUnlock, lineVars
<1>6. /\ cmd_mutex' \in Tasks \cup {Nobody} /\ tx_mutex' \in Tasks \cup {Nobody}
  BY <1>1 DEF Writer, WriterCall, WriterLock, WriterTakeTx, WriterWrite, WriterUnlock, TakeTx,
     UartWrite, UartWriteFails, TypeOK
<1>7. \/ UNCHANGED <<frames, to_tcm>>
      \/ /\ frames' = frames + 1 /\ frames' \in 1 .. MaxFrames /\ pc[w] = "write"
         /\ \E f \in SentFrame : to_tcm' = Append(to_tcm, f)
  <2>1. ASSUME WriterWrite(w), NEW f \in Frame, f.n = frames + 1,
               f.kind = "write" <=> f.id # NoId, UartWrite(w, f)
        PROVE  /\ frames' = frames + 1 /\ frames' \in 1 .. MaxFrames /\ pc[w] = "write"
               /\ \E g \in SentFrame : to_tcm' = Append(to_tcm, g)
    <3>1. frames' = frames + 1 /\ frames' \in 1 .. MaxFrames
      BY <1>1, <2>1, FramesAssumption DEF UartWrite, TypeOK
    <3>2. f \in SentFrame
      BY <2>1 DEF Frame, SentFrame
    <3> QED
      BY <2>1, <3>1, <3>2 DEF UartWrite, WriterWrite, Go
  <2>2. CASE WriterWrite(w) /\ UartWriteFails
    BY <2>2 DEF UartWriteFails
  <2>3. CASE ~WriterWrite(w)
    BY <2>3 DEF Writer, WriterCall, WriterLock, WriterTakeTx, WriterUnlock, lineVars
  <2> QED
    BY <2>1, <2>2, <2>3 DEF WriterWrite
<1>8. /\ to_tcm' \in Seq(Frame) /\ to_tcm' \in Seq(SentFrame)
      /\ frames' \in 0 .. MaxFrames
  <2>1. to_tcm \in Seq(Frame) /\ frames \in 0 .. MaxFrames /\ to_tcm \in Seq(SentFrame)
    BY <1>1 DEF TypeOK, CommandInv
  <2>2. \A n \in 1 .. MaxFrames : n \in 0 .. MaxFrames
    BY FramesAssumption
  <2>3. \A f \in SentFrame : Append(to_tcm, f) \in Seq(Frame)
    BY <1>1, LineTyped DEF SentFrame
  <2>4. \A f \in SentFrame : Append(to_tcm, f) \in Seq(SentFrame)
    BY <2>1, SentTyped
  <2> QED
    BY <1>7, <2>1, <2>2, <2>3, <2>4
<1>9. \A v \in Writers : pc'[v] \in WriterPcs
  BY <1>1, <1>3, PortalIsTask DEF TypeOK
<1>10. TypeOK'
  BY <1>1, <1>3, <1>4, <1>5, <1>6, <1>8, <1>9 DEF TypeOK, respVars, jobVars
<1>11. MutexInv'
  <2>1. CASE WriterCall(w)
    BY <1>1, <1>3, <2>1, MutexStep DEF WriterCall, Go
  <2>2. CASE WriterLock(w)
    BY <1>1, <1>3, <2>2, MutexStep DEF WriterLock, Go
  <2>3. CASE WriterTakeTx(w)
    BY <1>1, <1>3, <2>3, MutexStep DEF WriterTakeTx, TakeTx, Go
  <2>4. CASE WriterWrite(w)
    <3>1. tx_mutex = w /\ tx_mutex' = Nobody /\ cmd_mutex' = cmd_mutex /\ pc[w] = "write" /\ pc'[w] = "unlock"
      BY <1>1, <1>3, <2>4 DEF WriterWrite, Go, UartWrite, UartWriteFails, MutexInv, TypeOK
    <3> QED
      BY <1>1, <1>3, <3>1, MutexStep
  <2>5. CASE WriterUnlock(w)
    <3>1. cmd_mutex = w /\ cmd_mutex' = Nobody /\ tx_mutex' = tx_mutex /\ pc[w] = "unlock" /\ pc'[w] = "idle"
      BY <1>1, <1>3, <2>5 DEF WriterUnlock, Go, MutexInv, TypeOK
    <3> QED
      BY <1>1, <1>3, <3>1, MutexStep
  <2> QED
    BY <2>1, <2>2, <2>3, <2>4, <2>5 DEF Writer
<1>12. RespInv' /\ JobInv'
  BY <1>1, <1>4, <1>5 DEF RespInv, JobInv, respVars, jobVars
<1>13. QuietInv'
  <2>1. CASE UNCHANGED <<frames, to_tcm>>
    BY <1>1, <1>4, <1>5, <2>1 DEF QuietInv, Trace, OwnFrame, OwnResponse, respVars, jobVars
  <2>2. CASE pc[w] = "write" /\ \E f \in SentFrame : to_tcm' = Append(to_tcm, f)
    <3>1. pc[Portal] \in {"idle", "lock"}
      BY <1>1, <2>2, HolderIsAlone
    <3> QED
      BY <1>1, <1>4, <1>5, <3>1 DEF QuietInv, jobVars
  <2> QED
    BY <1>7, <2>1, <2>2
<1> QED
  BY <1>8, <1>10, <1>11, <1>12, <1>13 DEF CommandInv


(* The TCM515 handles a frame: what it answers to an own command is own.   *)
LEMMA TcmKeepsInv ==
  ASSUME CommandInv, TcmHandles
  PROVE  CommandInv'
<1>1. TypeOK /\ MutexInv /\ RespInv /\ JobInv /\ QuietInv /\ to_tcm \in Seq(SentFrame)
  BY DEF CommandInv
<1>2. /\ to_tcm # <<>> /\ to_tcm' = Tail(to_tcm)
      /\ UNCHANGED <<pc, cmd_mutex, tx_mutex, frames>>
      /\ UNCHANGED <<resp_sem, await_resp, resp_frame, job, new_id, mine, quiet, reply>>
  BY DEF TcmHandles, respVars, jobVars
<1>3. /\ Tail(to_tcm) \in Seq(Frame) /\ Tail(to_tcm) \in Seq(SentFrame) /\ base_id \in Ids
  BY <1>1, <1>2, LineTyped, SentTyped DEF TypeOK
<1>4. PICK f \in SentFrame : f = Head(to_tcm)
  BY <1>1, <1>2, SentTyped
<1>5. f \in Frame /\ (f.kind = "write" => f.id \in Ids)
  BY DEF SentFrame
<1>6. PICK ok \in BOOLEAN, answered \in BOOLEAN :
        /\ f.kind = "read" => ok
        /\ base_id' = IF f.kind = "write" /\ ok THEN f.id ELSE base_id
        /\ held' = IF job = "write" /\ f.n = mine /\ f.kind = "write" /\ ok
                   THEN {f.id} ELSE held \cup {base_id'}
        /\ from_tcm' = IF answered
                       THEN Append(from_tcm, [n |-> f.n, ok |-> ok,
                              base |-> IF f.kind = "read" THEN base_id ELSE NoId])
                       ELSE from_tcm
  BY <1>4 DEF TcmHandles
<1>7. PICK r \in Response :
        /\ r.n = f.n /\ r.ok = ok /\ (f.kind = "read" => r.base = base_id)
        /\ from_tcm' = IF answered THEN Append(from_tcm, r) ELSE from_tcm
  <2>1. [n |-> f.n, ok |-> ok, base |-> IF f.kind = "read" THEN base_id ELSE NoId] \in Response
    BY <1>3, <1>5 DEF Frame, Response
  <2> QED
    BY <1>6, <2>1
<1>8. from_tcm' \in Seq(Response) /\ base_id' \in Ids /\ held' \in SUBSET Ids
  BY <1>1, <1>3, <1>5, <1>6, <1>7, LineTyped DEF TypeOK
<1>9. TypeOK'
  BY <1>1, <1>2, <1>3, <1>8 DEF TypeOK
<1>10. MutexInv' /\ RespInv' /\ JobInv'
  BY <1>1, <1>2 DEF MutexInv, RespInv, JobInv
<1>11. job # "write" => held \subseteq held'
  BY <1>6
<1>12. quiet /\ pc[Portal] \in {"wait", "copy"} => Trace'
  <2> SUFFICES ASSUME quiet, pc[Portal] \in {"wait", "copy"} PROVE Trace'
    OBVIOUS
  <2>1. PICK g \in Frame : to_tcm = <<g>> /\ OwnFrame(g) /\ from_tcm = <<>> /\ resp_frame = NoFrame
    BY <1>1, <1>2 DEF QuietInv, Trace
  <2>2. Head(<<g>>) = g /\ Tail(<<g>>) = <<>> /\ Append(<<>>, r) = <<r>>
    OBVIOUS
  <2>3. OwnFrame(f)
    BY <1>4, <2>1, <2>2
  <2>4. OwnResponse(r)'
    BY <1>2, <1>6, <1>7, <2>3 DEF OwnFrame, OwnResponse
  <2>5. to_tcm' = <<>> /\ from_tcm' \in {<<>>, <<r>>} /\ resp_frame' = NoFrame
    BY <1>2, <1>7, <2>1, <2>2
  <2> QED
    BY <2>4, <2>5 DEF Trace, OwnResponse
<1>13. QuietInv'
  BY <1>1, <1>2, <1>11, <1>12 DEF QuietInv, JobInv
<1> QED
  BY <1>2, <1>3, <1>9, <1>10, <1>13 DEF CommandInv

(* The UART reader takes a response.                                       *)
LEMMA ObserveKeepsInv ==
  ASSUME CommandInv, Observe
  PROVE  CommandInv'
<1>1. TypeOK /\ MutexInv /\ RespInv /\ JobInv /\ QuietInv /\ to_tcm \in Seq(SentFrame)
  BY DEF CommandInv
<1>2. /\ from_tcm # <<>> /\ from_tcm' = Tail(from_tcm)
      /\ UNCHANGED <<pc, cmd_mutex, tx_mutex, to_tcm, base_id, held, frames>>
      /\ UNCHANGED <<job, new_id, mine, quiet, reply>>
      /\ IF await_resp
         THEN resp_frame' = Head(from_tcm) /\ await_resp' = FALSE /\ resp_sem' = 1
         ELSE UNCHANGED <<resp_sem, await_resp, resp_frame>>
  BY DEF Observe, idVars, jobVars, respVars
<1>3. Head(from_tcm) \in Response /\ Tail(from_tcm) \in Seq(Response) /\ NoFrame \notin Response
  BY <1>1, <1>2, LineTyped
<1>4. TypeOK'
  BY <1>1, <1>2, <1>3 DEF TypeOK
<1>5. MutexInv' /\ JobInv'
  BY <1>1, <1>2 DEF MutexInv, JobInv
<1>6. RespInv'
  BY <1>1, <1>2, <1>3 DEF RespInv
<1>7. quiet /\ pc[Portal] \in {"wait", "copy"} => Trace'
  <2> SUFFICES ASSUME quiet, pc[Portal] \in {"wait", "copy"} PROVE Trace'
    OBVIOUS
  <2>1. PICK r \in Response : to_tcm = <<>> /\ from_tcm = <<r>> /\ OwnResponse(r) /\ resp_frame = NoFrame
    BY <1>1, <1>2 DEF QuietInv, Trace
  <2>2. Head(<<r>>) = r /\ Tail(<<r>>) = <<>>
    OBVIOUS
  <2>3. await_resp
    BY <1>1, <2>1 DEF RespInv, TypeOK
  <2>4. to_tcm' = <<>> /\ from_tcm' = <<>> /\ resp_frame' = r
    BY <1>2, <2>1, <2>2, <2>3
  <2>5. OwnResponse(r)'
    BY <1>2, <2>1 DEF OwnResponse
  <2> QED
    BY <2>4, <2>5 DEF Trace, OwnResponse
<1>9. QuietInv'
  BY <1>1, <1>2, <1>7 DEF QuietInv
<1> QED
  BY <1>1, <1>2, <1>4, <1>5, <1>6, <1>9 DEF CommandInv


(* The portal goes on without a response, with the mutex given back: a     *)
(* read-back after a write ends in the ID that was written.                *)
LEMMA FailedKeepsInv ==
  ASSUME CommandInv, CommandFailed, Go(Portal, pc[Portal], "idle"),
         pc[Portal] \in {"lock", "disarm", "copy"},
         UNCHANGED <<tx_mutex, resp_frame, lineVars, frames>>,
         cmd_mutex' = IF pc[Portal] = "lock" THEN cmd_mutex ELSE Nobody,
         await_resp' = FALSE, resp_sem' = resp_sem
  PROVE  CommandInv'
<1>1. /\ TypeOK /\ MutexInv /\ RespInv /\ JobInv /\ QuietInv
      /\ to_tcm \in Seq(SentFrame) /\ Portal \in Tasks
  BY PortalIsTask DEF CommandInv
<1>2. /\ pc'[Portal] = "idle" /\ \A u \in Tasks : u # Portal => pc'[u] = pc[u]
      /\ pc' \in [Tasks -> WriterPcs \cup PortalPcs]
  BY <1>1, GoFacts DEF PortalPcs
<1>3. /\ job' = "none" /\ reply' = (IF job = "verify" THEN new_id ELSE NoId)
      /\ new_id' = NoId /\ UNCHANGED <<mine, quiet, to_tcm, from_tcm, base_id, held>>
  BY DEF CommandFailed, lineVars, idVars
<1>4. TypeOK'
  BY <1>1, <1>2, <1>3, PortalIsTask DEF TypeOK, PortalPcs
<1>5. MutexInv'
  <2>1. pc[Portal] # "lock" => cmd_mutex = Portal
    BY <1>1 DEF MutexInv
  <2> QED
    BY <1>1, <1>2, <2>1, MutexStep
<1>6. RespInv' /\ JobInv'
  BY <1>1, <1>2, <1>3 DEF RespInv, JobInv
<1>7. QuietInv'
  BY <1>1, <1>2, <1>3, NoIdAssumption DEF QuietInv
<1> QED
  BY <1>1, <1>3, <1>4, <1>5, <1>6, <1>7 DEF CommandInv

(* The httpd task. *)
LEMMA PortalKeepsInv ==
  ASSUME CommandInv, Command
  PROVE  CommandInv'
<1>1. /\ TypeOK /\ MutexInv /\ RespInv /\ JobInv /\ QuietInv
      /\ to_tcm \in Seq(SentFrame) /\ Portal \in Tasks
  BY PortalIsTask DEF CommandInv
<1>2. ASSUME NEW from, NEW to \in PortalPcs, Go(Portal, from, to)
      PROVE  /\ pc[Portal] = from /\ pc'[Portal] = to
             /\ \A u \in Tasks : u # Portal => pc'[u] = pc[u]
             /\ pc' \in [Tasks -> WriterPcs \cup PortalPcs]
             /\ \A w \in Writers : pc'[w] \in WriterPcs
  BY <1>1, <1>2, GoFacts, PortalIsTask DEF TypeOK
<1>3. {"idle", "lock", "drain", "arm", "raw", "write", "wait", "disarm", "copy"} \subseteq PortalPcs
  BY DEF PortalPcs
<1>4. CASE PortalRequest
  <2>1. /\ pc[Portal] = "idle" /\ pc'[Portal] = "lock"
        /\ \A u \in Tasks : u # Portal => pc'[u] = pc[u]
        /\ pc' \in [Tasks -> WriterPcs \cup PortalPcs] /\ \A w \in Writers : pc'[w] \in WriterPcs
    BY <1>2, <1>3, <1>4 DEF PortalRequest
  <2>2. /\ job' \in {"read", "write"} /\ new_id' \in Ids \cup {NoId} /\ reply' = NoId
        /\ quiet' = TRUE /\ held' = {base_id} /\ (job' = "write" => new_id' \in Ids)
        /\ UNCHANGED <<cmd_mutex, tx_mutex, resp_sem, await_resp, resp_frame,
                       to_tcm, from_tcm, base_id, frames, mine>>
    BY <1>1, <1>4 DEF PortalRequest, respVars, TypeOK
  <2>3. TypeOK'
    BY <1>1, <1>3, <2>1, <2>2 DEF TypeOK
  <2>4. MutexInv'
    BY <1>1, <2>1, <2>2, MutexStep
  <2>5. RespInv' /\ JobInv' /\ QuietInv'
    BY <1>1, <2>1, <2>2 DEF RespInv, JobInv, QuietInv
  <2> QED
    BY <1>1, <2>2, <2>3, <2>4, <2>5 DEF CommandInv
<1>5. CASE CommandLock
  <2>1. CASE cmd_mutex = Nobody
    <3>1. /\ pc[Portal] = "lock" /\ pc'[Portal] = "drain"
          /\ \A u \in Tasks : u # Portal => pc'[u] = pc[u]
          /\ pc' \in [Tasks -> WriterPcs \cup PortalPcs] /\ \A w \in Writers : pc'[w] \in WriterPcs
      BY <1>2, <1>3, <1>5, <2>1 DEF CommandLock
    <3>2. /\ cmd_mutex' = Portal
          /\ UNCHANGED <<tx_mutex, resp_sem, await_resp, resp_frame, to_tcm, from_tcm, base_id, held,
                         frames, job, new_id, mine, quiet, reply>>
      BY <1>5, <2>1 DEF CommandLock, respVars, lineVars, idVars, jobVars
    <3>3. TypeOK'
      BY <1>1, <1>3, <3>1, <3>2 DEF TypeOK
    <3>4. MutexInv'
      BY <1>1, <2>1, <3>1, <3>2, MutexStep
    <3>5. RespInv' /\ JobInv' /\ QuietInv'
      BY <1>1, <3>1, <3>2 DEF RespInv, JobInv, QuietInv
    <3> QED
      BY <1>1, <3>2, <3>3, <3>4, <3>5 DEF CommandInv
  <2>2. CASE cmd_mutex # Nobody
    <3>1. /\ Go(Portal, "lock", "idle") /\ CommandFailed
          /\ UNCHANGED <<cmd_mutex, tx_mutex, resp_sem, await_resp, resp_frame, lineVars, frames>>
      BY <1>5, <2>2 DEF CommandLock, respVars
    <3>2. pc[Portal] = "lock" /\ Go(Portal, pc[Portal], "idle")
      BY <3>1 DEF Go
    <3>3. await_resp' = FALSE
      BY <1>1, <3>1, <3>2 DEF RespInv, TypeOK
    <3> QED
      BY <3>1, <3>2, <3>3, FailedKeepsInv
  <2> QED
    BY <2>1, <2>2
<1>6. CASE CommandDrain
  <2>1. /\ pc[Portal] = "drain" /\ pc'[Portal] = "arm"
        /\ \A u \in Tasks : u # Portal => pc'[u] = pc[u]
        /\ pc' \in [Tasks -> WriterPcs \cup PortalPcs] /\ \A w \in Writers : pc'[w] \in WriterPcs
    BY <1>2, <1>3, <1>6 DEF CommandDrain
  <2>2. /\ resp_sem' = 0 /\ resp_frame' = NoFrame
        /\ UNCHANGED <<cmd_mutex, tx_mutex, await_resp, to_tcm, from_tcm, base_id, held,
                       frames, job, new_id, mine, quiet, reply>>
    BY <1>6 DEF CommandDrain, lineVars, idVars, jobVars
  <2>3. TypeOK'
    BY <1>1, <1>3, <2>1, <2>2 DEF TypeOK
  <2>4. MutexInv'
    BY <1>1, <2>1, <2>2, MutexStep
  <2>5. RespInv' /\ JobInv' /\ QuietInv'
    BY <1>1, <2>1, <2>2 DEF RespInv, JobInv, QuietInv
  <2> QED
    BY <1>1, <2>2, <2>3, <2>4, <2>5 DEF CommandInv
<1>7. CASE CommandArm
  <2>1. /\ pc[Portal] = "arm" /\ pc'[Portal] = "raw"
        /\ \A u \in Tasks : u # Portal => pc'[u] = pc[u]
        /\ pc' \in [Tasks -> WriterPcs \cup PortalPcs] /\ \A w \in Writers : pc'[w] \in WriterPcs
    BY <1>2, <1>3, <1>7 DEF CommandArm
  <2>2. /\ await_resp' = TRUE /\ quiet' = (quiet /\ to_tcm = <<>> /\ from_tcm = <<>>)
        /\ UNCHANGED <<cmd_mutex, tx_mutex, resp_sem, resp_frame, to_tcm, from_tcm, base_id, held,
                       frames, job, new_id, mine, reply>>
    BY <1>7 DEF CommandArm, lineVars, idVars
  <2>3. TypeOK'
    BY <1>1, <1>3, <2>1, <2>2 DEF TypeOK
  <2>4. MutexInv'
    BY <1>1, <2>1, <2>2, MutexStep
  <2>5. RespInv' /\ JobInv' /\ QuietInv'
    BY <1>1, <2>1, <2>2 DEF RespInv, JobInv, QuietInv
  <2> QED
    BY <1>1, <2>2, <2>3, <2>4, <2>5 DEF CommandInv
<1>8. CASE CommandTakeTx
  <2>1. PICK to \in {"write", "disarm"} :
          /\ pc[Portal] = "raw" /\ pc'[Portal] = to
          /\ \A u \in Tasks : u # Portal => pc'[u] = pc[u]
          /\ pc' \in [Tasks -> WriterPcs \cup PortalPcs] /\ \A w \in Writers : pc'[w] \in WriterPcs
          /\ IF to = "write" THEN tx_mutex = Nobody /\ tx_mutex' = Portal ELSE tx_mutex' = tx_mutex
    BY <1>2, <1>3, <1>8 DEF CommandTakeTx, TakeTx
  <2>2. UNCHANGED <<cmd_mutex, resp_sem, await_resp, resp_frame, to_tcm, from_tcm, base_id, held,
                    frames, job, new_id, mine, quiet, reply>>
    BY <1>8 DEF CommandTakeTx, respVars, lineVars, idVars, jobVars
  <2>3. TypeOK'
    BY <1>1, <1>3, <2>1, <2>2 DEF TypeOK
  <2>4. MutexInv'
    BY <1>1, <2>1, <2>2, MutexStep
  <2>5. RespInv' /\ JobInv' /\ QuietInv'
    BY <1>1, <2>1, <2>2 DEF RespInv, JobInv, QuietInv
  <2> QED
    BY <1>1, <2>2, <2>3, <2>4, <2>5 DEF CommandInv
<1>9. CASE CommandWrite
  <2> DEFINE f == [n |-> frames + 1, kind |-> IF job = "write" THEN "write" ELSE "read",
                   id |-> IF job = "write" THEN new_id ELSE NoId]
  <2>1. PICK to \in {"wait", "disarm"} :
          /\ pc[Portal] = "write" /\ pc'[Portal] = to
          /\ \A u \in Tasks : u # Portal => pc'[u] = pc[u]
          /\ pc' \in [Tasks -> WriterPcs \cup PortalPcs] /\ \A w \in Writers : pc'[w] \in WriterPcs
          /\ tx_mutex' = Nobody
          /\ IF to = "wait"
             THEN /\ frames < MaxFrames /\ frames' = frames + 1 /\ mine' = frames + 1
                  /\ to_tcm' = Append(to_tcm, f)
             ELSE UNCHANGED <<frames, to_tcm, mine>>
    BY <1>2, <1>3, <1>9 DEF CommandWrite, UartWrite, UartWriteFails
  <2>2. UNCHANGED <<cmd_mutex, resp_sem, await_resp, resp_frame, from_tcm, base_id, held,
                    job, new_id, quiet, reply>>
    BY <1>9 DEF CommandWrite, respVars, idVars
  <2>3. tx_mutex = Portal
    BY <1>1, <2>1 DEF MutexInv
  <2>4. MutexInv'
    BY <1>1, <2>1, <2>2, <2>3, MutexStep
  <2>5. RespInv' /\ JobInv'
    BY <1>1, <2>1, <2>2 DEF RespInv, JobInv
  <2>6. frames \in 0 .. MaxFrames /\ mine \in 0 .. MaxFrames /\ new_id \in Ids \cup {NoId} /\ reply = NoId
    BY <1>1, <2>1 DEF TypeOK, JobInv
  <2>7. frames' \in 0 .. MaxFrames /\ mine' \in 0 .. MaxFrames
    BY <2>1, <2>6, FramesAssumption
  <2>8. CASE to = "disarm"
    <3>1. TypeOK'
      BY <1>1, <1>3, <2>1, <2>2, <2>7, <2>8 DEF TypeOK
    <3>2. QuietInv'
      BY <1>1, <2>1, <2>2, <2>8 DEF QuietInv
    <3> QED
      BY <1>1, <2>1, <2>4, <2>5, <2>8, <3>1, <3>2 DEF CommandInv
  <2>9. CASE to = "wait"
    <3>1. frames + 1 \in 1 .. MaxFrames
      BY <2>1, <2>6, <2>9, FramesAssumption
    <3>2. f \in Frame /\ f \in SentFrame
      <4>1. job = "write" => new_id \in Ids
        BY <1>1 DEF JobInv
      <4> QED BY <2>6, <3>1, <4>1 DEF Frame, SentFrame
    <3>3. f.n = mine' /\ IF job = "write" THEN f.kind = "write" /\ f.id = new_id ELSE f.kind = "read"
      BY <2>1, <2>9
    <3>4. PICK g \in Frame : /\ g = f /\ g \in SentFrame /\ to_tcm' = Append(to_tcm, g)
                             /\ g.n = mine'
                             /\ IF job = "write" THEN g.kind = "write" /\ g.id = new_id ELSE g.kind = "read"
      BY <2>1, <2>9, <3>2, <3>3
    <3> HIDE DEF f
    <3>5. to_tcm' \in Seq(Frame) /\ to_tcm' \in Seq(SentFrame)
      BY <1>1, <3>4, LineTyped, SentTyped
    <3>6. TypeOK'
      BY <1>1, <1>3, <2>1, <2>2, <2>7, <2>9, <3>5 DEF TypeOK
    <3>7. OwnFrame(g)'
      BY <2>2, <3>4 DEF OwnFrame
    <3>8. Append(<<>>, g) = <<g>>
      OBVIOUS
    <3>9. quiet => Trace'
      BY <1>1, <2>1, <2>2, <3>4, <3>7, <3>8 DEF QuietInv, Trace, OwnFrame
    <3>11. QuietInv'
      BY <1>1, <2>1, <2>2, <2>6, <2>9, <3>9 DEF QuietInv
    <3> QED
      BY <2>4, <2>5, <3>5, <3>6, <3>11 DEF CommandInv
  <2> QED
    BY <2>8, <2>9
<1>10. CASE CommandSignalled
  <2>1. /\ pc[Portal] = "wait" /\ pc'[Portal] = "copy"
        /\ \A u \in Tasks : u # Portal => pc'[u] = pc[u]
        /\ pc' \in [Tasks -> WriterPcs \cup PortalPcs] /\ \A w \in Writers : pc'[w] \in WriterPcs
    BY <1>2, <1>3, <1>10 DEF CommandSignalled
  <2>2. /\ resp_sem = 1 /\ resp_sem' = 0
        /\ UNCHANGED <<cmd_mutex, tx_mutex, await_resp, resp_frame, to_tcm, from_tcm, base_id, held,
                       frames, job, new_id, mine, quiet, reply>>
    BY <1>10 DEF CommandSignalled, lineVars, idVars, jobVars
  <2>3. TypeOK'
    BY <1>1, <1>3, <2>1, <2>2 DEF TypeOK
  <2>4. MutexInv'
    BY <1>1, <2>1, <2>2, MutexStep
  <2>5. RespInv' /\ JobInv'
    BY <1>1, <2>1, <2>2 DEF RespInv, JobInv
  <2>6. QuietInv'
    BY <1>1, <2>1, <2>2 DEF QuietInv, Trace, OwnFrame, OwnResponse
  <2> QED
    BY <1>1, <2>2, <2>3, <2>4, <2>5, <2>6 DEF CommandInv
<1>11. CASE CommandTimeout
  <2>1. /\ pc[Portal] = "wait" /\ pc'[Portal] = "disarm"
        /\ \A u \in Tasks : u # Portal => pc'[u] = pc[u]
        /\ pc' \in [Tasks -> WriterPcs \cup PortalPcs] /\ \A w \in Writers : pc'[w] \in WriterPcs
    BY <1>2, <1>3, <1>11 DEF CommandTimeout
  <2>2. UNCHANGED <<cmd_mutex, tx_mutex, resp_sem, await_resp, resp_frame, to_tcm, from_tcm, base_id, held,
                    frames, job, new_id, mine, quiet, reply>>
    BY <1>11 DEF CommandTimeout, respVars, lineVars, idVars, jobVars
  <2>3. TypeOK'
    BY <1>1, <1>3, <2>1, <2>2 DEF TypeOK
  <2>4. MutexInv'
    BY <1>1, <2>1, <2>2, MutexStep
  <2>5. RespInv' /\ JobInv' /\ QuietInv'
    BY <1>1, <2>1, <2>2 DEF RespInv, JobInv, QuietInv
  <2> QED
    BY <1>1, <2>2, <2>3, <2>4, <2>5 DEF CommandInv
<1>12. CASE CommandDisarm
  <2>1. /\ Go(Portal, "disarm", "idle") /\ CommandFailed /\ await_resp' = FALSE /\ cmd_mutex' = Nobody
        /\ UNCHANGED <<tx_mutex, resp_sem, resp_frame, lineVars, frames>>
    BY <1>12 DEF CommandDisarm
  <2>2. pc[Portal] = "disarm" /\ Go(Portal, pc[Portal], "idle")
    BY <2>1 DEF Go
  <2> QED
    BY <2>1, <2>2, FailedKeepsInv
<1>13. CASE CommandCopy
  <2>1. /\ pc[Portal] = "copy" /\ cmd_mutex' = Nobody /\ cmd_mutex = Portal /\ ~await_resp
        /\ resp_frame # NoFrame
        /\ UNCHANGED <<tx_mutex, resp_sem, await_resp, resp_frame, to_tcm, from_tcm, base_id, held, frames>>
    BY <1>1, <1>13 DEF CommandCopy, respVars, lineVars, idVars, MutexInv, RespInv
  <2>2. quiet => to_tcm = <<>> /\ from_tcm = <<>> /\ OwnResponse(resp_frame)
    BY <1>1, <2>1 DEF QuietInv, Trace
  <2>4. reply = NoId
    BY <1>1, <2>1 DEF JobInv
  <2>5. CASE job = "write" /\ resp_frame.ok
    <3>1. Go(Portal, "copy", "lock") /\ job' = "verify" /\ UNCHANGED <<new_id, mine, quiet, reply>>
      BY <1>13, <2>1, <2>5 DEF CommandCopy, Go
    <3>2. /\ pc'[Portal] = "lock" /\ \A u \in Tasks : u # Portal => pc'[u] = pc[u]
          /\ pc' \in [Tasks -> WriterPcs \cup PortalPcs] /\ \A w \in Writers : pc'[w] \in WriterPcs
      BY <1>2, <1>3, <3>1
    <3>3. TypeOK'
      BY <1>1, <1>3, <2>1, <3>1, <3>2 DEF TypeOK
    <3>4. MutexInv'
      BY <1>1, <2>1, <3>2, MutexStep
    <3>5. RespInv' /\ JobInv'
      BY <1>1, <2>1, <2>4, <2>5, <3>1, <3>2 DEF RespInv, JobInv
    <3>6. QuietInv'
      BY <2>1, <2>2, <2>4, <2>5, <3>1, <3>2 DEF QuietInv, OwnResponse
    <3> QED
      BY <1>1, <2>1, <3>3, <3>4, <3>5, <3>6 DEF CommandInv
  <2>6. CASE job # "write" /\ resp_frame.ok /\ resp_frame.base # NoId
    <3>1. /\ Go(Portal, "copy", "idle") /\ job' = "none" /\ reply' = resp_frame.base
          /\ new_id' = NoId /\ UNCHANGED <<mine, quiet>>
      BY <1>13, <2>1, <2>6 DEF CommandCopy, Go
    <3>2. /\ pc'[Portal] = "idle" /\ \A u \in Tasks : u # Portal => pc'[u] = pc[u]
          /\ pc' \in [Tasks -> WriterPcs \cup PortalPcs] /\ \A w \in Writers : pc'[w] \in WriterPcs
      BY <1>2, <1>3, <3>1
    <3>3. resp_frame.base \in Ids
      BY <1>1, <2>1, <2>6 DEF TypeOK, Response
    <3>4. TypeOK'
      BY <1>1, <1>3, <2>1, <3>1, <3>2, <3>3 DEF TypeOK
    <3>5. MutexInv'
      BY <1>1, <2>1, <3>2, MutexStep
    <3>6. RespInv' /\ JobInv'
      BY <1>1, <2>1, <3>1, <3>2 DEF RespInv, JobInv
    <3>7. QuietInv'
      BY <2>1, <2>2, <2>6, <3>1, <3>2 DEF QuietInv, OwnResponse
    <3> QED
      BY <1>1, <2>1, <3>4, <3>5, <3>6, <3>7 DEF CommandInv
  <2>7. CASE ~(job = "write" /\ resp_frame.ok) /\ ~(job # "write" /\ resp_frame.ok /\ resp_frame.base # NoId)
    <3>1. Go(Portal, pc[Portal], "idle") /\ CommandFailed
      BY <1>13, <2>1, <2>7 DEF CommandCopy, Go
    <3>2. UNCHANGED <<tx_mutex, resp_frame, lineVars, frames>> /\ await_resp' = FALSE
      BY <1>1, <2>1 DEF lineVars, idVars, TypeOK
    <3> QED
      BY <2>1, <3>1, <3>2, FailedKeepsInv
  <2> QED
    BY <2>5, <2>6, <2>7
<1> QED
  BY <1>4, <1>5, <1>6, <1>7, <1>8, <1>9, <1>10, <1>11, <1>12, <1>13 DEF Command

LEMMA InitInv == Init => CommandInv
<1> SUFFICES ASSUME Init PROVE CommandInv
  OBVIOUS
<1>1. /\ pc = [t \in Tasks |-> "idle"] /\ Portal \in Tasks
      /\ \A t \in Tasks : pc[t] = "idle" /\ t # Nobody
  BY PortalIsTask, NobodyIsNoTask DEF Init
<1>2. 0 \in 0 .. MaxFrames
  BY FramesAssumption
<1>3. <<>> \in Seq(Frame) /\ <<>> \in Seq(SentFrame) /\ <<>> \in Seq(Response)
  OBVIOUS
<1>4. TypeOK
  BY <1>1, <1>2, <1>3, PortalIsTask DEF Init, TypeOK, WriterPcs, PortalPcs
<1>5. MutexInv /\ RespInv /\ JobInv /\ QuietInv
  BY <1>1 DEF Init, MutexInv, RespInv, JobInv, QuietInv
<1> QED
  BY <1>3, <1>4, <1>5 DEF Init, CommandInv

LEMMA StepKeepsInv ==
  ASSUME CommandInv, [Next]_vars
  PROVE  CommandInv'
<1>1. CASE UNCHANGED vars
  <2>1. UNCHANGED <<pc, cmd_mutex, tx_mutex, resp_sem, await_resp, resp_frame, to_tcm, from_tcm,
                    base_id, held, frames, job, new_id, mine, quiet, reply>>
    BY <1>1 DEF vars, respVars, lineVars, idVars, jobVars
  <2>2. TypeOK'
    BY <2>1 DEF CommandInv, TypeOK
  <2>3. MutexInv' /\ RespInv' /\ JobInv'
    BY <2>1 DEF CommandInv, MutexInv, RespInv, JobInv
  <2>4. QuietInv'
    BY <2>1 DEF CommandInv, QuietInv, Trace, OwnFrame, OwnResponse
  <2> QED
    BY <2>1, <2>2, <2>3, <2>4 DEF CommandInv
<1> QED
  BY <1>1, PortalKeepsInv, TcmKeepsInv, ObserveKeepsInv, WriterKeepsInv DEF Next

-----------------------------------------------------------------------------
(* The inductive invariant of the line, the two mutexes and the response.  *)
THEOREM CommandInvariant == Spec => []CommandInv
<1>1. CommandInv /\ [Next]_vars => CommandInv'
  BY StepKeepsInv
<1> QED
  BY InitInv, <1>1, PTL DEF Spec

(* Types; a woken command finds a response; the inner mutex is free        *)
(* whenever a task asks for it (enocean_uart.c:158-193, 220-238).          *)
THEOREM CommandSafe == Spec => []Safety
<1>1. CommandInv => Safety
  <2> SUFFICES ASSUME CommandInv PROVE Safety
    OBVIOUS
  <2>1. TypeOK /\ MutexInv /\ RespInv
    BY DEF CommandInv
  <2>2. SignalHasResponse
    BY <2>1 DEF RespInv, SignalHasResponse
  <2>3. TxUncontended
    <3> SUFFICES ASSUME NEW t \in Tasks, pc[t] = "raw", tx_mutex # Nobody PROVE FALSE
      BY DEF TxUncontended
    <3>1. tx_mutex \in Tasks
      BY <2>1 DEF TypeOK
    <3>2. pc[tx_mutex] = "write" /\ cmd_mutex = tx_mutex /\ cmd_mutex = t
      BY <2>1, <3>1 DEF MutexInv
    <3> QED
      BY <3>2
  <2> QED
    BY <2>1, <2>2, <2>3 DEF Safety
<1> QED
  BY CommandInvariant, <1>1, PTL

(* A command armed on a quiet line gets its own answer, whatever any       *)
(* number of clients try to send meanwhile (enocean_uart.c:182-193).       *)
THEOREM AnswerIsOwn == Spec => []QuietAnswerIsOwn
<1>1. CommandInv => QuietAnswerIsOwn
  BY DEF CommandInv, RespInv, QuietInv, Trace, OwnResponse, QuietAnswerIsOwn
<1> QED
  BY CommandInvariant, <1>1, PTL

(* Then a base ID the portal states is one the TCM515 has had since the    *)
(* request, or since it stored the one the portal sent, whatever base IDs  *)
(* the clients' frames store meanwhile (http_portal.c:644-695).            *)
THEOREM ReplyIsTrue == Spec => []QuietReplyIsTrue
<1>1. CommandInv => QuietReplyIsTrue
  BY DEF CommandInv, QuietInv, QuietReplyIsTrue
<1> QED
  BY CommandInvariant, <1>1, PTL

=============================================================================
