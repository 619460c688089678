------------------------------ MODULE TcpServer ------------------------------
(***************************************************************************)
(* The client slots of the raw ESP3 TCP server (src/main/tcp_server.c).    *)
(*                                                                         *)
(* One accept task hands accepted sockets to a fixed array of slots.  Each *)
(* used slot is shared, mostly without a lock, by an RX task (handshake,   *)
(* recv loop, clean-up) and a TX task (drains the slot's stream buffer),   *)
(* and is written to by the UART reader, which broadcasts every chunk it   *)
(* reads.  s_slots_mtx protects handing out, freeing and broadcasting;     *)
(* the tasks of a slot only synchronise through active, tx_running and the *)
(* shutdown() of their socket.  Every access of a task to a shared field   *)
(* that another task may change is a step of its own.                      *)
(*                                                                         *)
(* Abstracted: payload bytes are counted, not told apart; the handshake    *)
(* dialogue and the rate limiter (module RateLimit) appear here by their   *)
(* outcomes only.  Counters and log calls are left out.                    *)
(*                                                                         *)
(* Operators whose comment begins with "Fault:" are wrong on purpose: each *)
(* is a slip that could be made in the definition below it, and shows that *)
(* a property notices it.                                                  *)
(***************************************************************************)
EXTENDS Integers

CONSTANTS
  MaxClients,  \* CONFIG_EUL_MAX_CLIENTS
  Fds,         \* socket descriptors lwIP can hand out
  NoFd,        \* the value -1 of a sock field
  StreamSize,  \* CONFIG_EUL_CLIENT_TX_STREAM_SIZE, in bytes
  ChunkLens,   \* lengths of the UART chunks that are broadcast
  AuthReq      \* s_auth_req: the server was started with auth_required

ASSUME MaxClientsAssumption == MaxClients \in Nat \ {0}
ASSUME StreamSizeAssumption == StreamSize \in Nat \ {0}
ASSUME ChunkLensAssumption  == ChunkLens \subseteq Nat \ {0}
ASSUME AuthReqAssumption    == AuthReq \in BOOLEAN
ASSUME NoFdAssumption       == NoFd \notin Fds

Slots == 0 .. MaxClients - 1
NoBuf == -1      \* a tx field that is NULL

VARIABLES
  in_use, active, authed, cleaned, tx_running,  \* the flags of s_clients[i]
  sock,       \* s_clients[i].sock
  tx,         \* bytes queued in s_clients[i].tx, or NoBuf
  fds,        \* lwIP's view of every descriptor: closed, open, shut down
  mtx,        \* holder of s_slots_mtx across steps: free, acc or uart
  rx_pc,      \* where client_rx_task of a slot stands ("none": no such task)
  tx_pc,      \* where client_tx_task of a slot stands
  acc_pc,     \* where accept_task stands
  acc_fd,     \* accept_task's local csock
  acc_slot,   \* spawn_client's local slot
  uart_pc,    \* where tcp_server_broadcast stands
  uart_slot,  \* its loop index
  uart_len    \* its argument len

flagVars == <<in_use, active, authed, cleaned, tx_running>>
slotVars == <<flagVars, sock, tx>>
accVars  == <<acc_pc, acc_fd, acc_slot>>
uartVars == <<uart_pc, uart_slot, uart_len>>
vars     == <<slotVars, fds, mtx, rx_pc, tx_pc, accVars, uartVars>>

RxPcs   == {"none", "start", "auth", "accepted", "delay", "loop", "recv",
            "feed", "down", "shut", "wait", "close"}
TxPcs   == {"none", "start", "loop", "take", "send", "shut", "fin"}
AccPcs  == {"setup", "dead", "accept", "check", "spawn", "nobuf", "mkrx",
            "mktx", "undo_run", "undo_act", "undo_shut"}
UartPcs == {"idle", "lock", "check", "send"}

TypeOK ==
  /\ in_use \in [Slots -> BOOLEAN] /\ active \in [Slots -> BOOLEAN]
  /\ authed \in [Slots -> BOOLEAN] /\ cleaned \in [Slots -> BOOLEAN]
  /\ tx_running \in [Slots -> BOOLEAN]
  /\ sock \in [Slots -> Fds \cup {NoFd}]
  /\ tx \in [Slots -> {NoBuf} \cup (0 .. StreamSize)]
  /\ fds \in [Fds -> {"closed", "open", "shut"}]
  /\ mtx \in {"free", "acc", "uart"}
  /\ rx_pc \in [Slots -> RxPcs]
  /\ tx_pc \in [Slots -> TxPcs]
  /\ acc_pc \in AccPcs
  /\ acc_fd \in Fds \cup {NoFd}
  /\ acc_slot \in Slots
  /\ uart_pc \in UartPcs
  /\ uart_slot \in 0 .. MaxClients
  /\ uart_len \in ChunkLens \cup {0}

(* The state tcp_server_start leaves: zeroed slots, no sockets, the accept *)
(* task created.                                                           *)
Init ==
  /\ in_use     = [s \in Slots |-> FALSE]
  /\ active     = [s \in Slots |-> FALSE]
  /\ authed     = [s \in Slots |-> FALSE]
  /\ cleaned    = [s \in Slots |-> FALSE]
  /\ tx_running = [s \in Slots |-> FALSE]
  /\ sock  = [s \in Slots |-> NoFd]
  /\ tx    = [s \in Slots |-> NoBuf]
  /\ fds   = [f \in Fds |-> "closed"]
  /\ mtx   = "free"
  /\ rx_pc = [s \in Slots |-> "none"]
  /\ tx_pc = [s \in Slots |-> "none"]
  /\ acc_pc = "setup" /\ acc_fd = NoFd /\ acc_slot = 0
  /\ uart_pc = "idle" /\ uart_slot = 0 /\ uart_len = 0

-----------------------------------------------------------------------------
(* Socket calls on a slot's descriptor.                                    *)

ShutFd(f) == [fds EXCEPT ![f] = IF @ = "open" THEN "shut" ELSE @]

(* shutdown(c->sock, SHUT_RDWR) behind its test c->sock >= 0. *)
ShutdownSock(s) == fds' = IF sock[s] # NoFd THEN ShutFd(sock[s]) ELSE fds

(* close_slot_locked: idempotent through cleaned; in_use is released last, *)
(* so the five flags, the descriptor and the buffer go together under the  *)
(* mutex.                                                                  *)
CloseSlotLocked(s) ==
  IF cleaned[s]
  THEN UNCHANGED <<slotVars, fds>>
  ELSE /\ cleaned' = [cleaned EXCEPT ![s] = TRUE]
       /\ fds' = IF sock[s] # NoFd THEN [fds EXCEPT ![sock[s]] = "closed"] ELSE fds
       /\ sock'   = [sock   EXCEPT ![s] = NoFd]
       /\ tx'     = [tx     EXCEPT ![s] = NoBuf]
       /\ active' = [active EXCEPT ![s] = FALSE]
       /\ authed' = [authed EXCEPT ![s] = FALSE]
       /\ in_use' = [in_use EXCEPT ![s] = FALSE]
       /\ UNCHANGED tx_running

-----------------------------------------------------------------------------
(* accept_task, with spawn_client inlined.                                 *)

GoAcc(from, to) == acc_pc = from /\ acc_pc' = to

(* socket, bind and listen succeed, or the task deletes itself. *)
AccSetup ==
  /\ \E to \in {"accept", "dead"} : GoAcc("setup", to)
  /\ UNCHANGED <<slotVars, fds, mtx, rx_pc, tx_pc, acc_fd, acc_slot, uartVars>>

(* accept() returns a descriptor that was closed before. *)
AccAccept ==
  /\ GoAcc("accept", "check")
  /\ \E f \in Fds :
        /\ fds[f] = "closed"
        /\ fds' = [fds EXCEPT ![f] = "open"]
        /\ acc_fd' = f
  /\ UNCHANGED <<slotVars, mtx, rx_pc, tx_pc, acc_slot, uartVars>>

(* The rate limiter (only with auth) or the heap guard refuses. *)
AccRefuse ==
  /\ GoAcc("check", "accept")
  /\ fds' = [fds EXCEPT ![acc_fd] = "closed"]
  /\ acc_fd' = NoFd
  /\ UNCHANGED <<slotVars, mtx, rx_pc, tx_pc, acc_slot, uartVars>>

AccAdmit ==
  /\ GoAcc("check", "spawn")
  /\ UNCHANGED <<slotVars, fds, mtx, rx_pc, tx_pc, acc_fd, acc_slot, uartVars>>

(* Fault: the accepted socket is not closed. *)
SpawnNoSlotLeaks ==
  /\ GoAcc("spawn", "accept")
  /\ mtx = "free"
  /\ \A s \in Slots : in_use[s]
  /\ acc_fd' = NoFd
  /\ UNCHANGED <<slotVars, fds, mtx, rx_pc, tx_pc, acc_slot, uartVars>>

(* No slot is free: spawn_client gives the mutex back and closes the       *)
(* socket itself.                                                          *)
SpawnNoSlot ==
  /\ GoAcc("spawn", "accept")
  /\ mtx = "free"
  /\ \A s \in Slots : in_use[s]
  /\ fds' = [fds EXCEPT ![acc_fd] = "closed"]
  /\ acc_fd' = NoFd
  /\ UNCHANGED <<slotVars, mtx, rx_pc, tx_pc, acc_slot, uartVars>>

(* The first free slot is zeroed and filled in; xStreamBufferCreate may    *)
(* fail.  The mutex stays taken.  Other tasks do not look at a slot that   *)
(* is not in use, and the broadcaster needs the mutex.                     *)
SpawnTakeSlot ==
  /\ mtx = "free"
  /\ \E s \in Slots :
        /\ ~in_use[s]
        /\ \A t \in 0 .. s - 1 : in_use[t]
        /\ in_use'     = [in_use     EXCEPT ![s] = TRUE]
        /\ active'     = [active     EXCEPT ![s] = TRUE]
        /\ authed'     = [authed     EXCEPT ![s] = ~AuthReq]
        /\ cleaned'    = [cleaned    EXCEPT ![s] = FALSE]
        /\ tx_running' = [tx_running EXCEPT ![s] = TRUE]
        /\ sock'       = [sock       EXCEPT ![s] = acc_fd]
        /\ acc_slot'   = s
        /\ \/ GoAcc("spawn", "mkrx")  /\ tx' = [tx EXCEPT ![s] = 0]
           \/ GoAcc("spawn", "nobuf") /\ tx' = [tx EXCEPT ![s] = NoBuf]
  /\ mtx' = "acc"
  /\ acc_fd' = NoFd
  /\ UNCHANGED <<fds, rx_pc, tx_pc, uartVars>>

(* No stream buffer, or no memory for the RX task: no task runs, the slot  *)
(* is closed on the spot.                                                  *)
SpawnAbort ==
  /\ acc_pc \in {"nobuf", "mkrx"}
  /\ acc_pc' = "accept"
  /\ CloseSlotLocked(acc_slot)
  /\ mtx' = "free"
  /\ UNCHANGED <<rx_pc, tx_pc, acc_fd, acc_slot, uartVars>>

SpawnRxTask ==
  /\ GoAcc("mkrx", "mktx")
  /\ rx_pc' = [rx_pc EXCEPT ![acc_slot] = "start"]
  /\ UNCHANGED <<slotVars, fds, mtx, tx_pc, acc_fd, acc_slot, uartVars>>

SpawnTxTask ==
  /\ GoAcc("mktx", "accept")
  /\ tx_pc' = [tx_pc EXCEPT ![acc_slot] = "start"]
  /\ mtx' = "free"
  /\ UNCHANGED <<slotVars, fds, rx_pc, acc_fd, acc_slot, uartVars>>

(* The TX task cannot be created while the RX task already runs: three     *)
(* unsynchronised writes make the RX task clean up.                        *)
SpawnTxFails ==
  /\ GoAcc("mktx", "undo_run")
  /\ UNCHANGED <<slotVars, fds, mtx, rx_pc, tx_pc, acc_fd, acc_slot, uartVars>>

UndoTxRunning ==
  /\ GoAcc("undo_run", "undo_act")
  /\ tx_running' = [tx_running EXCEPT ![acc_slot] = FALSE]
  /\ UNCHANGED <<in_use, active, authed, cleaned, sock, tx, fds, mtx, rx_pc,
                 tx_pc, acc_fd, acc_slot, uartVars>>

UndoActive ==
  /\ GoAcc("undo_act", "undo_shut")
  /\ active' = [active EXCEPT ![acc_slot] = FALSE]
  /\ UNCHANGED <<in_use, authed, cleaned, tx_running, sock, tx, fds, mtx, rx_pc,
                 tx_pc, acc_fd, acc_slot, uartVars>>

UndoShutdown ==
  /\ GoAcc("undo_shut", "accept")
  /\ ShutdownSock(acc_slot)
  /\ mtx' = "free"
  /\ UNCHANGED <<slotVars, rx_pc, tx_pc, acc_fd, acc_slot, uartVars>>

Accept ==
  \/ AccSetup \/ AccAccept \/ AccRefuse \/ AccAdmit
  \/ SpawnNoSlot \/ SpawnTakeSlot \/ SpawnAbort \/ SpawnRxTask \/ SpawnTxTask
  \/ SpawnTxFails \/ UndoTxRunning \/ UndoActive \/ UndoShutdown

-----------------------------------------------------------------------------
(* client_rx_task of slot s.                                               *)

GoRx(s, from, to) == rx_pc[s] = from /\ rx_pc' = [rx_pc EXCEPT ![s] = to]

RxStart(s) ==
  /\ \/ active[s] /\ ~authed[s] /\ GoRx(s, "start", "auth")
     \/ ~(active[s] /\ ~authed[s]) /\ GoRx(s, "start", "loop")
  /\ UNCHANGED <<slotVars, fds, mtx, tx_pc, accVars, uartVars>>

(* do_auth_handshake succeeds: the line carries the token and "OK" could   *)
(* be sent, so the socket has not been shut down yet.                      *)
RxHandshakeOk(s) ==
  /\ GoRx(s, "auth", "accepted")
  /\ fds[sock[s]] = "open"
  /\ UNCHANGED <<slotVars, fds, mtx, tx_pc, accVars, uartVars>>

(* Timeout, wrong line, peer gone or a failed send; 500 ms penalty. *)
RxHandshakeFails(s) ==
  /\ GoRx(s, "auth", "delay")
  /\ UNCHANGED <<slotVars, fds, mtx, tx_pc, accVars, uartVars>>

RxSetAuthed(s) ==
  /\ GoRx(s, "accepted", "loop")
  /\ authed' = [authed EXCEPT ![s] = TRUE]
  /\ UNCHANGED <<in_use, active, cleaned, tx_running, sock, tx, fds, mtx, tx_pc,
                 accVars, uartVars>>

RxReject(s) ==
  /\ GoRx(s, "delay", "loop")
  /\ active' = [active EXCEPT ![s] = FALSE]
  /\ UNCHANGED <<in_use, authed, cleaned, tx_running, sock, tx, fds, mtx, tx_pc,
                 accVars, uartVars>>

RxLoop(s) ==
  /\ GoRx(s, "loop", IF active[s] THEN "recv" ELSE "down")
  /\ UNCHANGED <<slotVars, fds, mtx, tx_pc, accVars, uartVars>>

(* recv returns data, which is then fed to the slot's parser: frames are   *)
(* written to the UART while other tasks run.                              *)
RxRecvData(s) ==
  /\ GoRx(s, "recv", "feed")
  /\ UNCHANGED <<slotVars, fds, mtx, tx_pc, accVars, uartVars>>

RxFeed(s) ==
  /\ GoRx(s, "feed", "loop")
  /\ UNCHANGED <<slotVars, fds, mtx, tx_pc, accVars, uartVars>>

(* recv returns 0 or an error: the peer left, or the socket was shut down  *)
(* by another task; EINTR and EAGAIN go round the loop.                    *)
RxRecvEnds(s) ==
  /\ \E to \in {"loop", "down"} : GoRx(s, "recv", to)
  /\ UNCHANGED <<slotVars, fds, mtx, tx_pc, accVars, uartVars>>

RxDown(s) ==
  /\ GoRx(s, "down", "shut")
  /\ active' = [active EXCEPT ![s] = FALSE]
  /\ UNCHANGED <<in_use, authed, cleaned, tx_running, sock, tx, fds, mtx, tx_pc,
                 accVars, uartVars>>

RxShutdown(s) ==
  /\ GoRx(s, "shut", "wait")
  /\ ShutdownSock(s)
  /\ UNCHANGED <<slotVars, mtx, tx_pc, accVars, uartVars>>

(* Fault: does not wait. *)
RxWaitTxNot(s) ==
  /\ GoRx(s, "wait", "close")
  /\ UNCHANGED <<slotVars, fds, mtx, tx_pc, accVars, uartVars>>

(* The 25 ms polling loop on tx_running, without a limit. *)
RxWaitTx(s) ==
  /\ GoRx(s, "wait", "close")
  /\ ~tx_running[s]
  /\ UNCHANGED <<slotVars, fds, mtx, tx_pc, accVars, uartVars>>

(* close_slot, then the task deletes itself. *)
RxClose(s) ==
  /\ GoRx(s, "close", "none")
  /\ mtx = "free"
  /\ CloseSlotLocked(s)
  /\ UNCHANGED <<mtx, tx_pc, accVars, uartVars>>

Rx(s) ==
  \/ RxStart(s) \/ RxHandshakeOk(s) \/ RxHandshakeFails(s) \/ RxSetAuthed(s)
  \/ RxReject(s) \/ RxLoop(s) \/ RxRecvData(s) \/ RxFeed(s) \/ RxRecvEnds(s)
  \/ RxDown(s) \/ RxShutdown(s) \/ RxWaitTx(s) \/ RxClose(s)

-----------------------------------------------------------------------------
(* client_tx_task of slot s.                                               *)

GoTx(s, from, to) == tx_pc[s] = from /\ tx_pc' = [tx_pc EXCEPT ![s] = to]

(* Fault: also marks the slot active. *)
TxStartRevives(s) ==
  /\ GoTx(s, "start", "loop")
  /\ tx_running' = [tx_running EXCEPT ![s] = TRUE]
  /\ active' = [active EXCEPT ![s] = TRUE]
  /\ UNCHANGED <<in_use, authed, cleaned, sock, tx, fds, mtx, rx_pc, accVars, uartVars>>

TxStart(s) ==
  /\ GoTx(s, "start", "loop")
  /\ tx_running' = [tx_running EXCEPT ![s] = TRUE]
  /\ UNCHANGED <<in_use, active, authed, cleaned, sock, tx, fds, mtx, rx_pc,
                 accVars, uartVars>>

TxLoop(s) ==
  /\ GoTx(s, "loop", IF active[s] THEN "take" ELSE "shut")
  /\ UNCHANGED <<slotVars, fds, mtx, rx_pc, accVars, uartVars>>

(* xStreamBufferReceive: everything that is queued (its buffer is smaller  *)
(* than the stream only in the real sizes), or nothing within 200 ms.      *)
TxTake(s) ==
  /\ \/ tx[s] = 0 /\ GoTx(s, "take", "loop") /\ UNCHANGED tx
     \/ /\ tx[s] > 0
        /\ GoTx(s, "take", "send")
        /\ \E n \in 1 .. tx[s] : tx' = [tx EXCEPT ![s] = @ - n]
  /\ UNCHANGED <<flagVars, sock, fds, mtx, rx_pc, accVars, uartVars>>

(* The inner loop ends: everything was sent, or active was cleared. *)
TxSendDone(s) ==
  /\ GoTx(s, "send", "loop")
  /\ fds[sock[s]] = "open" \/ ~active[s]
  /\ UNCHANGED <<slotVars, fds, mtx, rx_pc, accVars, uartVars>>

(* send() fails: a broken connection, or the socket was shut down. *)
TxSendFails(s) ==
  /\ GoTx(s, "send", "loop")
  /\ active' = [active EXCEPT ![s] = FALSE]
  /\ UNCHANGED <<in_use, authed, cleaned, tx_running, sock, tx, fds, mtx, rx_pc,
                 accVars, uartVars>>

(* Fault: leaves the RX task in recv. *)
TxShutdownNot(s) ==
  /\ GoTx(s, "shut", "fin")
  /\ UNCHANGED <<slotVars, fds, mtx, rx_pc, accVars, uartVars>>

TxShutdown(s) ==
  /\ GoTx(s, "shut", "fin")
  /\ ShutdownSock(s)
  /\ UNCHANGED <<slotVars, mtx, rx_pc, accVars, uartVars>>

(* tx_running = false is the task's last access to the slot. *)
TxEnd(s) ==
  /\ GoTx(s, "fin", "none")
  /\ tx_running' = [tx_running EXCEPT ![s] = FALSE]
  /\ UNCHANGED <<in_use, active, authed, cleaned, sock, tx, fds, mtx, rx_pc,
                 accVars, uartVars>>

Tx(s) ==
  \/ TxStart(s) \/ TxLoop(s) \/ TxTake(s) \/ TxSendDone(s) \/ TxSendFails(s)
  \/ TxShutdown(s) \/ TxEnd(s)

-----------------------------------------------------------------------------
(* tcp_server_broadcast, called by the UART reader task.                   *)

(* A chunk arrives; the task then blocks on the mutex. *)
BroadcastCall ==
  /\ uart_pc = "idle"
  /\ uart_pc' = "lock"
  /\ uart_len' \in ChunkLens
  /\ UNCHANGED <<slotVars, fds, mtx, rx_pc, tx_pc, accVars, uart_slot>>

BroadcastLock ==
  /\ uart_pc = "lock"
  /\ mtx = "free"
  /\ mtx' = "uart"
  /\ uart_pc' = "check"
  /\ uart_slot' = 0
  /\ UNCHANGED <<slotVars, fds, rx_pc, tx_pc, accVars, uart_len>>

(* Fault: the handshake is not asked for. *)
WantsChunkUnauthed(s) == active[s] /\ tx[s] # NoBuf /\ tx[s] + uart_len <= StreamSize

(* A slot that is active, authenticated, has a stream buffer and room for  *)
(* the whole chunk. *)
WantsChunk(s) == /\ active[s] /\ authed[s] /\ tx[s] # NoBuf
                 /\ tx[s] + uart_len <= StreamSize

(* Fault: waits until the client has taken enough. *)
BroadcastCheckWaits ==
  /\ uart_pc = "check"
  /\ uart_slot < MaxClients
  /\ IF active[uart_slot] /\ authed[uart_slot] /\ tx[uart_slot] # NoBuf
     THEN tx[uart_slot] + uart_len <= StreamSize /\ uart_pc' = "send" /\ UNCHANGED uart_slot
     ELSE uart_slot' = uart_slot + 1 /\ UNCHANGED uart_pc
  /\ UNCHANGED <<slotVars, fds, mtx, rx_pc, tx_pc, accVars, uart_len>>

BroadcastCheck ==
  /\ uart_pc = "check"
  /\ uart_slot < MaxClients
  /\ IF WantsChunk(uart_slot)
     THEN uart_pc' = "send" /\ UNCHANGED uart_slot
     ELSE uart_slot' = uart_slot + 1 /\ UNCHANGED uart_pc
  /\ UNCHANGED <<slotVars, fds, mtx, rx_pc, tx_pc, accVars, uart_len>>

(* Fault: queues one byte more than it tested for. *)
BroadcastSendMore ==
  /\ uart_pc = "send"
  /\ tx' = [tx EXCEPT ![uart_slot] = @ + uart_len + 1]
  /\ uart_pc' = "check"
  /\ uart_slot' = uart_slot + 1
  /\ UNCHANGED <<flagVars, sock, fds, mtx, rx_pc, tx_pc, accVars, uart_len>>

BroadcastSend ==
  /\ uart_pc = "send"
  /\ tx' = [tx EXCEPT ![uart_slot] = @ + uart_len]
  /\ uart_pc' = "check"
  /\ uart_slot' = uart_slot + 1
  /\ UNCHANGED <<flagVars, sock, fds, mtx, rx_pc, tx_pc, accVars, uart_len>>

BroadcastUnlock ==
  /\ uart_pc = "check"
  /\ uart_slot = MaxClients
  /\ mtx' = "free"
  /\ uart_pc' = "idle" /\ uart_slot' = 0 /\ uart_len' = 0
  /\ UNCHANGED <<slotVars, fds, rx_pc, tx_pc, accVars>>

Broadcast == \/ BroadcastCall \/ BroadcastLock \/ BroadcastCheck
             \/ BroadcastSend \/ BroadcastUnlock

-----------------------------------------------------------------------------
Next == \/ Accept
        \/ Broadcast
        \/ \E s \in Slots : Rx(s) \/ Tx(s)

Spec == Init /\ [][Next]_vars

(***************************************************************************)
(* Fairness.  FreeRTOS runs every ready task eventually; what a task waits *)
(* for decides the rest:                                                   *)
(*  - recv and send return once the socket is shut down; with an open      *)
(*    socket they wait for the peer, about which nothing is assumed;       *)
(*  - the handshake ends by its receive timeout;                           *)
(*  - a task waiting for s_slots_mtx gets it although others take it in    *)
(*    between (strong fairness): the mutex is a priority queue and its     *)
(*    holders never block while they hold it.                              *)
(***************************************************************************)
RxFair(s) ==
  /\ WF_vars(RxStart(s)) /\ WF_vars(RxHandshakeFails(s)) /\ WF_vars(RxSetAuthed(s))
  /\ WF_vars(RxReject(s)) /\ WF_vars(RxLoop(s)) /\ WF_vars(RxFeed(s))
  /\ WF_vars(sock[s] # NoFd /\ fds[sock[s]] = "shut" /\ RxRecvEnds(s))
  /\ WF_vars(RxDown(s)) /\ WF_vars(RxShutdown(s)) /\ WF_vars(RxWaitTx(s))
  /\ SF_vars(RxClose(s))

TxFair(s) ==
  /\ WF_vars(TxStart(s)) /\ WF_vars(TxLoop(s)) /\ WF_vars(TxTake(s))
  /\ WF_vars(sock[s] # NoFd /\ fds[sock[s]] = "shut" /\ TxSendFails(s))
  /\ WF_vars(TxShutdown(s)) /\ WF_vars(TxEnd(s))

AccFair ==
  /\ WF_vars(AccSetup) /\ WF_vars(AccRefuse \/ AccAdmit)
  /\ SF_vars(SpawnNoSlot \/ SpawnTakeSlot)
  /\ WF_vars(SpawnAbort \/ SpawnRxTask) /\ WF_vars(SpawnTxTask \/ SpawnTxFails)
  /\ WF_vars(UndoTxRunning) /\ WF_vars(UndoActive) /\ WF_vars(UndoShutdown)

BroadcastFair ==
  /\ SF_vars(BroadcastLock)
  /\ WF_vars(BroadcastCheck \/ BroadcastSend \/ BroadcastUnlock)

FairSpec == /\ Spec
            /\ \A s \in Slots : RxFair(s) /\ TxFair(s)
            /\ AccFair
            /\ BroadcastFair

-----------------------------------------------------------------------------
(* Safety.                                                                 *)

(* No live task of a slot, and no broadcast in progress, can reach a slot  *)
(* that was given back, a deleted stream buffer or a closed descriptor:    *)
(* the RX task frees the slot only after the TX task's last access, also   *)
(* when a client leaves before the TX task first ran or when the TX task   *)
(* could not be created (tcp_server.c:256-270, 314-318, 339-348).          *)
NoUseAfterFree ==
  /\ \A s \in Slots : rx_pc[s] # "none" \/ tx_pc[s] # "none" =>
        /\ in_use[s]
        /\ tx[s] # NoBuf
        /\ sock[s] # NoFd /\ fds[sock[s]] # "closed"
  /\ uart_pc = "send" => tx[uart_slot] # NoBuf

(* Every descriptor lwIP has open belongs to the accept task or to exactly *)
(* one slot, and nobody holds a closed one: no accepted connection leaks   *)
(* and none is closed twice on any of the refusal paths                    *)
(* (tcp_server.c:306-308, 419-424).                                        *)
Holders(f) == {s \in Slots : sock[s] = f}
SocketsOwnedOnce ==
  \A f \in Fds :
     IF fds[f] = "closed" THEN Holders(f) = {} /\ acc_fd # f
     ELSE \/ acc_fd = f /\ Holders(f) = {}
          \/ acc_fd # f /\ \E s \in Slots : Holders(f) = {s}

(* A client that has not passed the handshake gets no byte of the radio    *)
(* traffic and none of its bytes reach the parser, whatever the tasks do   *)
(* between their tests and their accesses (tcp_server.c:234-255, 468-478). *)
OnlyAuthenticated ==
  /\ \A s \in Slots :
        /\ rx_pc[s] \in {"recv", "feed"} => authed[s]
        /\ tx[s] > 0 => authed[s]
        /\ tx_pc[s] = "send" => authed[s]
  /\ uart_pc = "send" => authed[uart_slot]

(* A broadcast chunk is queued whole or not at all: between the test for   *)
(* room and the write nothing shrinks the room (tcp_server.c:471-478).     *)
ChunkFits == uart_pc = "send" => tx[uart_slot] + uart_len <= StreamSize

(* The slots keep the promise of the abstract slot pool: see SlotPool.     *)
SlotState(s) ==
  CASE ~in_use[s]                               -> "free"
    [] in_use[s] /\ rx_pc[s] = "none"           -> "opening"
    [] rx_pc[s] # "none" /\ ~active[s]          -> "closing"
    [] rx_pc[s] # "none" /\ active[s] /\ authed[s]  -> "serving"
    [] OTHER                                     -> "pending"

Pool == INSTANCE SlotPool WITH st <- [s \in Slots |-> SlotState(s)]

PoolSpec == Pool!Spec

-----------------------------------------------------------------------------
(* The inductive invariant behind the safety properties.                   *)

(* Who may stand where: the mutex follows the holders' program counters,   *)
(* and the task counters follow spawn_client's progress.                   *)
ControlInv ==
  /\ mtx = "acc" <=> acc_pc \in {"nobuf", "mkrx", "mktx", "undo_run",
                                  "undo_act", "undo_shut"}
  /\ mtx = "uart" <=> uart_pc \in {"check", "send"}
  /\ acc_fd # NoFd <=> acc_pc \in {"check", "spawn"}
  /\ acc_pc \in {"nobuf", "mkrx"} =>
        in_use[acc_slot] /\ rx_pc[acc_slot] = "none" /\ tx_running[acc_slot]
  /\ acc_pc = "mkrx" => active[acc_slot] /\ authed[acc_slot] = ~AuthReq
  /\ acc_pc \in {"mktx", "undo_run"} =>
        /\ rx_pc[acc_slot] \notin {"none", "close"}
        /\ tx_pc[acc_slot] = "none" /\ tx_running[acc_slot]
  /\ acc_pc \in {"undo_act", "undo_shut"} =>
        rx_pc[acc_slot] # "none" /\ tx_pc[acc_slot] = "none"
  /\ uart_pc = "send" => uart_slot \in Slots

(* What a slot owns, by the state of its tasks. *)
SlotInv ==
  \A s \in Slots :
     /\ in_use[s] <=> sock[s] # NoFd
     /\ in_use[s] => ~cleaned[s]
     /\ ~in_use[s] => tx[s] = NoBuf /\ ~active[s] /\ ~authed[s]
     /\ rx_pc[s] # "none" => in_use[s] /\ tx[s] # NoBuf
     /\ tx_pc[s] # "none" => rx_pc[s] \notin {"none", "close"} /\ tx_running[s]
     /\ rx_pc[s] \in {"shut", "wait", "close"} => ~active[s]
     /\ in_use[s] /\ rx_pc[s] = "none" =>
           acc_pc \in {"nobuf", "mkrx"} /\ acc_slot = s
     /\ acc_pc = "mkrx" /\ acc_slot = s => tx[s] # NoBuf

(* SocketsOwnedOnce, by its four halves. *)
FdInv ==
  /\ \A s, t \in Slots : sock[s] # NoFd /\ sock[s] = sock[t] => s = t
  /\ \A s \in Slots : sock[s] # NoFd => fds[sock[s]] # "closed" /\ sock[s] # acc_fd
  /\ acc_fd # NoFd => fds[acc_fd] # "closed"
  /\ \A f \in Fds : fds[f] # "closed" => acc_fd = f \/ \E s \in Slots : sock[s] = f

(* The loop test on active is reached unauthenticated only when it fails. *)
AuthInv ==
  \A s \in Slots :
     /\ rx_pc[s] \in {"recv", "feed"} => authed[s]
     /\ rx_pc[s] = "loop" => ~active[s] \/ authed[s]
     /\ in_use[s] /\ ~AuthReq => authed[s]
     /\ tx[s] > 0 => authed[s]
     /\ tx_pc[s] = "send" => authed[s]

UartInv ==
  uart_pc = "send" => /\ tx[uart_slot] # NoBuf
                      /\ authed[uart_slot]
                      /\ tx[uart_slot] + uart_len <= StreamSize

IInv == TypeOK /\ ControlInv /\ SlotInv /\ FdInv /\ AuthInv /\ UartInv

-----------------------------------------------------------------------------
(* Liveness, under FairSpec.                                               *)

(* A slot whose client is being disconnected, whichever task noticed it,   *)
(* is handed back: no RX task keeps hanging in recv and no TX task in send *)
(* (tcp_server.c:256-270, 290-296, 339-348).                               *)
PoolLive == Pool!ClosedIsReleased

(* The accept loop comes back to accept() after every connection, and the  *)
(* UART reader gets out of every broadcast: neither waits for a client.    *)
AcceptReturns    == acc_pc # "accept" ~> acc_pc \in {"accept", "dead"}
BroadcastReturns == uart_pc # "idle" ~> uart_pc = "idle"
NeverHeldUp      == AcceptReturns /\ BroadcastReturns

=============================================================================
