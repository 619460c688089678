--------------------------- MODULE TcpServer_proofs ---------------------------
(***************************************************************************)
(* Proofs about the client slots, for every number of slots, descriptors   *)
(* and every stream size, and about the rate limiter beside them.          *)
(***************************************************************************)
EXTENDS TcpServer, RateLimit, FiniteSetTheorems, WellFoundedInduction, TLAPS

USE MaxClientsAssumption, StreamSizeAssumption, ChunkLensAssumption,
    AuthReqAssumption, NoFdAssumption

(* Closing the descriptor of one slot keeps the ownership of all others.   *)
LEMMA CloseFds ==
  ASSUME TypeOK, FdInv, NEW s \in Slots, sock[s] # NoFd,
         fds'  = [fds EXCEPT ![sock[s]] = "closed"],
         sock' = [sock EXCEPT ![s] = NoFd],
         acc_fd' = acc_fd
  PROVE  FdInv'
<1> USE DEF TypeOK, FdInv
<1>1. \A t, u \in Slots : sock'[t] # NoFd /\ sock'[t] = sock'[u] => t = u
  OBVIOUS
<1>2. \A t \in Slots : sock'[t] # NoFd =>
         fds'[sock'[t]] # "closed" /\ sock'[t] # acc_fd'
  OBVIOUS
<1>3. acc_fd' # NoFd => fds'[acc_fd'] # "closed"
  OBVIOUS
<1>4. \A f \in Fds : fds'[f] # "closed" =>
         acc_fd' = f \/ \E t \in Slots : sock'[t] = f
  <2> SUFFICES ASSUME NEW f \in Fds, fds'[f] # "closed", acc_fd' # f
               PROVE  \E t \in Slots : sock'[t] = f
    OBVIOUS
  <2>1. PICK t \in Slots : sock[t] = f
    OBVIOUS
  <2>2. t # s /\ sock'[t] = f
    BY <2>1
  <2>3. QED
    BY <2>2
<1>5. QED
  BY <1>1, <1>2, <1>3, <1>4

(* A step keeps the types: tasks, accept loop and broadcaster leave every *)
(* field of a slot within its range (tcp_server.c:149-481).                *)
LEMMA TypeStep == IInv /\ [Next]_vars => TypeOK'
<1> SUFFICES ASSUME IInv, [Next]_vars PROVE TypeOK'
  OBVIOUS
<1> USE DEF IInv, TypeOK, Slots, NoBuf, RxPcs, TxPcs, AccPcs, UartPcs, accVars, uartVars, slotVars, flagVars
<1>1. CASE AccSetup
  BY <1>1 DEF GoAcc, AccSetup
<1>2. CASE AccAccept
  BY <1>2 DEF GoAcc, AccAccept
<1>3. CASE AccRefuse
  BY <1>3 DEF GoAcc, AccRefuse
<1>4. CASE AccAdmit
  BY <1>4 DEF GoAcc, AccAdmit
<1>5. CASE SpawnNoSlot
  BY <1>5 DEF GoAcc, SpawnNoSlot
<1>6. CASE SpawnTakeSlot
  <2> USE <1>6 DEF GoAcc, SpawnTakeSlot
  <2>1. /\ in_use' \in [Slots -> BOOLEAN] /\ active' \in [Slots -> BOOLEAN]
        /\ authed' \in [Slots -> BOOLEAN] /\ cleaned' \in [Slots -> BOOLEAN]
        /\ tx_running' \in [Slots -> BOOLEAN] /\ acc_slot' \in Slots
    OBVIOUS
  <2>2. sock' \in [Slots -> Fds \cup {NoFd}] /\ acc_fd' \in Fds \cup {NoFd}
    OBVIOUS
  <2>3. tx' \in [Slots -> {NoBuf} \cup (0 .. StreamSize)]
    OBVIOUS
  <2>4. acc_pc' \in AccPcs /\ mtx' \in {"free", "acc", "uart"}
    OBVIOUS
  <2>5. UNCHANGED <<fds, rx_pc, tx_pc, uart_pc, uart_slot, uart_len>>
    OBVIOUS
  <2> HIDE <1>6 DEF SpawnTakeSlot
  <2>6. QED
    BY <2>1, <2>2, <2>3, <2>4, <2>5
<1>7. CASE SpawnAbort
  BY <1>7 DEF SpawnAbort, CloseSlotLocked
<1>8. CASE SpawnRxTask
  BY <1>8 DEF GoAcc, SpawnRxTask
<1>9. CASE SpawnTxTask
  BY <1>9 DEF GoAcc, SpawnTxTask
<1>10. CASE SpawnTxFails
  BY <1>10 DEF GoAcc, SpawnTxFails
<1>11. CASE UndoTxRunning
  BY <1>11 DEF GoAcc, UndoTxRunning
<1>12. CASE UndoActive
  BY <1>12 DEF GoAcc, UndoActive
<1>13. CASE UndoShutdown
  BY <1>13 DEF GoAcc, UndoShutdown, ShutdownSock, ShutFd
<1>14. CASE BroadcastCall
  BY <1>14 DEF BroadcastCall
<1>15. CASE BroadcastLock
  BY <1>15 DEF BroadcastLock
<1>16. CASE BroadcastCheck
  BY <1>16 DEF BroadcastCheck, WantsChunk
<1>17. CASE BroadcastSend
  BY <1>17 DEF BroadcastSend, ControlInv, UartInv
<1>18. CASE BroadcastUnlock
  BY <1>18 DEF BroadcastUnlock
<1>19. ASSUME NEW s \in Slots, RxStart(s) PROVE TypeOK'
  BY <1>19 DEF GoRx, RxStart
<1>20. ASSUME NEW s \in Slots, RxHandshakeOk(s) PROVE TypeOK'
  BY <1>20 DEF GoRx, RxHandshakeOk
<1>21. ASSUME NEW s \in Slots, RxHandshakeFails(s) PROVE TypeOK'
  BY <1>21 DEF GoRx, RxHandshakeFails
<1>22. ASSUME NEW s \in Slots, RxSetAuthed(s) PROVE TypeOK'
  BY <1>22 DEF GoRx, RxSetAuthed
<1>23. ASSUME NEW s \in Slots, RxReject(s) PROVE TypeOK'
  BY <1>23 DEF GoRx, RxReject
<1>24. ASSUME NEW s \in Slots, RxLoop(s) PROVE TypeOK'
  BY <1>24 DEF GoRx, RxLoop
<1>25. ASSUME NEW s \in Slots, RxRecvData(s) PROVE TypeOK'
  BY <1>25 DEF GoRx, RxRecvData
<1>26. ASSUME NEW s \in Slots, RxFeed(s) PROVE TypeOK'
  BY <1>26 DEF GoRx, RxFeed
<1>27. ASSUME NEW s \in Slots, RxRecvEnds(s) PROVE TypeOK'
  BY <1>27 DEF GoRx, RxRecvEnds
<1>28. ASSUME NEW s \in Slots, RxDown(s) PROVE TypeOK'
  BY <1>28 DEF GoRx, RxDown
<1>29. ASSUME NEW s \in Slots, RxShutdown(s) PROVE TypeOK'
  BY <1>29 DEF GoRx, RxShutdown, ShutdownSock, ShutFd
<1>30. ASSUME NEW s \in Slots, RxWaitTx(s) PROVE TypeOK'
  BY <1>30 DEF GoRx, RxWaitTx
<1>31. ASSUME NEW s \in Slots, RxClose(s) PROVE TypeOK'
  BY <1>31 DEF GoRx, RxClose, CloseSlotLocked
<1>32. ASSUME NEW s \in Slots, TxStart(s) PROVE TypeOK'
  BY <1>32 DEF GoTx, TxStart
<1>33. ASSUME NEW s \in Slots, TxLoop(s) PROVE TypeOK'
  BY <1>33 DEF GoTx, TxLoop
<1>34. ASSUME NEW s \in Slots, TxTake(s) PROVE TypeOK'
  BY <1>34 DEF GoTx, TxTake
<1>35. ASSUME NEW s \in Slots, TxSendDone(s) PROVE TypeOK'
  BY <1>35 DEF GoTx, TxSendDone
<1>36. ASSUME NEW s \in Slots, TxSendFails(s) PROVE TypeOK'
  BY <1>36 DEF GoTx, TxSendFails
<1>37. ASSUME NEW s \in Slots, TxShutdown(s) PROVE TypeOK'
  BY <1>37 DEF GoTx, TxShutdown, ShutdownSock, ShutFd
<1>38. ASSUME NEW s \in Slots, TxEnd(s) PROVE TypeOK'
  BY <1>38 DEF GoTx, TxEnd
<1>39. CASE UNCHANGED vars
  BY <1>39 DEF vars
<1>40. QED
  BY <1>1, <1>2, <1>3, <1>4, <1>5, <1>6, <1>7, <1>8, <1>9, <1>10, <1>11, <1>12, <1>13, <1>14, <1>15, <1>16, <1>17, <1>18, <1>19, <1>20, <1>21, <1>22, <1>23, <1>24, <1>25, <1>26, <1>27, <1>28, <1>29, <1>30, <1>31, <1>32, <1>33, <1>34, <1>35, <1>36, <1>37, <1>38, <1>39 DEF Next, Accept, Broadcast, Rx, Tx

(* A step keeps the agreement of s_slots_mtx with its holders, and of     *)
(* spawn_client's progress with the tasks it creates (299-357).            *)
LEMMA ControlStep == IInv /\ [Next]_vars => ControlInv'
<1> SUFFICES ASSUME IInv, [Next]_vars PROVE ControlInv'
  OBVIOUS
<1> USE DEF IInv, TypeOK, Slots, NoBuf, RxPcs, TxPcs, AccPcs, UartPcs, ControlInv, SlotInv, accVars, uartVars, slotVars, flagVars
<1>1. CASE AccSetup
  BY <1>1 DEF GoAcc, AccSetup
<1>2. CASE AccAccept
  BY <1>2 DEF GoAcc, AccAccept
<1>3. CASE AccRefuse
  BY <1>3 DEF GoAcc, AccRefuse
<1>4. CASE AccAdmit
  BY <1>4 DEF GoAcc, AccAdmit
<1>5. CASE SpawnNoSlot
  BY <1>5 DEF GoAcc, SpawnNoSlot
<1>6. CASE SpawnTakeSlot
  BY <1>6 DEF GoAcc, SpawnTakeSlot
<1>7. CASE SpawnAbort
  BY <1>7 DEF SpawnAbort, CloseSlotLocked
<1>8. CASE SpawnRxTask
  BY <1>8 DEF GoAcc, SpawnRxTask
<1>9. CASE SpawnTxTask
  BY <1>9 DEF GoAcc, SpawnTxTask
<1>10. CASE SpawnTxFails
  BY <1>10 DEF GoAcc, SpawnTxFails
<1>11. CASE UndoTxRunning
  BY <1>11 DEF GoAcc, UndoTxRunning
<1>12. CASE UndoActive
  BY <1>12 DEF GoAcc, UndoActive
<1>13. CASE UndoShutdown
  BY <1>13 DEF GoAcc, UndoShutdown, ShutdownSock, ShutFd
<1>14. CASE BroadcastCall
  BY <1>14 DEF BroadcastCall
<1>15. CASE BroadcastLock
  BY <1>15 DEF BroadcastLock
<1>16. CASE BroadcastCheck
  BY <1>16 DEF BroadcastCheck, WantsChunk
<1>17. CASE BroadcastSend
  BY <1>17 DEF BroadcastSend
<1>18. CASE BroadcastUnlock
  BY <1>18 DEF BroadcastUnlock
<1>19. ASSUME NEW s \in Slots, RxStart(s) PROVE ControlInv'
  BY <1>19 DEF GoRx, RxStart
<1>20. ASSUME NEW s \in Slots, RxHandshakeOk(s) PROVE ControlInv'
  BY <1>20 DEF GoRx, RxHandshakeOk
<1>21. ASSUME NEW s \in Slots, RxHandshakeFails(s) PROVE ControlInv'
  BY <1>21 DEF GoRx, RxHandshakeFails
<1>22. ASSUME NEW s \in Slots, RxSetAuthed(s) PROVE ControlInv'
  BY <1>22 DEF GoRx, RxSetAuthed
<1>23. ASSUME NEW s \in Slots, RxReject(s) PROVE ControlInv'
  BY <1>23 DEF GoRx, RxReject
<1>24. ASSUME NEW s \in Slots, RxLoop(s) PROVE ControlInv'
  BY <1>24 DEF GoRx, RxLoop
<1>25. ASSUME NEW s \in Slots, RxRecvData(s) PROVE ControlInv'
  BY <1>25 DEF GoRx, RxRecvData
<1>26. ASSUME NEW s \in Slots, RxFeed(s) PROVE ControlInv'
  BY <1>26 DEF GoRx, RxFeed
<1>27. ASSUME NEW s \in Slots, RxRecvEnds(s) PROVE ControlInv'
  BY <1>27 DEF GoRx, RxRecvEnds
<1>28. ASSUME NEW s \in Slots, RxDown(s) PROVE ControlInv'
  BY <1>28 DEF GoRx, RxDown
<1>29. ASSUME NEW s \in Slots, RxShutdown(s) PROVE ControlInv'
  BY <1>29 DEF GoRx, RxShutdown, ShutdownSock, ShutFd
<1>30. ASSUME NEW s \in Slots, RxWaitTx(s) PROVE ControlInv'
  BY <1>30 DEF GoRx, RxWaitTx
<1>31. ASSUME NEW s \in Slots, RxClose(s) PROVE ControlInv'
  BY <1>31 DEF GoRx, RxClose, CloseSlotLocked
<1>32. ASSUME NEW s \in Slots, TxStart(s) PROVE ControlInv'
  BY <1>32 DEF GoTx, TxStart
<1>33. ASSUME NEW s \in Slots, TxLoop(s) PROVE ControlInv'
  BY <1>33 DEF GoTx, TxLoop
<1>34. ASSUME NEW s \in Slots, TxTake(s) PROVE ControlInv'
  BY <1>34 DEF GoTx, TxTake
<1>35. ASSUME NEW s \in Slots, TxSendDone(s) PROVE ControlInv'
  BY <1>35 DEF GoTx, TxSendDone
<1>36. ASSUME NEW s \in Slots, TxSendFails(s) PROVE ControlInv'
  BY <1>36 DEF GoTx, TxSendFails
<1>37. ASSUME NEW s \in Slots, TxShutdown(s) PROVE ControlInv'
  BY <1>37 DEF GoTx, TxShutdown, ShutdownSock, ShutFd
<1>38. ASSUME NEW s \in Slots, TxEnd(s) PROVE ControlInv'
  BY <1>38 DEF GoTx, TxEnd
<1>39. CASE UNCHANGED vars
  BY <1>39 DEF vars
<1>40. QED
  BY <1>1, <1>2, <1>3, <1>4, <1>5, <1>6, <1>7, <1>8, <1>9, <1>10, <1>11, <1>12, <1>13, <1>14, <1>15, <1>16, <1>17, <1>18, <1>19, <1>20, <1>21, <1>22, <1>23, <1>24, <1>25, <1>26, <1>27, <1>28, <1>29, <1>30, <1>31, <1>32, <1>33, <1>34, <1>35, <1>36, <1>37, <1>38, <1>39 DEF Next, Accept, Broadcast, Rx, Tx

(* A step keeps what a slot owns in step with its tasks: close_slot_locked *)
(* runs only after the TX task is through (149-173, 256-270).              *)
LEMMA SlotStep == IInv /\ [Next]_vars => SlotInv'
<1> SUFFICES ASSUME IInv, [Next]_vars PROVE SlotInv'
  OBVIOUS
<1> USE DEF IInv, TypeOK, Slots, NoBuf, RxPcs, TxPcs, AccPcs, UartPcs, ControlInv, SlotInv, accVars, uartVars, slotVars, flagVars
<1>1. CASE AccSetup
  BY <1>1 DEF GoAcc, AccSetup
<1>2. CASE AccAccept
  BY <1>2 DEF GoAcc, AccAccept
<1>3. CASE AccRefuse
  BY <1>3 DEF GoAcc, AccRefuse
<1>4. CASE AccAdmit
  BY <1>4 DEF GoAcc, AccAdmit
<1>5. CASE SpawnNoSlot
  BY <1>5 DEF GoAcc, SpawnNoSlot
<1>6. CASE SpawnTakeSlot
  BY <1>6 DEF GoAcc, SpawnTakeSlot
<1>7. CASE SpawnAbort
  BY <1>7 DEF SpawnAbort, CloseSlotLocked
<1>8. CASE SpawnRxTask
  BY <1>8 DEF GoAcc, SpawnRxTask
<1>9. CASE SpawnTxTask
  BY <1>9 DEF GoAcc, SpawnTxTask
<1>10. CASE SpawnTxFails
  BY <1>10 DEF GoAcc, SpawnTxFails
<1>11. CASE UndoTxRunning
  BY <1>11 DEF GoAcc, UndoTxRunning
<1>12. CASE UndoActive
  BY <1>12 DEF GoAcc, UndoActive
<1>13. CASE UndoShutdown
  BY <1>13 DEF GoAcc, UndoShutdown, ShutdownSock, ShutFd
<1>14. CASE BroadcastCall
  BY <1>14 DEF BroadcastCall
<1>15. CASE BroadcastLock
  BY <1>15 DEF BroadcastLock
<1>16. CASE BroadcastCheck
  BY <1>16 DEF BroadcastCheck, WantsChunk
<1>17. CASE BroadcastSend
  BY <1>17 DEF BroadcastSend, UartInv
<1>18. CASE BroadcastUnlock
  BY <1>18 DEF BroadcastUnlock
<1>19. ASSUME NEW s \in Slots, RxStart(s) PROVE SlotInv'
  BY <1>19 DEF GoRx, RxStart
<1>20. ASSUME NEW s \in Slots, RxHandshakeOk(s) PROVE SlotInv'
  BY <1>20 DEF GoRx, RxHandshakeOk
<1>21. ASSUME NEW s \in Slots, RxHandshakeFails(s) PROVE SlotInv'
  BY <1>21 DEF GoRx, RxHandshakeFails
<1>22. ASSUME NEW s \in Slots, RxSetAuthed(s) PROVE SlotInv'
  BY <1>22 DEF GoRx, RxSetAuthed
<1>23. ASSUME NEW s \in Slots, RxReject(s) PROVE SlotInv'
  BY <1>23 DEF GoRx, RxReject
<1>24. ASSUME NEW s \in Slots, RxLoop(s) PROVE SlotInv'
  BY <1>24 DEF GoRx, RxLoop
<1>25. ASSUME NEW s \in Slots, RxRecvData(s) PROVE SlotInv'
  BY <1>25 DEF GoRx, RxRecvData
<1>26. ASSUME NEW s \in Slots, RxFeed(s) PROVE SlotInv'
  BY <1>26 DEF GoRx, RxFeed
<1>27. ASSUME NEW s \in Slots, RxRecvEnds(s) PROVE SlotInv'
  BY <1>27 DEF GoRx, RxRecvEnds
<1>28. ASSUME NEW s \in Slots, RxDown(s) PROVE SlotInv'
  BY <1>28 DEF GoRx, RxDown
<1>29. ASSUME NEW s \in Slots, RxShutdown(s) PROVE SlotInv'
  BY <1>29 DEF GoRx, RxShutdown, ShutdownSock, ShutFd
<1>30. ASSUME NEW s \in Slots, RxWaitTx(s) PROVE SlotInv'
  BY <1>30 DEF GoRx, RxWaitTx
<1>31. ASSUME NEW s \in Slots, RxClose(s) PROVE SlotInv'
  BY <1>31 DEF GoRx, RxClose, CloseSlotLocked
<1>32. ASSUME NEW s \in Slots, TxStart(s) PROVE SlotInv'
  BY <1>32 DEF GoTx, TxStart
<1>33. ASSUME NEW s \in Slots, TxLoop(s) PROVE SlotInv'
  BY <1>33 DEF GoTx, TxLoop
<1>34. ASSUME NEW s \in Slots, TxTake(s) PROVE SlotInv'
  BY <1>34 DEF GoTx, TxTake
<1>35. ASSUME NEW s \in Slots, TxSendDone(s) PROVE SlotInv'
  BY <1>35 DEF GoTx, TxSendDone
<1>36. ASSUME NEW s \in Slots, TxSendFails(s) PROVE SlotInv'
  BY <1>36 DEF GoTx, TxSendFails
<1>37. ASSUME NEW s \in Slots, TxShutdown(s) PROVE SlotInv'
  BY <1>37 DEF GoTx, TxShutdown, ShutdownSock, ShutFd
<1>38. ASSUME NEW s \in Slots, TxEnd(s) PROVE SlotInv'
  BY <1>38 DEF GoTx, TxEnd
<1>39. CASE UNCHANGED vars
  BY <1>39 DEF vars
<1>40. QED
  BY <1>1, <1>2, <1>3, <1>4, <1>5, <1>6, <1>7, <1>8, <1>9, <1>10, <1>11, <1>12, <1>13, <1>14, <1>15, <1>16, <1>17, <1>18, <1>19, <1>20, <1>21, <1>22, <1>23, <1>24, <1>25, <1>26, <1>27, <1>28, <1>29, <1>30, <1>31, <1>32, <1>33, <1>34, <1>35, <1>36, <1>37, <1>38, <1>39 DEF Next, Accept, Broadcast, Rx, Tx

(* A step keeps every open descriptor with one owner (306-308, 419-424).   *)
LEMMA FdStep == IInv /\ [Next]_vars => FdInv'
<1> SUFFICES ASSUME IInv, [Next]_vars PROVE FdInv'
  OBVIOUS
<1> USE DEF IInv, TypeOK, Slots, NoBuf, RxPcs, TxPcs, AccPcs, UartPcs, ControlInv, SlotInv, FdInv, accVars, uartVars, slotVars, flagVars
<1>1. CASE AccSetup
  BY <1>1 DEF GoAcc, AccSetup
<1>2. CASE AccAccept
  BY <1>2 DEF GoAcc, AccAccept
<1>3. CASE AccRefuse
  BY <1>3 DEF GoAcc, AccRefuse
<1>4. CASE AccAdmit
  BY <1>4 DEF GoAcc, AccAdmit
<1>5. CASE SpawnNoSlot
  BY <1>5 DEF GoAcc, SpawnNoSlot
<1>6. CASE SpawnTakeSlot
  BY <1>6 DEF GoAcc, SpawnTakeSlot
<1>7. CASE SpawnAbort
  <2>1. sock[acc_slot] # NoFd /\ ~cleaned[acc_slot]
    BY <1>7 DEF SpawnAbort
  <2>2. QED
    BY <1>7, <2>1, CloseFds DEF SpawnAbort, CloseSlotLocked
<1>8. CASE SpawnRxTask
  BY <1>8 DEF GoAcc, SpawnRxTask
<1>9. CASE SpawnTxTask
  BY <1>9 DEF GoAcc, SpawnTxTask
<1>10. CASE SpawnTxFails
  BY <1>10 DEF GoAcc, SpawnTxFails
<1>11. CASE UndoTxRunning
  BY <1>11 DEF GoAcc, UndoTxRunning
<1>12. CASE UndoActive
  BY <1>12 DEF GoAcc, UndoActive
<1>13. CASE UndoShutdown
  BY <1>13 DEF GoAcc, UndoShutdown, ShutdownSock, ShutFd
<1>14. CASE BroadcastCall
  BY <1>14 DEF BroadcastCall
<1>15. CASE BroadcastLock
  BY <1>15 DEF BroadcastLock
<1>16. CASE BroadcastCheck
  BY <1>16 DEF BroadcastCheck, WantsChunk
<1>17. CASE BroadcastSend
  BY <1>17 DEF BroadcastSend
<1>18. CASE BroadcastUnlock
  BY <1>18 DEF BroadcastUnlock
<1>19. ASSUME NEW s \in Slots, RxStart(s) PROVE FdInv'
  BY <1>19 DEF GoRx, RxStart
<1>20. ASSUME NEW s \in Slots, RxHandshakeOk(s) PROVE FdInv'
  BY <1>20 DEF GoRx, RxHandshakeOk
<1>21. ASSUME NEW s \in Slots, RxHandshakeFails(s) PROVE FdInv'
  BY <1>21 DEF GoRx, RxHandshakeFails
<1>22. ASSUME NEW s \in Slots, RxSetAuthed(s) PROVE FdInv'
  BY <1>22 DEF GoRx, RxSetAuthed
<1>23. ASSUME NEW s \in Slots, RxReject(s) PROVE FdInv'
  BY <1>23 DEF GoRx, RxReject
<1>24. ASSUME NEW s \in Slots, RxLoop(s) PROVE FdInv'
  BY <1>24 DEF GoRx, RxLoop
<1>25. ASSUME NEW s \in Slots, RxRecvData(s) PROVE FdInv'
  BY <1>25 DEF GoRx, RxRecvData
<1>26. ASSUME NEW s \in Slots, RxFeed(s) PROVE FdInv'
  BY <1>26 DEF GoRx, RxFeed
<1>27. ASSUME NEW s \in Slots, RxRecvEnds(s) PROVE FdInv'
  BY <1>27 DEF GoRx, RxRecvEnds
<1>28. ASSUME NEW s \in Slots, RxDown(s) PROVE FdInv'
  BY <1>28 DEF GoRx, RxDown
<1>29. ASSUME NEW s \in Slots, RxShutdown(s) PROVE FdInv'
  BY <1>29 DEF GoRx, RxShutdown, ShutdownSock, ShutFd
<1>30. ASSUME NEW s \in Slots, RxWaitTx(s) PROVE FdInv'
  BY <1>30 DEF GoRx, RxWaitTx
<1>31. ASSUME NEW s \in Slots, RxClose(s) PROVE FdInv'
  <2>1. sock[s] # NoFd /\ ~cleaned[s]
    BY <1>31 DEF GoRx, RxClose
  <2>2. QED
    BY <1>31, <2>1, CloseFds DEF RxClose, CloseSlotLocked
<1>32. ASSUME NEW s \in Slots, TxStart(s) PROVE FdInv'
  BY <1>32 DEF GoTx, TxStart
<1>33. ASSUME NEW s \in Slots, TxLoop(s) PROVE FdInv'
  BY <1>33 DEF GoTx, TxLoop
<1>34. ASSUME NEW s \in Slots, TxTake(s) PROVE FdInv'
  BY <1>34 DEF GoTx, TxTake
<1>35. ASSUME NEW s \in Slots, TxSendDone(s) PROVE FdInv'
  BY <1>35 DEF GoTx, TxSendDone
<1>36. ASSUME NEW s \in Slots, TxSendFails(s) PROVE FdInv'
  BY <1>36 DEF GoTx, TxSendFails
<1>37. ASSUME NEW s \in Slots, TxShutdown(s) PROVE FdInv'
  BY <1>37 DEF GoTx, TxShutdown, ShutdownSock, ShutFd
<1>38. ASSUME NEW s \in Slots, TxEnd(s) PROVE FdInv'
  BY <1>38 DEF GoTx, TxEnd
<1>39. CASE UNCHANGED vars
  BY <1>39 DEF vars
<1>40. QED
  BY <1>1, <1>2, <1>3, <1>4, <1>5, <1>6, <1>7, <1>8, <1>9, <1>10, <1>11, <1>12, <1>13, <1>14, <1>15, <1>16, <1>17, <1>18, <1>19, <1>20, <1>21, <1>22, <1>23, <1>24, <1>25, <1>26, <1>27, <1>28, <1>29, <1>30, <1>31, <1>32, <1>33, <1>34, <1>35, <1>36, <1>37, <1>38, <1>39 DEF Next, Accept, Broadcast, Rx, Tx

(* A step keeps the gate of the handshake (234-255, 468-478).              *)
LEMMA AuthStep == IInv /\ [Next]_vars => AuthInv'
<1> SUFFICES ASSUME IInv, [Next]_vars PROVE AuthInv'
  OBVIOUS
<1> USE DEF IInv, TypeOK, Slots, NoBuf, RxPcs, TxPcs, AccPcs, UartPcs, ControlInv, SlotInv, AuthInv, UartInv, accVars, uartVars, slotVars, flagVars
<1>1. CASE AccSetup
  BY <1>1 DEF GoAcc, AccSetup
<1>2. CASE AccAccept
  BY <1>2 DEF GoAcc, AccAccept
<1>3. CASE AccRefuse
  BY <1>3 DEF GoAcc, AccRefuse
<1>4. CASE AccAdmit
  BY <1>4 DEF GoAcc, AccAdmit
<1>5. CASE SpawnNoSlot
  BY <1>5 DEF GoAcc, SpawnNoSlot
<1>6. CASE SpawnTakeSlot
  <2>1. UNCHANGED <<rx_pc, tx_pc>>
    BY <1>6 DEF SpawnTakeSlot
  <2>2. \A t \in Slots : ~in_use[t] => rx_pc[t] = "none" /\ tx_pc[t] = "none"
    OBVIOUS
  <2>3. \A t \in Slots : tx'[t] > 0 => in_use[t] /\ tx'[t] = tx[t]
    BY <1>6 DEF SpawnTakeSlot
  <2>4. \A t \in Slots : in_use[t] => authed'[t] = authed[t] /\ active'[t] = active[t]
    BY <1>6 DEF SpawnTakeSlot
  <2>5. \A t \in Slots : in_use'[t] /\ ~in_use[t] => authed'[t] = ~AuthReq
    BY <1>6 DEF SpawnTakeSlot
  <2>6. QED
    BY <2>1, <2>2, <2>3, <2>4, <2>5
<1>7. CASE SpawnAbort
  BY <1>7 DEF SpawnAbort, CloseSlotLocked
<1>8. CASE SpawnRxTask
  BY <1>8 DEF GoAcc, SpawnRxTask
<1>9. CASE SpawnTxTask
  BY <1>9 DEF GoAcc, SpawnTxTask
<1>10. CASE SpawnTxFails
  BY <1>10 DEF GoAcc, SpawnTxFails
<1>11. CASE UndoTxRunning
  BY <1>11 DEF GoAcc, UndoTxRunning
<1>12. CASE UndoActive
  BY <1>12 DEF GoAcc, UndoActive
<1>13. CASE UndoShutdown
  BY <1>13 DEF GoAcc, UndoShutdown, ShutdownSock, ShutFd
<1>14. CASE BroadcastCall
  BY <1>14 DEF BroadcastCall
<1>15. CASE BroadcastLock
  BY <1>15 DEF BroadcastLock
<1>16. CASE BroadcastCheck
  BY <1>16 DEF BroadcastCheck, WantsChunk
<1>17. CASE BroadcastSend
  BY <1>17 DEF BroadcastSend
<1>18. CASE BroadcastUnlock
  BY <1>18 DEF BroadcastUnlock
<1>19. ASSUME NEW s \in Slots, RxStart(s) PROVE AuthInv'
  BY <1>19 DEF GoRx, RxStart
<1>20. ASSUME NEW s \in Slots, RxHandshakeOk(s) PROVE AuthInv'
  BY <1>20 DEF GoRx, RxHandshakeOk
<1>21. ASSUME NEW s \in Slots, RxHandshakeFails(s) PROVE AuthInv'
  BY <1>21 DEF GoRx, RxHandshakeFails
<1>22. ASSUME NEW s \in Slots, RxSetAuthed(s) PROVE AuthInv'
  BY <1>22 DEF GoRx, RxSetAuthed
<1>23. ASSUME NEW s \in Slots, RxReject(s) PROVE AuthInv'
  BY <1>23 DEF GoRx, RxReject
<1>24. ASSUME NEW s \in Slots, RxLoop(s) PROVE AuthInv'
  BY <1>24 DEF GoRx, RxLoop
<1>25. ASSUME NEW s \in Slots, RxRecvData(s) PROVE AuthInv'
  BY <1>25 DEF GoRx, RxRecvData
<1>26. ASSUME NEW s \in Slots, RxFeed(s) PROVE AuthInv'
  BY <1>26 DEF GoRx, RxFeed
<1>27. ASSUME NEW s \in Slots, RxRecvEnds(s) PROVE AuthInv'
  BY <1>27 DEF GoRx, RxRecvEnds
<1>28. ASSUME NEW s \in Slots, RxDown(s) PROVE AuthInv'
  BY <1>28 DEF GoRx, RxDown
<1>29. ASSUME NEW s \in Slots, RxShutdown(s) PROVE AuthInv'
  BY <1>29 DEF GoRx, RxShutdown, ShutdownSock, ShutFd
<1>30. ASSUME NEW s \in Slots, RxWaitTx(s) PROVE AuthInv'
  BY <1>30 DEF GoRx, RxWaitTx
<1>31. ASSUME NEW s \in Slots, RxClose(s) PROVE AuthInv'
  BY <1>31 DEF GoRx, RxClose, CloseSlotLocked
<1>32. ASSUME NEW s \in Slots, TxStart(s) PROVE AuthInv'
  BY <1>32 DEF GoTx, TxStart
<1>33. ASSUME NEW s \in Slots, TxLoop(s) PROVE AuthInv'
  BY <1>33 DEF GoTx, TxLoop
<1>34. ASSUME NEW s \in Slots, TxTake(s) PROVE AuthInv'
  BY <1>34 DEF GoTx, TxTake
<1>35. ASSUME NEW s \in Slots, TxSendDone(s) PROVE AuthInv'
  BY <1>35 DEF GoTx, TxSendDone
<1>36. ASSUME NEW s \in Slots, TxSendFails(s) PROVE AuthInv'
  BY <1>36 DEF GoTx, TxSendFails
<1>37. ASSUME NEW s \in Slots, TxShutdown(s) PROVE AuthInv'
  BY <1>37 DEF GoTx, TxShutdown, ShutdownSock, ShutFd
<1>38. ASSUME NEW s \in Slots, TxEnd(s) PROVE AuthInv'
  BY <1>38 DEF GoTx, TxEnd
<1>39. CASE UNCHANGED vars
  BY <1>39 DEF vars
<1>40. QED
  BY <1>1, <1>2, <1>3, <1>4, <1>5, <1>6, <1>7, <1>8, <1>9, <1>10, <1>11, <1>12, <1>13, <1>14, <1>15, <1>16, <1>17, <1>18, <1>19, <1>20, <1>21, <1>22, <1>23, <1>24, <1>25, <1>26, <1>27, <1>28, <1>29, <1>30, <1>31, <1>32, <1>33, <1>34, <1>35, <1>36, <1>37, <1>38, <1>39 DEF Next, Accept, Broadcast, Rx, Tx

(* A step keeps what the broadcaster tested true until it has written      *)
(* (468-478).                                                              *)
LEMMA UartStep == IInv /\ [Next]_vars => UartInv'
<1> SUFFICES ASSUME IInv, [Next]_vars PROVE UartInv'
  OBVIOUS
<1> USE DEF IInv, TypeOK, Slots, NoBuf, RxPcs, TxPcs, AccPcs, UartPcs, ControlInv, SlotInv, AuthInv, UartInv, accVars, uartVars, slotVars, flagVars
<1>1. CASE AccSetup
  BY <1>1 DEF GoAcc, AccSetup
<1>2. CASE AccAccept
  BY <1>2 DEF GoAcc, AccAccept
<1>3. CASE AccRefuse
  BY <1>3 DEF GoAcc, AccRefuse
<1>4. CASE AccAdmit
  BY <1>4 DEF GoAcc, AccAdmit
<1>5. CASE SpawnNoSlot
  BY <1>5 DEF GoAcc, SpawnNoSlot
<1>6. CASE SpawnTakeSlot
  BY <1>6 DEF GoAcc, SpawnTakeSlot
<1>7. CASE SpawnAbort
  BY <1>7 DEF SpawnAbort, CloseSlotLocked
<1>8. CASE SpawnRxTask
  BY <1>8 DEF GoAcc, SpawnRxTask
<1>9. CASE SpawnTxTask
  BY <1>9 DEF GoAcc, SpawnTxTask
<1>10. CASE SpawnTxFails
  BY <1>10 DEF GoAcc, SpawnTxFails
<1>11. CASE UndoTxRunning
  BY <1>11 DEF GoAcc, UndoTxRunning
<1>12. CASE UndoActive
  BY <1>12 DEF GoAcc, UndoActive
<1>13. CASE UndoShutdown
  BY <1>13 DEF GoAcc, UndoShutdown, ShutdownSock, ShutFd
<1>14. CASE BroadcastCall
  BY <1>14 DEF BroadcastCall
<1>15. CASE BroadcastLock
  BY <1>15 DEF BroadcastLock
<1>16. CASE BroadcastCheck
  BY <1>16 DEF BroadcastCheck, WantsChunk
<1>17. CASE BroadcastSend
  BY <1>17 DEF BroadcastSend
<1>18. CASE BroadcastUnlock
  BY <1>18 DEF BroadcastUnlock
<1>19. ASSUME NEW s \in Slots, RxStart(s) PROVE UartInv'
  BY <1>19 DEF GoRx, RxStart
<1>20. ASSUME NEW s \in Slots, RxHandshakeOk(s) PROVE UartInv'
  BY <1>20 DEF GoRx, RxHandshakeOk
<1>21. ASSUME NEW s \in Slots, RxHandshakeFails(s) PROVE UartInv'
  BY <1>21 DEF GoRx, RxHandshakeFails
<1>22. ASSUME NEW s \in Slots, RxSetAuthed(s) PROVE UartInv'
  BY <1>22 DEF GoRx, RxSetAuthed
<1>23. ASSUME NEW s \in Slots, RxReject(s) PROVE UartInv'
  BY <1>23 DEF GoRx, RxReject
<1>24. ASSUME NEW s \in Slots, RxLoop(s) PROVE UartInv'
  BY <1>24 DEF GoRx, RxLoop
<1>25. ASSUME NEW s \in Slots, RxRecvData(s) PROVE UartInv'
  BY <1>25 DEF GoRx, RxRecvData
<1>26. ASSUME NEW s \in Slots, RxFeed(s) PROVE UartInv'
  BY <1>26 DEF GoRx, RxFeed
<1>27. ASSUME NEW s \in Slots, RxRecvEnds(s) PROVE UartInv'
  BY <1>27 DEF GoRx, RxRecvEnds
<1>28. ASSUME NEW s \in Slots, RxDown(s) PROVE UartInv'
  BY <1>28 DEF GoRx, RxDown
<1>29. ASSUME NEW s \in Slots, RxShutdown(s) PROVE UartInv'
  BY <1>29 DEF GoRx, RxShutdown, ShutdownSock, ShutFd
<1>30. ASSUME NEW s \in Slots, RxWaitTx(s) PROVE UartInv'
  BY <1>30 DEF GoRx, RxWaitTx
<1>31. ASSUME NEW s \in Slots, RxClose(s) PROVE UartInv'
  BY <1>31 DEF GoRx, RxClose, CloseSlotLocked
<1>32. ASSUME NEW s \in Slots, TxStart(s) PROVE UartInv'
  BY <1>32 DEF GoTx, TxStart
<1>33. ASSUME NEW s \in Slots, TxLoop(s) PROVE UartInv'
  BY <1>33 DEF GoTx, TxLoop
<1>34. ASSUME NEW s \in Slots, TxTake(s) PROVE UartInv'
  BY <1>34 DEF GoTx, TxTake
<1>35. ASSUME NEW s \in Slots, TxSendDone(s) PROVE UartInv'
  BY <1>35 DEF GoTx, TxSendDone
<1>36. ASSUME NEW s \in Slots, TxSendFails(s) PROVE UartInv'
  BY <1>36 DEF GoTx, TxSendFails
<1>37. ASSUME NEW s \in Slots, TxShutdown(s) PROVE UartInv'
  BY <1>37 DEF GoTx, TxShutdown, ShutdownSock, ShutFd
<1>38. ASSUME NEW s \in Slots, TxEnd(s) PROVE UartInv'
  BY <1>38 DEF GoTx, TxEnd
<1>39. CASE UNCHANGED vars
  BY <1>39 DEF vars
<1>40. QED
  BY <1>1, <1>2, <1>3, <1>4, <1>5, <1>6, <1>7, <1>8, <1>9, <1>10, <1>11, <1>12, <1>13, <1>14, <1>15, <1>16, <1>17, <1>18, <1>19, <1>20, <1>21, <1>22, <1>23, <1>24, <1>25, <1>26, <1>27, <1>28, <1>29, <1>30, <1>31, <1>32, <1>33, <1>34, <1>35, <1>36, <1>37, <1>38, <1>39 DEF Next, Accept, Broadcast, Rx, Tx

(* The inductive invariant: every step keeps all of its parts.             *)
THEOREM Invariant == Spec => []IInv
<1>1. Init => IInv
  BY DEF Init, IInv, TypeOK, ControlInv, SlotInv, FdInv, AuthInv, UartInv, Slots, NoBuf,
         RxPcs, TxPcs, AccPcs, UartPcs
<1>2. IInv /\ [Next]_vars => IInv'
  BY TypeStep, ControlStep, SlotStep, FdStep, AuthStep, UartStep DEF IInv
<1>3. QED
  BY <1>1, <1>2, PTL DEF Spec

(* Every variable keeps its type in every behaviour of the server.         *)
THEOREM TypeCorrect == Spec => []TypeOK
<1>1. IInv => TypeOK
  BY DEF IInv
<1>2. QED
  BY <1>1, Invariant, PTL

(* A broadcast chunk is queued whole or not at all (tcp_server.c:471-478). *)
THEOREM ChunkFitsCorrect == Spec => []ChunkFits
<1>1. IInv => ChunkFits
  BY DEF IInv, UartInv, ChunkFits
<1>2. QED
  BY <1>1, Invariant, PTL

(* No task and no broadcast touches a freed slot, stream buffer or socket  *)
(* (client_rx_task's unbounded wait for tx_running, tcp_server.c:260-270). *)
THEOREM NoUseAfterFreeCorrect == Spec => []NoUseAfterFree
<1>1. IInv => NoUseAfterFree
  BY DEF IInv, SlotInv, FdInv, UartInv, NoUseAfterFree
<1>2. QED
  BY <1>1, Invariant, PTL

(* Every open descriptor has exactly one owner, a closed one has none      *)
(* (spawn_client takes the socket over in every case, tcp_server.c:419).   *)
THEOREM SocketsOwnedOnceCorrect == Spec => []SocketsOwnedOnce
<1>1. ASSUME IInv PROVE SocketsOwnedOnce
  <2> USE DEF IInv, TypeOK, FdInv
  <2>1. ASSUME NEW f \in Fds, fds[f] = "closed"
        PROVE  Holders(f) = {} /\ acc_fd # f
    BY <1>1, <2>1 DEF Holders
  <2>2. ASSUME NEW f \in Fds, fds[f] # "closed", acc_fd = f
        PROVE  Holders(f) = {}
    BY <1>1, <2>2 DEF Holders
  <2>3. ASSUME NEW f \in Fds, fds[f] # "closed", acc_fd # f
        PROVE  \E s \in Slots : Holders(f) = {s}
    <3>1. PICK s \in Slots : sock[s] = f
      BY <1>1, <2>3
    <3>2. \A t \in Slots : sock[t] = f => t = s
      BY <1>1, <3>1
    <3>3. Holders(f) = {s}
      BY <3>1, <3>2 DEF Holders
    <3>4. QED
      BY <3>3
  <2>4. QED
    BY <2>1, <2>2, <2>3 DEF SocketsOwnedOnce
<1>2. QED
  BY <1>1, Invariant, PTL

(* The handshake gates both directions of the traffic                      *)
(* (tcp_server.c:234-255, 468-478).                                        *)
THEOREM OnlyAuthenticatedCorrect == Spec => []OnlyAuthenticated
<1>1. IInv => OnlyAuthenticated
  BY DEF IInv, AuthInv, UartInv, OnlyAuthenticated
<1>2. QED
  BY <1>1, Invariant, PTL

-----------------------------------------------------------------------------
(* TcpServer implements SlotPool: a step moves at most one slot, along an  *)
(* edge of the abstract pool.                                              *)

PoolSt == [s \in Slots |-> SlotState(s)]

(* A step after which every slot is in the same abstract state stutters.   *)
LEMMA SameStates ==
  ASSUME \A t \in Slots : SlotState(t)' = SlotState(t)
  PROVE  UNCHANGED PoolSt
BY DEF PoolSt

(* A step after which one slot is in a new abstract state moves that slot. *)
LEMMA OneMoves ==
  ASSUME NEW s \in Slots, NEW from, NEW to,
         SlotState(s) = from, SlotState(s)' = to,
         \A t \in Slots \ {s} : SlotState(t)' = SlotState(t)
  PROVE  PoolSt[s] = from /\ PoolSt' = [PoolSt EXCEPT ![s] = to]
BY DEF PoolSt

(* A step of the server is a step of the pool or a stutter of it.          *)
LEMMA PoolStep == IInv /\ [Next]_vars => [Pool!Next]_PoolSt
<1> SUFFICES ASSUME IInv, [Next]_vars PROVE Pool!Next \/ UNCHANGED PoolSt
  OBVIOUS
<1> USE DEF IInv, TypeOK, ControlInv, SlotInv, Slots, accVars, uartVars, slotVars, flagVars
<1>1. CASE \/ AccSetup \/ AccAccept \/ AccRefuse \/ AccAdmit \/ SpawnNoSlot
           \/ SpawnTxTask \/ SpawnTxFails \/ UndoTxRunning \/ UndoShutdown \/ Broadcast
  <2>1. UNCHANGED <<in_use, active, authed, rx_pc>>
    BY <1>1 DEF AccSetup, AccAccept, AccRefuse, AccAdmit, SpawnNoSlot, SpawnTxTask,
                SpawnTxFails, UndoTxRunning, UndoShutdown, Broadcast, BroadcastCall,
                BroadcastLock, BroadcastCheck, BroadcastSend, BroadcastUnlock
  <2>2. QED
    BY <2>1, SameStates DEF SlotState
<1>2. ASSUME NEW s \in Slots, Tx(s), ~TxSendFails(s)
      PROVE  UNCHANGED PoolSt
  <2>1. UNCHANGED <<in_use, active, authed, rx_pc>>
    BY <1>2 DEF Tx, TxStart, TxLoop, TxTake, TxSendDone, TxShutdown, TxEnd
  <2>2. QED
    BY <2>1, SameStates DEF SlotState
<1>3. ASSUME NEW s \in Slots,
             \/ RxStart(s) \/ RxHandshakeOk(s) \/ RxHandshakeFails(s) \/ RxLoop(s)
             \/ RxRecvData(s) \/ RxFeed(s) \/ RxRecvEnds(s) \/ RxShutdown(s) \/ RxWaitTx(s)
      PROVE  UNCHANGED PoolSt
  <2>1. UNCHANGED <<in_use, active, authed>>
    BY <1>3 DEF RxStart, RxHandshakeOk, RxHandshakeFails, RxLoop, RxRecvData, RxFeed,
                RxRecvEnds, RxShutdown, RxWaitTx
  <2>2. \A t \in Slots : rx_pc'[t] = "none" <=> rx_pc[t] = "none"
    BY <1>3 DEF RxStart, RxHandshakeOk, RxHandshakeFails, RxLoop, RxRecvData, RxFeed,
                RxRecvEnds, RxShutdown, RxWaitTx, GoRx
  <2>3. QED
    BY <2>1, <2>2, SameStates DEF SlotState
<1>4. CASE SpawnTakeSlot
  <2>1. PICK s \in Slots : /\ ~in_use[s]
                           /\ \A t \in 0 .. s - 1 : in_use[t]
                           /\ in_use' = [in_use EXCEPT ![s] = TRUE]
                           /\ active' = [active EXCEPT ![s] = TRUE]
                           /\ authed' = [authed EXCEPT ![s] = ~AuthReq]
    BY <1>4 DEF SpawnTakeSlot
  <2>2. rx_pc' = rx_pc /\ rx_pc[s] = "none"
    BY <1>4, <2>1 DEF SpawnTakeSlot
  <2>3. SlotState(s) = "free" /\ SlotState(s)' = "opening"
    BY <2>1, <2>2 DEF SlotState
  <2>4. \A t \in Slots \ {s} : SlotState(t)' = SlotState(t)
    BY <2>1, <2>2 DEF SlotState
  <2>5. \A t \in 0 .. s - 1 : PoolSt[t] # "free"
    BY <2>1 DEF SlotState, PoolSt
  <2>6. Pool!Open(s)
    BY <2>3, <2>4, <2>5, OneMoves DEF Pool!Open, Pool!Move, PoolSt
  <2>7. QED
    BY <2>6 DEF Pool!Next, Pool!Slots
<1>5. CASE SpawnAbort
  <2>1. PICK s \in Slots : s = acc_slot
    OBVIOUS
  <2>2. SlotState(s) = "opening" /\ SlotState(s)' = "free"
    BY <1>5, <2>1 DEF SpawnAbort, CloseSlotLocked, SlotState
  <2>3. \A t \in Slots \ {s} : SlotState(t)' = SlotState(t)
    BY <1>5, <2>1 DEF SpawnAbort, CloseSlotLocked, SlotState
  <2>4. Pool!Refuse(s)
    BY <2>2, <2>3, OneMoves DEF Pool!Refuse, Pool!Move, PoolSt
  <2>5. QED
    BY <2>4 DEF Pool!Next, Pool!Slots
<1>6. CASE SpawnRxTask
  <2>1. PICK s \in Slots : s = acc_slot
    OBVIOUS
  <2>2. SlotState(s) = "opening" /\ SlotState(s)' = (IF AuthReq THEN "pending" ELSE "serving")
    BY <1>6, <2>1 DEF SpawnRxTask, GoAcc, SlotState
  <2>3. \A t \in Slots \ {s} : SlotState(t)' = SlotState(t)
    BY <1>6, <2>1 DEF SpawnRxTask, GoAcc, SlotState
  <2>4. Pool!Start(s)
    BY <2>2, <2>3, OneMoves DEF Pool!Start, Pool!Move, PoolSt
  <2>5. QED
    BY <2>4 DEF Pool!Next, Pool!Slots
<1>7. ASSUME NEW s \in Slots, rx_pc[s] # "none", in_use' = in_use, authed' = authed,
             active' = [active EXCEPT ![s] = FALSE],
             \A t \in Slots : rx_pc'[t] = "none" <=> rx_pc[t] = "none"
      PROVE  Pool!Next \/ UNCHANGED PoolSt
  <2>1. \A t \in Slots \ {s} : SlotState(t)' = SlotState(t)
    BY <1>7 DEF SlotState
  <2>2. in_use[s] /\ SlotState(s)' = "closing"
    BY <1>7 DEF SlotState
  <2>3. CASE ~active[s]
    BY <1>7, <2>1, <2>2, <2>3, SameStates DEF SlotState
  <2>4. CASE active[s]
    <3>1. SlotState(s) \in {"pending", "serving"}
      BY <1>7, <2>2, <2>4 DEF SlotState
    <3>2. Pool!Disconnect(s)
      BY <2>1, <2>2, <3>1, OneMoves DEF Pool!Disconnect, Pool!Move, PoolSt
    <3>3. QED
      BY <3>2 DEF Pool!Next, Pool!Slots
  <2>5. QED
    BY <2>3, <2>4
<1>8. CASE UndoActive
  BY <1>7, <1>8 DEF UndoActive, GoAcc
<1>9. ASSUME NEW s \in Slots, RxReject(s) \/ RxDown(s) \/ TxSendFails(s)
      PROVE  Pool!Next \/ UNCHANGED PoolSt
  BY <1>7, <1>9 DEF RxReject, RxDown, TxSendFails, GoRx, GoTx
<1>10. ASSUME NEW s \in Slots, RxSetAuthed(s)
       PROVE  Pool!Next \/ UNCHANGED PoolSt
  <2>1. \A t \in Slots \ {s} : SlotState(t)' = SlotState(t)
    BY <1>10 DEF RxSetAuthed, GoRx, SlotState
  <2>2. CASE ~active[s] \/ authed[s]
    <3>1. SlotState(s)' = SlotState(s)
      BY <1>10, <2>2 DEF RxSetAuthed, GoRx, SlotState
    <3>2. QED
      BY <2>1, <3>1, SameStates
  <2>3. CASE active[s] /\ ~authed[s]
    <3>1. SlotState(s) = "pending" /\ SlotState(s)' = "serving" /\ AuthReq
      BY <1>10, <2>3 DEF RxSetAuthed, GoRx, SlotState, AuthInv
    <3>2. Pool!Authenticate(s)
      BY <2>1, <3>1, OneMoves DEF Pool!Authenticate, Pool!Move, PoolSt
    <3>3. QED
      BY <3>2 DEF Pool!Next, Pool!Slots
  <2>4. QED
    BY <2>2, <2>3
<1>11. ASSUME NEW s \in Slots, RxClose(s) PROVE Pool!Next
  <2>1. SlotState(s) = "closing" /\ SlotState(s)' = "free"
    BY <1>11 DEF RxClose, CloseSlotLocked, GoRx, SlotState
  <2>2. \A t \in Slots \ {s} : SlotState(t)' = SlotState(t)
    BY <1>11 DEF RxClose, CloseSlotLocked, GoRx, SlotState
  <2>3. Pool!Release(s)
    BY <2>1, <2>2, OneMoves DEF Pool!Release, Pool!Move, PoolSt
  <2>4. QED
    BY <2>3 DEF Pool!Next, Pool!Slots
<1>12. CASE UNCHANGED vars
  BY <1>12, SameStates DEF vars, SlotState
<1>13. QED
  BY <1>1, <1>2, <1>3, <1>4, <1>5, <1>6, <1>8, <1>9, <1>10, <1>11, <1>12
     DEF Next, Accept, Rx, Tx

(* The server keeps the pool's promise: a slot is opened only when free,   *)
(* serves only after its handshake, never serves again once closing, and   *)
(* is freed only from there.                                               *)
THEOREM ImplementsPool == Spec => PoolSpec
<1>1. Init => Pool!Init
  BY DEF Init, Pool!Init, Pool!Slots, Slots, SlotState
<1>2. IInv /\ [Next]_vars => [Pool!Next]_PoolSt
  BY PoolStep
<1>3. QED
  BY <1>1, <1>2, Invariant, PTL DEF Spec, PoolSpec, Pool!Spec, PoolSt


-----------------------------------------------------------------------------
(***************************************************************************)
(* Proofs about the rate limiter's table, for any number of entries, of    *)
(* addresses, of handshakes at a time and of ticks.                        *)
(*                                                                         *)
(* No address has two entries (Unique), so that a block is lost only when  *)
(* its one entry is used for another address, which takes a table full of  *)
(* others and the oldest window (IndexFound).  As long as an address keeps *)
(* its entry, the entry accounts for all failures of the last window       *)
(* (Accounted): those since its own start are in its count, of the earlier *)
(* ones fewer than MaxFails can matter.                                    *)
(***************************************************************************)


Typed == /\ rl \in [Entries -> Entry]
         /\ now \in Nat
         /\ ip_be \in [Handshakes -> Ips \cup {NoIp}]
         /\ DOMAIN fails = Ips

Unique == \A i \in Entries, j \in Entries : rl[i].ip = rl[j].ip /\ rl[i].ip # NoIp => i = j

(* The inductive invariant. *)
TableInv == Typed /\ Unique

(* The failures in the count of an entry, and those before its window that *)
(* are not behind its block.                                               *)
Counted(F, e) == {f \in F : f.at >= e.start}
Earlier(F, e) == {f \in F : f.at < e.start /\ f.at > e.until - Window}

(* What the entry of an address says of the failures F of the address.     *)
Accounted(F, e) ==
  /\ e.start <= now
  /\ \A f \in F : f.at <= e.start + Window
  /\ Cardinality(Counted(F, e)) <= e.count
  /\ e.count >= MaxFails => \A f \in F : f.at <= e.until - Window
  /\ Cardinality(Earlier(F, e)) <= MaxFails - 1

Recorded(F) == /\ F \in SUBSET [at : 0 .. now, no : Nat] /\ IsFiniteSet(F)
               /\ \A f \in F : f.at > now - Window

History == /\ fails \in [Ips -> SUBSET [at : 0 .. now, no : Nat]]
           /\ \A ip \in Ips : Recorded(fails[ip])

Accounts ==
  \A ip \in Ips :
    /\ \A i \in Entries : rl[i].ip = ip => Accounted(fails[ip], rl[i])
    /\ (\A i \in Entries : rl[i].ip # ip) => fails[ip] = {}

(* The inductive invariant of the bound.                                   *)
BoundInv == TableInv /\ now <= MaxTime /\ History /\ Accounts /\ GuessesBounded

USE RlSlotsAssumption, WindowAssumption, NoIpAssumption

-----------------------------------------------------------------------------
LEMMA FirstFound ==
  ASSUME NEW S \in SUBSET Nat, S # {} PROVE First(S) \in S
  <1>1. IsWellFoundedOn(OpToRel(<, Nat), Nat)
    BY NatLessThanWellFounded
  <1>2. PICK x \in S : \A y \in S : ~(<<y, x>> \in OpToRel(<, Nat))
    BY <1>1, WFMin
  <1>3. \A y \in S : ~(y < x)
    BY <1>2 DEF OpToRel
  <1>4. \E i \in S : \A j \in S : i <= j
    BY <1>3
  <1> QED BY <1>4 DEF First

(* There is an entry whose window started first.                           *)
LEMMA OldestFound ==
  ASSUME Typed
  PROVE  OldestEntry \in Entries /\ \A j \in Entries : rl[OldestEntry].start <= rl[j].start
  <1> DEFINE starts == {rl[i].start : i \in Entries}
             S == {i \in Entries : \A j \in Entries : rl[i].start <= rl[j].start}
  <1>1. \A i \in Entries : rl[i].start \in Nat
    BY DEF Typed, Entry
  <1>2. 0 \in Entries /\ Entries \in SUBSET Nat
    BY DEF Entries
  <1>3. starts \in SUBSET Nat /\ starts # {}
    BY <1>1, <1>2
  <1>4. IsWellFoundedOn(OpToRel(<, Nat), Nat)
    BY NatLessThanWellFounded
  <1>5. PICK x \in starts : \A y \in starts : ~(<<y, x>> \in OpToRel(<, Nat))
    <2> HIDE DEF starts
    <2> QED BY <1>3, <1>4, WFMin
  <1>6. \A y \in starts : ~(y < x)
    BY <1>3, <1>5 DEF OpToRel
  <1>7. PICK i \in Entries : rl[i].start = x
    OBVIOUS
  <1>8. i \in S
    BY <1>1, <1>6, <1>7
  <1>9. S \in SUBSET Nat /\ S # {}
    BY <1>2, <1>8
  <1>10. OldestEntry = First(S)
    BY DEF OldestEntry
  <1>11. First(S) \in S
    <2> HIDE DEF S
    <2> QED BY <1>9, FirstFound
  <1> QED BY <1>10, <1>11

(* The entry used for an address is its own or a free one, and another     *)
(* one's only when the table is full and no window started earlier.        *)
LEMMA IndexFound ==
  ASSUME TableInv, NEW ip \in Ips
  PROVE  /\ IndexFor(ip) \in Entries
         /\ Known(ip) # {} => rl[IndexFor(ip)].ip = ip
         /\ Known(ip) = {} => \A i \in Entries : rl[i].ip # ip
         /\ rl[IndexFor(ip)].ip \notin {ip, NoIp} =>
              /\ Known(ip) = {}
              /\ \A j \in Entries : rl[j].ip # NoIp /\ rl[IndexFor(ip)].start <= rl[j].start
  <1>0. Entries \subseteq Nat
    BY DEF Entries
  <1>1. CASE Known(ip) # {}
    <2>1. IndexFor(ip) = First(Known(ip)) /\ Known(ip) \in SUBSET Nat
      BY <1>0, <1>1 DEF IndexFor, Known
    <2>2. IndexFor(ip) \in Known(ip)
      BY <1>1, <2>1, FirstFound
    <2> QED BY <1>1, <2>2 DEF Known
  <1>2. CASE Known(ip) = {} /\ Known(NoIp) # {}
    <2>1. IndexFor(ip) = First(Known(NoIp)) /\ Known(NoIp) \in SUBSET Nat
      BY <1>0, <1>2 DEF IndexFor, Known
    <2>2. IndexFor(ip) \in Known(NoIp)
      BY <1>2, <2>1, FirstFound
    <2> QED BY <1>2, <2>2 DEF Known
  <1>3. CASE Known(ip) = {} /\ Known(NoIp) = {}
    <2>1. IndexFor(ip) = OldestEntry
      BY <1>3 DEF IndexFor
    <2>2. OldestEntry \in Entries /\ \A j \in Entries : rl[OldestEntry].start <= rl[j].start
      BY OldestFound DEF TableInv
    <2>3. \A j \in Entries : rl[j].ip # NoIp /\ rl[j].ip # ip
      BY <1>3 DEF Known
    <2> QED BY <1>3, <2>1, <2>2, <2>3
  <1> QED BY <1>1, <1>2, <1>3

(* Giving the address its entry, changed or not, keeps the table in order, *)
(* and leaves the entries of the other addresses as they are.              *)
LEMMA EntryTyped ==
  ASSUME TableInv, NEW ip \in Ips
  PROVE  EntryFor(ip) \in Entry /\ EntryFor(ip).ip = ip
  <1>1. CASE Known(ip) # {}
    BY <1>1, IndexFound DEF EntryFor, TableInv, Typed
  <1>2. CASE Known(ip) = {}
    <2>1. EntryFor(ip) = [ip |-> ip, start |-> now, count |-> 0, until |-> 0]
      BY <1>2 DEF EntryFor
    <2> QED BY <2>1 DEF Entry, TableInv, Typed
  <1> QED BY <1>1, <1>2

LEMMA TableUpdated ==
  ASSUME TableInv, NEW ip \in Ips, NEW e \in Entry, e.ip = ip,
         rl' = [rl EXCEPT ![IndexFor(ip)] = e]
  PROVE  /\ rl' \in [Entries -> Entry] /\ Unique'
         /\ \A i \in Entries : i # IndexFor(ip) => rl'[i] = rl[i]
         /\ rl'[IndexFor(ip)] = e
  <1>1. IndexFor(ip) \in Entries
    BY IndexFound
  <1>2. /\ rl' \in [Entries -> Entry] /\ rl'[IndexFor(ip)] = e
        /\ \A i \in Entries : i # IndexFor(ip) => rl'[i] = rl[i]
    BY <1>1 DEF TableInv, Typed
  <1>3. \A i \in Entries : rl[i].ip = ip => i = IndexFor(ip)
    BY IndexFound DEF TableInv, Unique
  <1>4. Unique'
    BY <1>1, <1>2, <1>3 DEF TableInv, Unique, Entries
  <1> QED BY <1>2, <1>4

(* One more failure never shortens a block. *)
LEMMA FailedEntryFacts ==
  ASSUME NEW e \in Entry, now \in Nat
  PROVE  /\ FailedEntry(e) \in Entry /\ FailedEntry(e).ip = e.ip
         /\ Blocks(e) => Blocks(FailedEntry(e))
  <1> DEFINE fresh == now - e.start > Window
             count == IF fresh THEN 1 ELSE e.count + 1
             start == IF fresh THEN now ELSE e.start
             until == IF count >= MaxFails THEN now + Window ELSE e.until
  <1>1. e.ip \in Ips \cup {NoIp} /\ e.start \in Nat /\ e.count \in Nat /\ e.until \in Nat
    BY DEF Entry
  <1>2. count \in Nat /\ start \in Nat
    BY <1>1
  <1>3. until \in Nat /\ (e.until > now => until > now)
    BY <1>1, <1>2, MaxFailsAssumption
  <1>4. FailedEntry(e) = [e EXCEPT !.start = start, !.count = count, !.until = until]
    BY DEF FailedEntry
  <1> HIDE DEF fresh, count, start, until
  <1>5. e = [ip |-> e.ip, start |-> e.start, count |-> e.count, until |-> e.until]
    BY DEF Entry
  <1>6. FailedEntry(e) = [ip |-> e.ip, start |-> start, count |-> count, until |-> until]
    BY <1>4, <1>5
  <1> QED BY <1>1, <1>2, <1>3, <1>6 DEF Entry, Blocks

-----------------------------------------------------------------------------
(* Blocks go on, but for the address whose entry is taken.                 *)
LEMMA OthersKept ==
  ASSUME TableInv, NEW ip \in Ips, NEW e \in Entry, e.ip = ip, now' = now,
         rl' = [rl EXCEPT ![IndexFor(ip)] = e], NEW a \in Ips \ {ip}, IsBlocked(a)
  PROVE  IsBlocked(a)' \/ GivesWay(a)
  <1>1. PICK i \in Entries : rl[i].ip = a /\ rl[i].until > now
    BY DEF IsBlocked, Known, Blocks
  <1>2. /\ \A j \in Entries : j # IndexFor(ip) => rl'[j] = rl[j]
        /\ rl'[IndexFor(ip)] = e
    BY TableUpdated
  <1>3. CASE i = IndexFor(ip)
    <2>1. rl[IndexFor(ip)].ip \notin {ip, NoIp}
      BY <1>1, <1>3
    <2>2. Known(ip) = {} /\ \A j \in Entries : rl[j].ip # NoIp /\ rl[i].start <= rl[j].start
      BY <1>3, <2>1, IndexFound
    <2>3. i \in Known(a) /\ rl'[i].ip = ip
      BY <1>1, <1>2, <1>3 DEF Known
    <2> QED BY <2>2, <2>3 DEF GivesWay
  <1>4. CASE i # IndexFor(ip)
    BY <1>1, <1>2, <1>4 DEF IsBlocked, Known, Blocks
  <1> QED BY <1>3, <1>4

(* What the calls that go through the table do to it and to the blocks.    *)

LEMMA ConnectKeeps ==
  ASSUME TableInv, NEW ip \in Ips, Connect(ip)
  PROVE  /\ TableInv' /\ \A a \in Ips : IsBlocked(a) => IsBlocked(a)' \/ GivesWay(a)
  <1>1. EntryFor(ip) \in Entry /\ EntryFor(ip).ip = ip
    BY EntryTyped
  <1>2. rl' = [rl EXCEPT ![IndexFor(ip)] = EntryFor(ip)] /\ now' = now /\ DOMAIN fails' = Ips
    BY DEF Connect, Remaining
  <1>3. PICK e \in Entry : e = EntryFor(ip) /\ e.ip = ip
    BY <1>1
  <1>4. /\ rl' \in [Entries -> Entry] /\ Unique'
        /\ rl'[IndexFor(ip)] = e
    BY <1>2, <1>3, TableUpdated
  <1>5. ip_be' \in [Handshakes -> Ips \cup {NoIp}]
    BY DEF Connect, TableInv, Typed
  <1>6. TableInv'
    BY <1>2, <1>4, <1>5 DEF TableInv, Typed
  <1>7. ASSUME NEW a \in Ips, IsBlocked(a) PROVE IsBlocked(a)' \/ GivesWay(a)
    <2>1. CASE a = ip
      <3>1. PICK i \in Entries : rl[i].ip = ip /\ rl[i].until > now
        BY <1>7, <2>1 DEF IsBlocked, Known, Blocks
      <3>2. rl[IndexFor(ip)].ip = ip /\ IndexFor(ip) \in Entries /\ Known(ip) # {}
        BY <3>1, IndexFound DEF Known
      <3>3. i = IndexFor(ip) /\ e = rl[i]
        BY <1>3, <3>1, <3>2 DEF EntryFor, TableInv, Unique
      <3> QED BY <1>2, <1>4, <2>1, <3>1, <3>3 DEF IsBlocked, Known, Blocks
    <2>2. CASE a # ip
      BY <1>2, <1>3, <1>7, <2>2, OthersKept
    <2> QED BY <2>1, <2>2
  <1> QED BY <1>6, <1>7

LEMMA FailKeeps ==
  ASSUME TableInv, NEW s \in Handshakes, RecordFail(s)
  PROVE  /\ TableInv' /\ \A a \in Ips : IsBlocked(a) => IsBlocked(a)' \/ GivesWay(a)
  <1> DEFINE ip == ip_be[s]
  <1>0. ip \in Ips
    BY DEF RecordFail, TableInv, Typed
  <1> HIDE DEF ip
  <1>1. EntryFor(ip) \in Entry /\ EntryFor(ip).ip = ip
    BY <1>0, EntryTyped
  <1>2. /\ FailedEntry(EntryFor(ip)) \in Entry /\ FailedEntry(EntryFor(ip)).ip = ip
        /\ Blocks(EntryFor(ip)) => Blocks(FailedEntry(EntryFor(ip)))
    BY <1>1, FailedEntryFacts DEF TableInv, Typed
  <1>3. /\ rl' = [rl EXCEPT ![IndexFor(ip)] = FailedEntry(EntryFor(ip))] /\ now' = now
        /\ DOMAIN fails' = Ips
        /\ ip_be' = [ip_be EXCEPT ![s] = NoIp]
    BY DEF RecordFail, Remaining, ip
  <1>4. /\ rl' \in [Entries -> Entry] /\ Unique'
        /\ \A i \in Entries : i # IndexFor(ip) => rl'[i] = rl[i]
        /\ rl'[IndexFor(ip)] = FailedEntry(EntryFor(ip))
    BY <1>0, <1>2, <1>3, TableUpdated
  <1>5. TableInv'
    <2>1. DOMAIN fails' = Ips /\ ip_be' \in [Handshakes -> Ips \cup {NoIp}]
      BY <1>3 DEF TableInv, Typed
    <2> QED BY <1>3, <1>4, <2>1 DEF TableInv, Typed
  <1>6. ASSUME NEW a \in Ips, IsBlocked(a) PROVE IsBlocked(a)' \/ GivesWay(a)
    <2>1. CASE a = ip
      <3>1. PICK i \in Entries : rl[i].ip = ip /\ rl[i].until > now
        BY <1>6, <2>1 DEF IsBlocked, Known, Blocks
      <3>2. rl[IndexFor(ip)].ip = ip /\ IndexFor(ip) \in Entries /\ Known(ip) # {}
        BY <1>0, <3>1, IndexFound DEF Known
      <3>3. i = IndexFor(ip)
        BY <1>0, <3>1, <3>2, NoIpAssumption DEF TableInv, Unique
      <3>6. EntryFor(ip) = rl[i]
        BY <3>2, <3>3 DEF EntryFor
      <3>4. Blocks(FailedEntry(EntryFor(ip)))
        BY <1>2, <3>1, <3>6 DEF Blocks
      <3>5. rl'[i].ip = ip /\ rl'[i].until > now
        BY <1>2, <1>4, <3>3, <3>4 DEF Blocks
      <3> QED BY <1>3, <2>1, <3>5 DEF IsBlocked, Known, Blocks
    <2>2. CASE a # ip
      <3>1. PICK e \in Entry : e = FailedEntry(EntryFor(ip)) /\ e.ip = ip
        BY <1>2
      <3> QED BY <1>0, <1>3, <1>6, <2>2, <3>1, OthersKept
    <2> QED BY <2>1, <2>2
  <1> QED BY <1>5, <1>6

LEMMA SuccessKeeps ==
  ASSUME TableInv, NEW s \in Handshakes, RecordSuccess(s)
  PROVE  /\ TableInv' /\ \A a \in Ips : IsBlocked(a) =>
             IsBlocked(a)' \/ (Known(a)' # {} /\ fails'[a] = {}) \/ GivesWay(a)
  <1>0. PICK ip \in Ips : ip = ip_be[s]
    BY DEF RecordSuccess, TableInv, Typed
  <1> DEFINE e == [EntryFor(ip) EXCEPT !.count = 0, !.until = 0]
  <1>1. e \in Entry /\ e.ip = ip
    BY <1>0, EntryTyped DEF Entry
  <1>2. /\ rl' = [rl EXCEPT ![IndexFor(ip)] = e] /\ now' = now
        /\ DOMAIN fails' = Ips /\ fails'[ip] = {}
        /\ ip_be' = [ip_be EXCEPT ![s] = NoIp]
    BY <1>0 DEF RecordSuccess, Remaining
  <1> HIDE DEF e
  <1>3. /\ rl' \in [Entries -> Entry] /\ Unique'
        /\ \A i \in Entries : i # IndexFor(ip) => rl'[i] = rl[i]
        /\ rl'[IndexFor(ip)] = e
    BY <1>0, <1>1, <1>2, TableUpdated
  <1>4. TableInv'
    <2>1. DOMAIN fails' = Ips /\ ip_be' \in [Handshakes -> Ips \cup {NoIp}]
      BY <1>2 DEF TableInv, Typed
    <2> QED BY <1>2, <1>3, <2>1 DEF TableInv, Typed
  <1>5. ASSUME NEW a \in Ips, IsBlocked(a)
        PROVE  IsBlocked(a)' \/ (Known(a)' # {} /\ fails'[a] = {}) \/ GivesWay(a)
    <2>1. CASE a = ip
      <3>1. PICK i \in Entries : i = IndexFor(ip)
        BY <1>0, IndexFound
      <3>2. i \in Known(ip)'
        BY <1>1, <1>3, <3>1 DEF Known, Entries
      <3>3. Known(a)' # {}
        BY <2>1, <3>2 DEF Known
      <3> QED BY <1>2, <2>1, <3>3
    <2>2. CASE a # ip
      BY <1>0, <1>1, <1>2, <1>5, <2>2, OthersKept
    <2> QED BY <2>1, <2>2
  <1> QED BY <1>4, <1>5

LEMMA TickKeeps == TableInv /\ Tick => TableInv'
  BY DEF TableInv, Typed, Unique, Tick

LEMMA StepKeepsInv == TableInv /\ [LimiterNext]_limiterVars => TableInv'
  <1>1. TableInv /\ UNCHANGED limiterVars => TableInv'
    BY DEF TableInv, Typed, Unique, limiterVars
  <1> QED BY <1>1, ConnectKeeps, FailKeeps, SuccessKeeps, TickKeeps DEF LimiterNext

LEMMA InitInv == LimiterInit => TableInv
  BY DEF LimiterInit, FreeEntry, Entry, TableInv, Typed, Unique
-----------------------------------------------------------------------------
(* The bound on guesses.                                                   *)

(* A failure of this tick has a number of its own.                         *)
LEMMA FailureIsNew ==
  ASSUME NEW F, IsFiniteSet(F)
  PROVE  Unused(F) \in Nat /\ Failure(Unused(F)) \notin F
  <1> DEFINE C == Cardinality(F)
             N == 0 .. C
             failure == [n \in N |-> Failure(n)]
  <1>1. C \in Nat
    BY FS_CardinalityType
  <1>2. \E n \in N : Failure(n) \notin F
    <2> SUFFICES ASSUME \A n \in N : Failure(n) \in F PROVE FALSE
      OBVIOUS
    <2>1. failure \in [N -> F]
      OBVIOUS
    <2>2. IsFiniteSet(N) /\ Cardinality(N) = C + 1
      BY <1>1, FS_Interval
    <2>3. Cardinality(F) < Cardinality(N)
      BY <1>1, <2>2
    <2>4. \E x, y \in N : x # y /\ failure[x] = failure[y]
      <3> HIDE DEF failure, N
      <3> QED BY <2>1, <2>2, <2>3, FS_PigeonHole
    <2> QED BY <2>4 DEF Failure
  <1>3. Unused(F) \in N /\ Failure(Unused(F)) \notin F
    BY <1>2 DEF Unused
  <1> QED BY <1>1, <1>3

(* Fewer than MaxFails in the count and fewer before it: an address that   *)
(* is not blocked has failed at most 2 * MaxFails - 2 times in a window.   *)
LEMMA FewUnblocked ==
  ASSUME now \in Nat, NEW F, Recorded(F), NEW e \in Entry, Accounted(F, e), ~Blocks(e)
  PROVE  Cardinality(F) <= 2 * MaxFails - 2
  <1>1. e.start \in Nat /\ e.count \in Nat /\ e.until \in Nat /\ e.until <= now
    BY DEF Entry, Blocks
  <1>2. \A f \in F : f.at \in Nat /\ f.at > now - Window
    BY DEF Recorded
  <1>3. CASE e.count >= MaxFails
    <2>1. \A f \in F : f.at <= e.until - Window
      BY <1>3 DEF Accounted
    <2>2. F = {}
      BY <1>1, <1>2, <2>1
    <2> QED BY <2>2, FS_EmptySet, MaxFailsAssumption
  <1>4. CASE ~(e.count >= MaxFails)
    <2>1. F = Counted(F, e) \cup Earlier(F, e)
      BY <1>1, <1>2 DEF Counted, Earlier
    <2>2. /\ IsFiniteSet(Counted(F, e)) /\ IsFiniteSet(Earlier(F, e))
          /\ IsFiniteSet(Counted(F, e) \cap Earlier(F, e))
      BY FS_Subset DEF Recorded, Counted, Earlier
    <2>3. Cardinality(F) = Cardinality(Counted(F, e)) + Cardinality(Earlier(F, e))
                           - Cardinality(Counted(F, e) \cap Earlier(F, e))
      BY <2>1, <2>2, FS_Union
    <2>4. /\ Cardinality(Counted(F, e)) \in Nat /\ Cardinality(Earlier(F, e)) \in Nat
          /\ Cardinality(Counted(F, e) \cap Earlier(F, e)) \in Nat
      BY <2>2, FS_CardinalityType
    <2>5. Cardinality(Counted(F, e)) <= e.count /\ Cardinality(Earlier(F, e)) <= MaxFails - 1
      BY DEF Accounted
    <2> QED BY <1>1, <1>4, <2>3, <2>4, <2>5, MaxFailsAssumption
  <1> QED BY <1>3, <1>4

(* One more failure is accounted for, also when it opens a new window: the *)
(* failures of the old one then become the earlier ones.                   *)
LEMMA FailAccounted ==
  ASSUME now \in Nat, NEW F, Recorded(F), NEW e \in Entry, Accounted(F, e),
         NEW n \in Nat, Failure(n) \notin F
  PROVE  /\ Recorded(F \cup {Failure(n)}) /\ Accounted(F \cup {Failure(n)}, FailedEntry(e))
         /\ Cardinality(F \cup {Failure(n)}) = Cardinality(F) + 1
  <1> DEFINE G     == F \cup {Failure(n)}
             fresh == now - e.start > Window
             count == IF fresh THEN 1 ELSE e.count + 1
             start == IF fresh THEN now ELSE e.start
             until == IF count >= MaxFails THEN now + Window ELSE e.until
             x     == FailedEntry(e)
  <1>1. e.start \in Nat /\ e.count \in Nat /\ e.until \in Nat /\ MaxFails \in Nat /\ MaxFails > 0
    BY MaxFailsAssumption DEF Entry
  <1>2. x = [ip |-> e.ip, start |-> start, count |-> count, until |-> until]
    <2>1. x = [e EXCEPT !.start = start, !.count = count, !.until = until]
      BY DEF FailedEntry
    <2> HIDE DEF x, fresh, count, start, until
    <2>2. e = [ip |-> e.ip, start |-> e.start, count |-> e.count, until |-> e.until]
      BY DEF Entry
    <2> QED BY <2>1, <2>2
  <1>3. x.start = start /\ x.count = count /\ x.until = until
    BY <1>2
  <1>4. IsFiniteSet(F) /\ \A f \in F : f.at \in Nat /\ f.at <= now /\ f.at > now - Window
    BY DEF Recorded
  <1>5. Failure(n).at = now
    BY DEF Failure
  <1>6. IsFiniteSet(G) /\ Cardinality(G) = Cardinality(F) + 1
    BY <1>4, FS_AddElement
  <1>7. Recorded(G)
    <2>1. Failure(n) \in [at : 0 .. now, no : Nat]
      BY DEF Failure
    <2> QED BY <1>4, <1>5, <1>6, <2>1 DEF Recorded
  <1>8. /\ e.start <= now
        /\ \A f \in F : f.at <= e.start + Window
        /\ Cardinality(Counted(F, e)) <= e.count
        /\ e.count >= MaxFails => \A f \in F : f.at <= e.until - Window
        /\ Cardinality(Earlier(F, e)) <= MaxFails - 1
    BY DEF Accounted
  <1>9. /\ IsFiniteSet(Counted(F, e)) /\ Cardinality(Counted(F, e)) \in Nat
        /\ IsFiniteSet(Earlier(F, e)) /\ Cardinality(Earlier(F, e)) \in Nat
    BY <1>4, FS_Subset, FS_CardinalityType DEF Counted, Earlier
  <1> HIDE DEF x, G
  <1>10. CASE fresh
    <2>1. \A f \in F : f.at < now
      BY <1>1, <1>4, <1>8, <1>10
    <2>2. x.start = now /\ x.count = 1
      BY <1>3, <1>10
    <2>3. Counted(G, x) = {Failure(n)}
      BY <1>4, <1>5, <2>1, <2>2 DEF Counted, G
    <2>4. Cardinality(Counted(G, x)) = 1
      BY <2>3, FS_Singleton
    <2>5. x.count >= MaxFails => x.until = now + Window
      BY <1>3
    <2>6. x.count >= MaxFails => \A f \in G : f.at <= x.until - Window
      BY <1>4, <1>5, <2>5 DEF G
    <2>7. Cardinality(Earlier(G, x)) <= MaxFails - 1
      <3>1. CASE x.count >= MaxFails
        <4>1. Earlier(G, x) = {}
          BY <1>4, <1>5, <2>5, <3>1 DEF Earlier, G
        <4> QED BY <1>1, <4>1, FS_EmptySet
      <3>2. CASE ~(x.count >= MaxFails) /\ e.count >= MaxFails
        <4>1. x.until = e.until
          BY <1>3, <3>2
        <4>2. Earlier(G, x) = {}
          BY <1>1, <1>4, <1>5, <1>8, <2>2, <3>2, <4>1 DEF Earlier, G
        <4> QED BY <1>1, <4>2, FS_EmptySet
      <3>3. CASE ~(e.count >= MaxFails)
        <4>1. Earlier(G, x) \subseteq Counted(F, e)
          BY <1>1, <1>4, <1>5, <1>10, <2>2 DEF Earlier, Counted, G
        <4>2. Cardinality(Earlier(G, x)) <= Cardinality(Counted(F, e))
          BY <1>9, <4>1, FS_Subset
        <4>3. Cardinality(Earlier(G, x)) \in Nat
          BY <1>9, <4>1, FS_Subset, FS_CardinalityType
        <4> QED BY <1>1, <1>8, <1>9, <3>3, <4>2, <4>3
      <3> QED BY <3>1, <3>2, <3>3
    <2>8. \A f \in G : f.at <= x.start + Window
      BY <1>4, <1>5, <2>2 DEF G
    <2>9. Accounted(G, x)
      BY <2>2, <2>4, <2>6, <2>7, <2>8 DEF Accounted
    <2> QED BY <1>6, <1>7, <2>9 DEF G, x
  <1>11. CASE ~fresh
    <2>1. x.start = e.start /\ x.count = e.count + 1
      BY <1>3, <1>11
    <2>2. Counted(G, x) = Counted(F, e) \cup {Failure(n)}
      BY <1>5, <1>8, <2>1 DEF Counted, G
    <2>3. Cardinality(Counted(G, x)) = Cardinality(Counted(F, e)) + 1
      BY <1>9, <2>2, FS_AddElement DEF Counted
    <2>4. x.count >= MaxFails => x.until = now + Window
      BY <1>3
    <2>5. x.count >= MaxFails => \A f \in G : f.at <= x.until - Window
      BY <1>4, <1>5, <2>4 DEF G
    <2>6. Cardinality(Earlier(G, x)) <= MaxFails - 1
      <3>1. CASE x.count >= MaxFails
        <4>1. Earlier(G, x) = {}
          BY <1>4, <1>5, <2>4, <3>1 DEF Earlier, G
        <4> QED BY <1>1, <4>1, FS_EmptySet
      <3>2. CASE ~(x.count >= MaxFails)
        <4>1. x.until = e.until
          BY <1>3, <3>2
        <4>2. Earlier(G, x) = Earlier(F, e)
          BY <1>1, <1>5, <1>8, <2>1, <4>1 DEF Earlier, G
        <4> QED BY <1>8, <4>2
      <3> QED BY <3>1, <3>2
    <2>7. \A f \in G : f.at <= x.start + Window
      BY <1>1, <1>5, <1>8, <1>11, <2>1 DEF G
    <2>8. Accounted(G, x)
      BY <1>1, <1>8, <1>9, <2>1, <2>3, <2>5, <2>6, <2>7 DEF Accounted
    <2> QED BY <1>6, <1>7, <2>8 DEF G, x
  <1> QED BY <1>10, <1>11

(* Nothing has failed: at the start of an entry, and after a success.      *)
LEMMA NothingAccounted ==
  ASSUME NEW e, e.start \in Nat, e.start <= now, e.count \in Nat
  PROVE  Accounted({}, e) /\ Recorded({})
  <1>1. Counted({}, e) = {} /\ Earlier({}, e) = {}
    BY DEF Counted, Earlier
  <1> QED BY <1>1, FS_EmptySet, MaxFailsAssumption DEF Accounted, Recorded

(* Time only takes failures away.                                          *)
LEMMA TickAccounted ==
  ASSUME now \in Nat, now' = now + 1, NEW F, NEW e \in Entry, Recorded(F), Accounted(F, e),
         NEW G, G = {f \in F : f.at > now' - Window}
  PROVE  Recorded(G)' /\ Accounted(G, e)' /\ Cardinality(G) <= Cardinality(F)
  <1>1. IsFiniteSet(F) /\ F \in SUBSET [at : 0 .. now, no : Nat]
    BY DEF Recorded
  <1>2. G \subseteq F /\ Counted(G, e) \subseteq Counted(F, e) /\ Earlier(G, e) \subseteq Earlier(F, e)
    BY DEF Counted, Earlier
  <1>3. IsFiniteSet(Counted(F, e)) /\ IsFiniteSet(Earlier(F, e))
    BY <1>1, FS_Subset DEF Counted, Earlier
  <1>4. /\ IsFiniteSet(G) /\ Cardinality(G) <= Cardinality(F)
        /\ Cardinality(Counted(G, e)) <= Cardinality(Counted(F, e))
        /\ Cardinality(Earlier(G, e)) <= Cardinality(Earlier(F, e))
    BY <1>1, <1>2, <1>3, FS_Subset
  <1>5. /\ Cardinality(Counted(G, e)) \in Nat /\ Cardinality(Counted(F, e)) \in Nat
        /\ Cardinality(Earlier(G, e)) \in Nat /\ Cardinality(Earlier(F, e)) \in Nat
    BY <1>2, <1>3, FS_Subset, FS_CardinalityType
  <1>6. 0 .. now \subseteq 0 .. now'
    OBVIOUS
  <1>7. Recorded(G)'
    BY <1>1, <1>4, <1>6 DEF Recorded
  <1>8. e.start \in Nat /\ e.count \in Nat
    BY DEF Entry
  <1>9. Accounted(G, e)'
    <2>1. Counted(G, e)' = Counted(G, e) /\ Earlier(G, e)' = Earlier(G, e)
      BY DEF Counted, Earlier
    <2> QED BY <1>2, <1>4, <1>5, <1>8, <2>1, MaxFailsAssumption DEF Accounted
  <1> QED BY <1>4, <1>7, <1>9

LEMMA GuessingFacts ==
  \A ip : Guessing(ip) \in Nat /\ Guessing(ip) <= Cardinality(Handshakes) /\ Cardinality(Handshakes) \in Nat
  BY HandshakesAssumption, FS_Subset, FS_CardinalityType DEF Guessing

(* The entry that is used for an address accounts for its failures.        *)
LEMMA EntryAccounted ==
  ASSUME BoundInv, NEW ip \in Ips
  PROVE  Accounted(fails[ip], EntryFor(ip)) /\ Recorded(fails[ip])
  <1>1. Recorded(fails[ip])
    BY DEF BoundInv, History
  <1>2. CASE Known(ip) # {}
    <2>1. EntryFor(ip) = rl[IndexFor(ip)] /\ IndexFor(ip) \in Entries /\ rl[IndexFor(ip)].ip = ip
      BY <1>2, IndexFound DEF EntryFor, BoundInv
    <2> QED BY <1>1, <2>1 DEF BoundInv, Accounts
  <1>3. CASE Known(ip) = {}
    <2>1. fails[ip] = {}
      BY <1>3 DEF Known, BoundInv, Accounts
    <2>2. EntryFor(ip) = [ip |-> ip, start |-> now, count |-> 0, until |-> 0]
      BY <1>3 DEF EntryFor
    <2>3. now \in Nat
      BY DEF BoundInv, TableInv, Typed
    <2> HIDE DEF EntryFor
    <2>4. EntryFor(ip).start = now /\ EntryFor(ip).count = 0
      BY <2>2
    <2> QED BY <1>1, <2>1, <2>3, <2>4, NothingAccounted
  <1> QED BY <1>2, <1>3

(* An entry written together with its address's failures.                  *)
LEMMA AccountsUpdated ==
  ASSUME BoundInv, NEW ip \in Ips, NEW e \in Entry, e.ip = ip,
         rl' = [rl EXCEPT ![IndexFor(ip)] = e], now' = now,
         NEW G, Recorded(G), Accounted(G, e), fails' = [Remaining(ip) EXCEPT ![ip] = G]
  PROVE  /\ History' /\ Accounts' /\ fails'[ip] = G
         /\ \A a \in Ips \ {ip} : Cardinality(fails'[a]) <= Cardinality(fails[a])
  <1>1. fails \in [Ips -> SUBSET [at : 0 .. now, no : Nat]] /\ \A a \in Ips : Recorded(fails[a])
    BY DEF BoundInv, History
  <1>2. /\ fails'[ip] = G
        /\ \A a \in Ips : a # ip => IF a = rl[IndexFor(ip)].ip THEN fails'[a] = {}
                                                             ELSE fails'[a] = fails[a]
    BY <1>1 DEF Remaining
  <1>3. G \in SUBSET [at : 0 .. now, no : Nat]
    BY DEF Recorded
  <1>4. fails' \in [Ips -> SUBSET [at : 0 .. now, no : Nat]]
    BY <1>1, <1>3 DEF Remaining
  <1>5. \A a \in Ips : Recorded(fails'[a])
    <2>1. Recorded({})
      BY FS_EmptySet DEF Recorded
    <2>2. ASSUME NEW a \in Ips PROVE fails'[a] \in {fails[a], {}, G}
      BY <1>2, <2>2
    <2> QED BY <1>1, <2>1, <2>2
  <1>6. History'
    BY <1>4, <1>5 DEF History, Recorded
  <1>7. /\ \A i \in Entries : i # IndexFor(ip) => rl'[i] = rl[i]
        /\ rl'[IndexFor(ip)] = e /\ IndexFor(ip) \in Entries
    BY TableUpdated, IndexFound DEF BoundInv
  <1>8. \A i \in Entries : rl[i].ip = ip => i = IndexFor(ip)
    BY IndexFound DEF BoundInv, TableInv, Unique
  <1>9. ASSUME NEW a \in Ips, NEW i \in Entries, rl'[i].ip = a
        PROVE  Accounted(fails'[a], rl'[i])
    <2>1. CASE i = IndexFor(ip)
      BY <1>2, <1>7, <1>9, <2>1
    <2>2. CASE i # IndexFor(ip)
      <3>1. rl'[i] = rl[i] /\ rl[i].ip = a /\ a # ip
        BY <1>7, <1>8, <1>9, <2>2
      <3>2. a # rl[IndexFor(ip)].ip
        BY <1>7, <2>2, <3>1, NoIpAssumption DEF BoundInv, TableInv, Unique
      <3>3. fails'[a] = fails[a] /\ Accounted(fails[a], rl[i])
        BY <1>2, <3>1, <3>2 DEF BoundInv, Accounts
      <3> QED BY <3>1, <3>3
    <2> QED BY <2>1, <2>2
  <1>10. ASSUME NEW a \in Ips, \A i \in Entries : rl'[i].ip # a
         PROVE  fails'[a] = {}
    <2>1. a # ip
      BY <1>7, <1>10
    <2>2. CASE a = rl[IndexFor(ip)].ip
      BY <1>2, <2>1, <2>2
    <2>3. CASE a # rl[IndexFor(ip)].ip
      <3>1. \A i \in Entries : rl[i].ip # a
        BY <1>7, <1>10, <2>3
      <3>2. fails[a] = {}
        BY <3>1 DEF BoundInv, Accounts
      <3> QED BY <1>2, <2>1, <2>3, <3>2
    <2> QED BY <2>2, <2>3
  <1>11. Accounts'
    BY <1>9, <1>10 DEF Accounts, Accounted, Counted, Earlier, Entries
  <1>12. ASSUME NEW a \in Ips \ {ip} PROVE Cardinality(fails'[a]) <= Cardinality(fails[a])
    <2>1. Cardinality(fails[a]) \in Nat
      BY <1>1, FS_CardinalityType DEF Recorded
    <2>2. Cardinality({}) = 0
      BY FS_EmptySet
    <2>3. fails'[a] \in {{}, fails[a]}
      BY <1>2
    <2> QED BY <2>1, <2>2, <2>3
  <1> QED BY <1>2, <1>6, <1>11, <1>12

(* Only an address that is not blocked gets one more handshake.            *)
LEMMA ConnectKeepsBound ==
  ASSUME BoundInv, NEW ip \in Ips, Connect(ip)
  PROVE  BoundInv'
  <1>1. TableInv' /\ EntryFor(ip) \in Entry /\ EntryFor(ip).ip = ip
    BY ConnectKeeps, EntryTyped DEF BoundInv
  <1>2. rl' = [rl EXCEPT ![IndexFor(ip)] = EntryFor(ip)] /\ now' = now /\ fails' = Remaining(ip)
    BY DEF Connect
  <1>3. Recorded(fails[ip]) /\ Accounted(fails[ip], EntryFor(ip))
    BY EntryAccounted
  <1>4. fails' = [Remaining(ip) EXCEPT ![ip] = fails[ip]]
    BY <1>2 DEF Remaining
  <1>5. /\ History' /\ Accounts' /\ fails'[ip] = fails[ip]
        /\ \A a \in Ips \ {ip} : Cardinality(fails'[a]) <= Cardinality(fails[a])
    BY <1>1, <1>2, <1>3, <1>4, AccountsUpdated
  <1>8. \A a \in Ips : /\ Cardinality(fails[a]) \in Nat /\ Cardinality(fails'[a]) \in Nat
                      /\ Cardinality(fails'[a]) <= Cardinality(fails[a])
    BY <1>5, FS_CardinalityType DEF BoundInv, History, Recorded
  <1>6. ASSUME NEW a \in Ips
        PROVE  Cardinality(fails'[a]) + Guessing(a)' <= 2 * MaxFails - 2 + Cardinality(Handshakes)
    <2>1. CASE Guessing(a)' = Guessing(a)
      <3>1. Cardinality(fails[a]) + Guessing(a) <= 2 * MaxFails - 2 + Cardinality(Handshakes)
        BY DEF BoundInv, GuessesBounded
      <3>2. Cardinality(fails'[a]) <= Cardinality(fails[a])
        BY <1>5, <1>8
      <3> QED BY <1>8, <2>1, <3>1, <3>2, GuessingFacts, MaxFailsAssumption
    <2>2. CASE Guessing(a)' # Guessing(a)
      <3>1. ~Blocks(EntryFor(ip)) /\ \E s \in Handshakes : ip_be[s] = NoIp /\ ip_be' = [ip_be EXCEPT ![s] = ip]
        BY <2>2 DEF Connect, Guessing
      <3>2. PICK s \in Handshakes : ip_be[s] = NoIp /\ ip_be' = [ip_be EXCEPT ![s] = ip]
        BY <3>1
      <3>3. a = ip
        <4>1. SUFFICES ASSUME a # ip PROVE {z \in Handshakes : ip_be'[z] = a} = {z \in Handshakes : ip_be[z] = a}
          BY <2>2 DEF Guessing
        <4>2. \A z \in Handshakes : ip_be'[z] = a <=> ip_be[z] = a
          BY <3>2, <4>1 DEF BoundInv, TableInv, Typed
        <4> QED BY <4>2
      <3>4. now \in Nat
        BY DEF BoundInv, TableInv, Typed
      <3>5. Cardinality(fails[ip]) <= 2 * MaxFails - 2
        BY <1>1, <1>3, <3>1, <3>4, FewUnblocked
      <3>6. Cardinality(fails[ip]) \in Nat
        BY <1>3, FS_CardinalityType DEF Recorded
      <3>7. Guessing(a)' \in Nat /\ Guessing(a)' <= Cardinality(Handshakes) /\ Cardinality(Handshakes) \in Nat
        BY HandshakesAssumption, FS_Subset, FS_CardinalityType DEF Guessing
      <3> QED BY <1>5, <3>3, <3>5, <3>6, <3>7, MaxFailsAssumption
    <2> QED BY <2>1, <2>2
  <1>7. GuessesBounded'
    BY <1>6 DEF GuessesBounded
  <1> QED BY <1>1, <1>2, <1>5, <1>7 DEF BoundInv

(* A handshake ends: there is one less under way.                          *)
LEMMA HandshakeEnds ==
  ASSUME ip_be \in [Handshakes -> Ips \cup {NoIp}], NEW s \in Handshakes, NEW ip \in Ips, ip_be[s] = ip,
         ip_be' = [ip_be EXCEPT ![s] = NoIp]
  PROVE  Guessing(ip)' = Guessing(ip) - 1 /\ \A a \in Ips \ {ip} : Guessing(a)' = Guessing(a)
  <1> DEFINE S == {z \in Handshakes : ip_be[z] = ip}
  <1>1. \A a \in Ips \ {ip} : {z \in Handshakes : ip_be'[z] = a} = {z \in Handshakes : ip_be[z] = a}
    OBVIOUS
  <1>2. s \in S /\ IsFiniteSet(S)
    BY HandshakesAssumption, FS_Subset
  <1>3. {z \in Handshakes : ip_be'[z] = ip} = S \ {s}
    OBVIOUS
  <1>4. Cardinality(S \ {s}) = Cardinality(S) - 1
    BY <1>2, FS_RemoveElement
  <1> QED BY <1>1, <1>3, <1>4 DEF Guessing

LEMMA FailKeepsBound ==
  ASSUME BoundInv, NEW s \in Handshakes, RecordFail(s)
  PROVE  BoundInv'
  <1>0. PICK ip \in Ips : ip = ip_be[s]
    BY DEF RecordFail, BoundInv, TableInv, Typed
  <1> DEFINE n == Unused(fails[ip])
             e == FailedEntry(EntryFor(ip))
             G == fails[ip] \cup {Failure(n)}
  <1>1. TableInv' /\ now \in Nat /\ ip_be \in [Handshakes -> Ips \cup {NoIp}]
    BY FailKeeps DEF BoundInv, TableInv, Typed
  <1>2. /\ rl' = [rl EXCEPT ![IndexFor(ip)] = e] /\ now' = now
        /\ ip_be' = [ip_be EXCEPT ![s] = NoIp] /\ fails' = [Remaining(ip) EXCEPT ![ip] = G]
    BY <1>0 DEF RecordFail, Remaining
  <1>3. EntryFor(ip) \in Entry /\ EntryFor(ip).ip = ip
    BY EntryTyped DEF BoundInv
  <1>4. e \in Entry /\ e.ip = ip
    BY <1>1, <1>3, FailedEntryFacts
  <1>5. Recorded(fails[ip]) /\ Accounted(fails[ip], EntryFor(ip))
    BY EntryAccounted
  <1>6. n \in Nat /\ Failure(n) \notin fails[ip]
    BY <1>5, FailureIsNew DEF Recorded
  <1> HIDE DEF n
  <1>7. Recorded(G) /\ Accounted(G, e) /\ Cardinality(G) = Cardinality(fails[ip]) + 1
    BY <1>1, <1>3, <1>5, <1>6, FailAccounted
  <1> HIDE DEF e, G
  <1>8. /\ History' /\ Accounts' /\ fails'[ip] = G
        /\ \A a \in Ips \ {ip} : Cardinality(fails'[a]) <= Cardinality(fails[a])
    <2>1. rl' = [rl EXCEPT ![IndexFor(ip)] = e] /\ now' = now /\ fails' = [Remaining(ip) EXCEPT ![ip] = G]
      BY <1>2
    <2> QED BY <1>4, <1>7, <2>1, AccountsUpdated
  <1>9. Guessing(ip)' = Guessing(ip) - 1 /\ \A a \in Ips \ {ip} : Guessing(a)' = Guessing(a)
    BY <1>0, <1>1, <1>2, HandshakeEnds
  <1>10. Cardinality(fails[ip]) \in Nat /\ Guessing(ip) \in Nat
    BY <1>5, GuessingFacts, FS_CardinalityType DEF Recorded
  <1>11. ASSUME NEW a \in Ips
         PROVE  Cardinality(fails'[a]) + Guessing(a)' <= 2 * MaxFails - 2 + Cardinality(Handshakes)
    <2>1. Cardinality(fails[a]) + Guessing(a) <= 2 * MaxFails - 2 + Cardinality(Handshakes)
      BY DEF BoundInv, GuessesBounded
    <2>2. CASE a = ip
      <3>1. Cardinality(fails'[ip]) + Guessing(ip)' = Cardinality(fails[ip]) + Guessing(ip)
        BY <1>7, <1>8, <1>9, <1>10
      <3> QED BY <2>1, <2>2, <3>1
    <2>3. CASE a # ip
      <3>1. Cardinality(fails[a]) \in Nat /\ Cardinality(fails'[a]) \in Nat
        BY <1>8, FS_CardinalityType DEF BoundInv, History, Recorded
      <3>2. Cardinality(fails'[a]) <= Cardinality(fails[a]) /\ Guessing(a)' = Guessing(a)
        BY <1>8, <1>9, <2>3
      <3> QED BY <2>1, <3>1, <3>2, GuessingFacts, MaxFailsAssumption
    <2> QED BY <2>2, <2>3
  <1>12. GuessesBounded'
    BY <1>11 DEF GuessesBounded
  <1> QED BY <1>1, <1>2, <1>8, <1>12 DEF BoundInv

LEMMA SuccessKeepsBound ==
  ASSUME BoundInv, NEW s \in Handshakes, RecordSuccess(s)
  PROVE  BoundInv'
  <1>0. PICK ip \in Ips : ip = ip_be[s]
    BY DEF RecordSuccess, BoundInv, TableInv, Typed
  <1> DEFINE e == [EntryFor(ip) EXCEPT !.count = 0, !.until = 0]
  <1>1. TableInv' /\ ip_be \in [Handshakes -> Ips \cup {NoIp}]
    BY SuccessKeeps DEF BoundInv, TableInv, Typed
  <1>2. /\ rl' = [rl EXCEPT ![IndexFor(ip)] = e] /\ now' = now
        /\ ip_be' = [ip_be EXCEPT ![s] = NoIp] /\ fails' = [Remaining(ip) EXCEPT ![ip] = {}]
    BY <1>0 DEF RecordSuccess
  <1>3. EntryFor(ip) \in Entry /\ EntryFor(ip).ip = ip /\ Accounted(fails[ip], EntryFor(ip))
    BY EntryTyped, EntryAccounted DEF BoundInv
  <1>4. e \in Entry /\ e.ip = ip /\ e.count = 0 /\ e.start \in Nat /\ e.start <= now
    BY <1>3 DEF Entry, Accounted
  <1> HIDE DEF e
  <1> DEFINE none == {f \in fails[ip] : FALSE}
  <1>5. Recorded(none) /\ Accounted(none, e)
    BY <1>4, NothingAccounted
  <1>10. none = {}
    OBVIOUS
  <1>11. e \in Entry /\ e.ip = ip
    BY <1>4
  <1> HIDE DEF none
  <1>6. /\ History' /\ Accounts' /\ fails'[ip] = {}
        /\ \A a \in Ips \ {ip} : Cardinality(fails'[a]) <= Cardinality(fails[a])
    <2>1. fails' = [Remaining(ip) EXCEPT ![ip] = none]
      BY <1>2, <1>10
    <2>2. rl' = [rl EXCEPT ![IndexFor(ip)] = e] /\ now' = now
      BY <1>2
    <2>3. /\ History' /\ Accounts' /\ fails'[ip] = none
          /\ \A a \in Ips \ {ip} : Cardinality(fails'[a]) <= Cardinality(fails[a])
      BY <1>5, <1>11, <2>1, <2>2, AccountsUpdated
    <2> QED BY <1>10, <2>3
  <1>7. Guessing(ip)' = Guessing(ip) - 1 /\ \A a \in Ips \ {ip} : Guessing(a)' = Guessing(a)
    BY <1>0, <1>1, <1>2, HandshakeEnds
  <1>8. ASSUME NEW a \in Ips
        PROVE  Cardinality(fails'[a]) + Guessing(a)' <= 2 * MaxFails - 2 + Cardinality(Handshakes)
    <2>1. Cardinality(fails[a]) + Guessing(a) <= 2 * MaxFails - 2 + Cardinality(Handshakes)
      BY DEF BoundInv, GuessesBounded
    <2>2. CASE a = ip
      <3>1. Cardinality(fails'[ip]) = 0
        BY <1>6, FS_EmptySet
      <3>2. /\ Guessing(ip) \in Nat /\ Guessing(ip) <= Cardinality(Handshakes)
            /\ Cardinality(Handshakes) \in Nat
        BY GuessingFacts
      <3>3. Cardinality(fails'[ip]) + Guessing(ip)' <= 2 * MaxFails - 2 + Cardinality(Handshakes)
        BY <1>7, <3>1, <3>2, MaxFailsAssumption
      <3> QED BY <2>2, <3>3
    <2>3. CASE a # ip
      <3>1. Cardinality(fails[a]) \in Nat /\ Cardinality(fails'[a]) \in Nat
        BY <1>6, FS_CardinalityType DEF BoundInv, History, Recorded
      <3>2. Cardinality(fails'[a]) <= Cardinality(fails[a]) /\ Guessing(a)' = Guessing(a)
        BY <1>6, <1>7, <2>3
      <3> QED BY <2>1, <3>1, <3>2, GuessingFacts, MaxFailsAssumption
    <2> QED BY <2>2, <2>3
  <1>9. GuessesBounded'
    BY <1>8 DEF GuessesBounded
  <1> QED BY <1>1, <1>2, <1>6, <1>9 DEF BoundInv

LEMMA TickKeepsBound ==
  ASSUME BoundInv, Tick
  PROVE  BoundInv'
  <1>1. /\ now \in Nat /\ now' = now + 1 /\ now < MaxTime /\ rl' = rl /\ ip_be' = ip_be
        /\ fails' = [ip \in Ips |-> {f \in fails[ip] : f.at > now' - Window}]
        /\ rl \in [Entries -> Entry] /\ TableInv'
    BY TickKeeps DEF Tick, BoundInv, TableInv, Typed
  <1>2. ASSUME NEW ip \in Ips
        PROVE  /\ fails'[ip] \subseteq fails[ip]
               /\ IsFiniteSet(fails'[ip]) /\ Cardinality(fails'[ip]) <= Cardinality(fails[ip])
               /\ fails'[ip] \in SUBSET [at : 0 .. now', no : Nat]
               /\ \A f \in fails'[ip] : f.at > now' - Window
    <2>1. Recorded(fails[ip])
      BY DEF BoundInv, History
    <2>2. fails'[ip] = {f \in fails[ip] : f.at > now' - Window}
      BY <1>1
    <2>3. fails'[ip] \subseteq fails[ip] /\ \A f \in fails'[ip] : f.at > now' - Window
      BY <2>2
    <2>4. IsFiniteSet(fails'[ip]) /\ Cardinality(fails'[ip]) <= Cardinality(fails[ip])
      BY <2>1, <2>3, FS_Subset DEF Recorded
    <2>5. [at : 0 .. now, no : Nat] \subseteq [at : 0 .. now', no : Nat]
      BY <1>1
    <2> QED BY <2>1, <2>3, <2>4, <2>5 DEF Recorded
  <1>3. History'
    <2>1. fails' \in [Ips -> SUBSET [at : 0 .. now', no : Nat]]
      BY <1>1, <1>2
    <2> QED BY <1>2, <2>1 DEF History, Recorded
  <1>4. ASSUME NEW ip \in Ips, NEW i \in Entries, rl[i].ip = ip
        PROVE  Accounted(fails[ip], rl[i])'
    <2>1. Recorded(fails[ip]) /\ Accounted(fails[ip], rl[i]) /\ rl[i] \in Entry
      BY <1>1, <1>4 DEF BoundInv, History, Accounts
    <2>2. PICK e : e = rl[i]
      OBVIOUS
    <2>3. PICK G : G = fails'[ip]
      OBVIOUS
    <2>4. PICK F : F = fails[ip]
      OBVIOUS
    <2>5. G = {f \in F : f.at > now' - Window}
      BY <1>1, <2>3, <2>4
    <2>6. Accounted(G, e)'
      BY <1>1, <2>1, <2>2, <2>4, <2>5, TickAccounted
    <2> QED BY <1>1, <2>2, <2>3, <2>6
  <1>5. Accounts'
    <2>1. \A ip \in Ips : (\A i \in Entries : rl'[i].ip # ip) => fails'[ip] = {}
      BY <1>1, <1>2 DEF BoundInv, Accounts
    <2>2. \A ip \in Ips : \A i \in Entries : rl'[i].ip = ip => Accounted(fails[ip], rl[i])'
      BY <1>1, <1>4
    <2>3. Entries' = Entries
      BY DEF Entries
    <2> QED BY <2>1, <2>2, <2>3 DEF Accounts
  <1>6. GuessesBounded'
    <2>1. ASSUME NEW ip \in Ips
          PROVE  Cardinality(fails'[ip]) + Guessing(ip)' <= 2 * MaxFails - 2 + Cardinality(Handshakes)
      <3>1. Guessing(ip)' = Guessing(ip)
        BY <1>1 DEF Guessing
      <3>2. Cardinality(fails[ip]) + Guessing(ip) <= 2 * MaxFails - 2 + Cardinality(Handshakes)
        BY DEF BoundInv, GuessesBounded
      <3>3. Cardinality(fails[ip]) \in Nat /\ Cardinality(fails'[ip]) \in Nat
        BY <1>2, FS_CardinalityType DEF Recorded, BoundInv, History
      <3> QED BY <1>2, <3>1, <3>2, <3>3, GuessingFacts, MaxFailsAssumption
    <2> QED BY <2>1 DEF GuessesBounded
  <1>7. now' <= MaxTime
    BY <1>1, MaxTimeAssumption
  <1> QED BY <1>1, <1>3, <1>5, <1>6, <1>7 DEF BoundInv

-----------------------------------------------------------------------------
(* No address ever has two entries, and all entries keep their type.       *)
THEOREM TableInvariant == LimiterSpec => []TableInv
  <1>1. LimiterInit => TableInv
    BY InitInv
  <1>2. TableInv /\ [LimiterNext]_limiterVars => TableInv'
    BY StepKeepsInv
  <1> QED BY <1>1, <1>2, PTL DEF LimiterSpec

(* A block ends by time, by a success of the same address, or because      *)
(* RlSlots other addresses are there at a time, none of whose windows      *)
(* started earlier: for any number of entries, addresses, handshakes and   *)
(* failures (tcp_server.c:62-65, 78-92, 105-131).                          *)
THEOREM BlocksAreKept == LimiterSpec => BlockKept
  <1>1. TableInv /\ [LimiterNext]_limiterVars => BlockStep
    <2> SUFFICES ASSUME TableInv, [LimiterNext]_limiterVars, NEW ip \in Ips, IsBlocked(ip), now' = now
                 PROVE  IsBlocked(ip)' \/ (Known(ip)' # {} /\ fails'[ip] = {}) \/ GivesWay(ip)
      BY DEF BlockStep
    <2>1. CASE Tick
      BY <2>1 DEF Tick, TableInv, Typed
    <2>2. ASSUME NEW a \in Ips, Connect(a) PROVE IsBlocked(ip)' \/ GivesWay(ip)
      BY <2>2, ConnectKeeps
    <2>3. ASSUME NEW s \in Handshakes, RecordFail(s) PROVE IsBlocked(ip)' \/ GivesWay(ip)
      BY <2>3, FailKeeps
    <2>4. ASSUME NEW s \in Handshakes, RecordSuccess(s)
          PROVE IsBlocked(ip)' \/ (Known(ip)' # {} /\ fails'[ip] = {}) \/ GivesWay(ip)
      BY <2>4, SuccessKeeps
    <2>5. CASE UNCHANGED limiterVars
      BY <2>5 DEF limiterVars, IsBlocked, Known, Blocks
    <2> QED BY <2>1, <2>2, <2>3, <2>4, <2>5 DEF LimiterNext
  <1> QED BY <1>1, TableInvariant, PTL DEF LimiterSpec, BlockKept

(* Whatever the interleaving of connects with the outcomes of earlier      *)
(* handshakes, an address fails at most 2 * MaxFails - 2 times in a window *)
(* before it is blocked, and once more in each handshake admitted by then, *)
(* as long as no other address takes its entry,                            *)
(* for any number of addresses, entries and slots, any limit and window    *)
(* (tcp_server.c:94-122, 387-395).                                         *)
THEOREM GuessesAreBounded == LimiterSpec => []LimiterSafety
  <1>1. LimiterInit => BoundInv
    <2> SUFFICES ASSUME LimiterInit PROVE BoundInv
      OBVIOUS
    <2>1. TableInv /\ now = 0 /\ now <= MaxTime
      BY InitInv, MaxTimeAssumption DEF LimiterInit
    <2>2. \A ip \in Ips : fails[ip] = {}
      BY DEF LimiterInit
    <2>3. History
      BY <2>2, FS_EmptySet DEF History, Recorded, LimiterInit
    <2>4. Accounts
      BY <2>2, NoIpAssumption DEF Accounts, LimiterInit, FreeEntry
    <2>5. GuessesBounded
      <3> SUFFICES ASSUME NEW ip \in Ips
                   PROVE  Cardinality(fails[ip]) + Guessing(ip) <= 2 * MaxFails - 2 + Cardinality(Handshakes)
        BY DEF GuessesBounded
      <3>1. Cardinality(fails[ip]) = 0
        BY <2>2, FS_EmptySet
      <3> QED BY <3>1, GuessingFacts, MaxFailsAssumption
    <2> QED BY <2>1, <2>3, <2>4, <2>5 DEF BoundInv
  <1>2. BoundInv /\ [LimiterNext]_limiterVars => BoundInv'
    <2>1. ASSUME BoundInv, UNCHANGED limiterVars PROVE BoundInv'
      <3>1. rl' = rl /\ now' = now /\ ip_be' = ip_be /\ fails' = fails
        BY <2>1 DEF limiterVars
      <3>2. TableInv' /\ now' <= MaxTime
        BY <2>1, <3>1 DEF BoundInv, TableInv, Typed, Unique
      <3>3. History'
        BY <2>1, <3>1 DEF BoundInv, History, Recorded
      <3>4. Accounts'
        BY <2>1, <3>1 DEF BoundInv, Accounts, Accounted, Counted, Earlier, Entries
      <3>5. GuessesBounded'
        BY <2>1, <3>1 DEF BoundInv, GuessesBounded, Guessing
      <3> QED BY <3>2, <3>3, <3>4, <3>5 DEF BoundInv
    <2> QED
      BY <2>1, ConnectKeepsBound, FailKeepsBound, SuccessKeepsBound, TickKeepsBound
      DEF LimiterNext
  <1>3. BoundInv => LimiterSafety
    BY DEF BoundInv, TableInv, Typed, History, LimiterSafety, LimiterTypeOK
  <1> QED BY <1>1, <1>2, <1>3, PTL DEF LimiterSpec

=============================================================================
