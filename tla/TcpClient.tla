------------------------------- MODULE TcpClient -------------------------------
(***************************************************************************)
(* The client side of the link (tcp/tcp_client.c), on another device.      *)
(* tcp_client_task connects, sends COMMINIT, waits for COMMACK, starts the *)
(* two tasks and receives; whatever goes wrong, it closes the socket and   *)
(* connects again.  The console command "tcp disconnect" queues            *)
(* CLOSE_CONNECTION for the task that processes messages.                  *)
(***************************************************************************)
EXTENDS LinkNet

CONSTANT ClientQueueSize  \* TCP_QUEUE_SIZE

ASSUME ClientConstants == ClientQueueSize \in Nat \ {0}

VARIABLES
  cPc,         \* where tcp_client_task is; "ended": it has been deleted
  cConn,       \* sock
  cCommstate,  \* commstate
  cProcess, cSend,  \* process_message_task, and send_task: "none", "new", "running"
  cRxq,        \* tcp_receive_queue
  cTxq,        \* tcp_send_queue; history: "old" if queued before this session
  do_tcp       \* the console command: "idle", or "post": found CONNECTED

cTasks == <<cProcess, cSend>>
cQueues == <<cRxq, cTxq>>
clientVars == <<cPc, cConn, cCommstate, cTasks, cQueues, do_tcp>>

ClientInit ==
  /\ cPc = "connect" /\ cConn = NoConn /\ cCommstate = "IDLE"
  /\ cProcess = FALSE /\ cSend = "none" /\ cRxq = <<>> /\ cTxq = <<>>
  /\ do_tcp = "idle"

\* A refused connection is tried again at once.
CConnect(k) ==
  /\ cPc = "connect" /\ Connect(k) /\ cConn' = k /\ cPc' = "init"
  /\ UNCHANGED <<cCommstate, cTasks, cQueues, do_tcp>>

\* No socket: the loop is left and the task deletes itself.
CNoSocket ==
  /\ cPc = "connect" /\ cPc' = "ended"
  /\ UNCHANGED <<net, cConn, cCommstate, cTasks, cQueues, do_tcp>>

CInit ==
  /\ cPc = "init"
  /\ \/ ClientSends(cConn, "init") /\ cPc' = "answer"
     \/ ClientCannot(cConn) /\ cPc' = "giveup"
  /\ UNCHANGED <<cConn, cCommstate, cTasks, cQueues, do_tcp>>

CAnswer ==
  /\ cPc = "answer"
  /\ \/ ClientGets(cConn)
        /\ cPc' = IF Head(s2c[cConn]) = "ack" THEN "tasks" ELSE "giveup"
     \/ ClientAtEnd(cConn) /\ cPc' = "giveup" /\ UNCHANGED net
  /\ UNCHANGED <<cConn, cCommstate, cTasks, cQueues, do_tcp>>

CGiveUp ==
  /\ cPc = "giveup" /\ cPc' = "connect" /\ ClientCloses(cConn)
  /\ UNCHANGED <<cConn, cCommstate, cTasks, cQueues, do_tcp>>

CTasks ==
  /\ cPc = "tasks" /\ cPc' = "connected"
  /\ cProcess' = TRUE /\ cSend' = "new" /\ cTxq' = [i \in 1..Len(cTxq) |-> "old"]
  /\ UNCHANGED <<net, cConn, cCommstate, cRxq, do_tcp>>

CConnected ==
  /\ cPc = "connected" /\ cPc' = "recv" /\ cCommstate' = "CONNECTED"
  /\ UNCHANGED <<net, cConn, cTasks, cQueues, do_tcp>>

\* The message is lost when the queue is full.
CRecv ==
  /\ cPc = "recv" /\ ClientGets(cConn)
  /\ cRxq' = IF Len(cRxq) < ClientQueueSize THEN Append(cRxq, "message") ELSE cRxq
  /\ UNCHANGED <<cPc, cConn, cCommstate, cTasks, cTxq, do_tcp>>

CRecvEnd ==
  /\ cPc = "recv" /\ ClientAtEnd(cConn) /\ cPc' = "close" /\ UNCHANGED net
  /\ UNCHANGED <<cConn, cCommstate, cTasks, cQueues, do_tcp>>

\* The socket may be closed already, by process_message_task.
CClose ==
  /\ cPc = "close" /\ cPc' = "idle" /\ ClientCloses(cConn)
  /\ UNCHANGED <<cConn, cCommstate, cTasks, cQueues, do_tcp>>

CIdle ==
  /\ cPc = "idle" /\ cCommstate' = "IDLE" /\ cProcess' = FALSE
  /\ cPc' = IF cSend = "none" THEN "connect" ELSE "delete"
  /\ UNCHANGED <<net, cConn, cSend, cQueues, do_tcp>>

\* send_task may have deleted itself since the handle was tested: the
\* handle read again is NULL, and tcp_client_task deletes itself.
CDelete ==
  /\ cPc = "delete" /\ cSend' = "none"
  /\ cPc' = IF cSend = "none" THEN "ended" ELSE "connect"
  /\ UNCHANGED <<net, cConn, cCommstate, cProcess, cQueues, do_tcp>>

\* process_message_task
CProcess ==
  /\ cProcess /\ cRxq # <<>> /\ cRxq' = Tail(cRxq)
  /\ IF Head(cRxq) = "close" THEN ClientCloses(cConn) ELSE UNCHANGED net
  /\ UNCHANGED <<cPc, cConn, cCommstate, cTasks, cTxq, do_tcp>>

\* send_task
CSendStart ==
  /\ cSend = "new" /\ cSend' = "running" /\ cTxq' = <<>>
  /\ UNCHANGED <<net, cPc, cConn, cCommstate, cProcess, cRxq, do_tcp>>

CSend ==
  /\ cSend = "running" /\ cTxq # <<>> /\ cTxq' = Tail(cTxq)
  /\ \/ ClientSends(cConn, Head(cTxq)) /\ UNCHANGED cSend
     \/ ClientCannot(cConn) /\ cSend' = "none"
  /\ UNCHANGED <<cPc, cConn, cCommstate, cProcess, cRxq, do_tcp>>

\* The application queues data when it likes.
CApp ==
  /\ Len(cTxq) < ClientQueueSize /\ cTxq' = Append(cTxq, "new")
  /\ UNCHANGED <<net, cPc, cConn, cCommstate, cTasks, cRxq, do_tcp>>

\* "tcp disconnect": the state is tested, then the message queued.
DisconnectTest ==
  /\ do_tcp = "idle" /\ cCommstate = "CONNECTED" /\ do_tcp' = "post"
  /\ UNCHANGED <<net, cPc, cConn, cCommstate, cTasks, cQueues>>

DisconnectPost ==
  /\ do_tcp = "post" /\ do_tcp' = "idle" /\ cRxq' = <<"close">>
  /\ UNCHANGED <<net, cPc, cConn, cCommstate, cTasks, cTxq>>

ClientTask == (\E k \in Conns : CConnect(k)) \/ CInit \/ CAnswer \/ CGiveUp \/ CTasks
              \/ CConnected \/ CRecv \/ CRecvEnd \/ CClose \/ CIdle \/ CDelete

ClientNext == ClientTask \/ CProcess \/ CSendStart \/ CSend \/ CApp \/ DisconnectPost

===============================================================================
