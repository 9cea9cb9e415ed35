------------------------------- MODULE TcpServer -------------------------------
(***************************************************************************)
(* The server side of the link to the PC application (tcp/tcp_server.c).   *)
(* The task tcp_server accepts one connection at a time and receives from  *)
(* it; COMMINIT starts the tasks that process commands and send data,      *)
(* COMMACK answers it.  At the end of the session both tasks are deleted.  *)
(***************************************************************************)
EXTENDS LinkNet, FiniteSets

CONSTANTS TcpQueueSize,  \* TCP_QUEUE_SIZE
          MaxSocks       \* sockets the server can have open beside the listener

ASSUME ServerConstants == TcpQueueSize \in Nat \ {0} /\ MaxSocks \in Nat

VARIABLES
  sPc,        \* where tcp_server is; "ended": the task has deleted itself
  sConn,      \* server_sock
  commstate,  \* "IDLE" or "CONNECTED"
  processTasks, sendTasks,  \* how many there are of each task
  sReset,     \* send_task has emptied its queue and is running
  rxq,        \* the number of messages in tcp_receive_queue
  txq,        \* tcp_send_queue; history: "old" if queued before this COMMINIT
  unsent      \* history: COMMACKs and COMMNACKs that could not be sent

sTasks == <<processTasks, sendTasks, sReset>>
serverVars == <<sPc, sConn, commstate, sTasks, rxq, txq, unsent>>

ServerInit ==
  /\ sPc = "accept" /\ sConn = NoConn /\ commstate = "IDLE"
  /\ processTasks = 0 /\ sendTasks = 0 /\ sReset = FALSE
  /\ rxq = 0 /\ txq = <<>> /\ unsent = 0

Old(q) == [i \in 1..Len(q) |-> "old"]
InUse == {k \in Conns : srv[k] = "open"}

\* Without a free socket accept fails, and the task ends.
SAccept(k) ==
  /\ sPc = "accept" /\ srv[k] = "queued"
  /\ IF Cardinality(InUse) < MaxSocks
       THEN sConn' = k /\ sPc' = "recv" /\ Accepted(k)
       ELSE sPc' = "ended" /\ UNCHANGED sConn /\ ServerCloses(k)
  /\ UNCHANGED <<commstate, sTasks, rxq, txq, unsent>>

SRecvEnd ==
  /\ sPc = "recv" /\ ServerAtEnd(sConn)
  /\ sPc' = "end" /\ ServerCloses(sConn)
  /\ UNCHANGED <<sConn, commstate, sTasks, rxq, txq, unsent>>

\* Mutant: every COMMINIT starts a session.
SRecvInit_Always ==
  /\ sPc = "recv" /\ ServerGets(sConn) /\ Head(c2s[sConn]) = "init"
  /\ sPc' = "ack" /\ txq' = Old(txq) /\ sReset' = FALSE
  /\ processTasks' = processTasks + 1 /\ sendTasks' = sendTasks + 1
  /\ UNCHANGED <<sConn, commstate, rxq, unsent>>

\* COMMINIT: both tasks are created before COMMACK is sent.
SRecvInit ==
  /\ sPc = "recv" /\ ServerGets(sConn) /\ Head(c2s[sConn]) = "init"
  /\ IF commstate = "IDLE"
       THEN /\ sPc' = "ack" /\ txq' = Old(txq) /\ sReset' = FALSE
            /\ processTasks' = processTasks + 1 /\ sendTasks' = sendTasks + 1
       ELSE sPc' = "nack" /\ UNCHANGED <<sTasks, txq>>
  /\ UNCHANGED <<sConn, commstate, rxq, unsent>>

SAck ==
  /\ sPc = "ack"
  /\ \/ ServerSends(sConn, "ack") /\ sPc' = "acked" /\ UNCHANGED unsent
     \/ ServerCannot(sConn) /\ sPc' = "end" /\ unsent' = unsent + 1
  /\ UNCHANGED <<sConn, commstate, sTasks, rxq, txq>>

SConnected ==
  /\ sPc = "acked" /\ sPc' = "recv" /\ commstate' = "CONNECTED"
  /\ UNCHANGED <<net, sConn, sTasks, rxq, txq, unsent>>

\* A second COMMINIT is refused; only a failed send leaves the loop.
SNack ==
  /\ sPc = "nack"
  /\ \/ ServerSends(sConn, "nack") /\ sPc' = "recv" /\ UNCHANGED unsent
     \/ ServerCannot(sConn) /\ sPc' = "end" /\ unsent' = unsent + 1
  /\ UNCHANGED <<sConn, commstate, sTasks, rxq, txq>>

\* Any other message goes to the queue; a full queue is emptied first.
SRecvMessage ==
  /\ sPc = "recv" /\ ServerGets(sConn) /\ Head(c2s[sConn]) # "init"
  /\ rxq' = IF rxq = TcpQueueSize THEN 1 ELSE rxq + 1
  /\ UNCHANGED <<sPc, sConn, commstate, sTasks, txq, unsent>>

\* Mutant: the next session begins as if it were connected.
SEnd_KeepsState ==
  /\ sPc = "end" /\ sPc' = "accept"
  /\ processTasks' = IF processTasks = 0 THEN 0 ELSE processTasks - 1
  /\ sendTasks' = IF sendTasks = 0 THEN 0 ELSE sendTasks - 1
  /\ UNCHANGED <<net, sConn, commstate, sReset, rxq, txq, unsent>>

\* The handles name the last task of each kind; the loop sets IDLE again.
SEnd ==
  /\ sPc = "end" /\ sPc' = "accept" /\ commstate' = "IDLE"
  /\ processTasks' = IF processTasks = 0 THEN 0 ELSE processTasks - 1
  /\ sendTasks' = IF sendTasks = 0 THEN 0 ELSE sendTasks - 1
  /\ UNCHANGED <<net, sConn, sReset, rxq, txq, unsent>>

\* process_message_task
SProcess ==
  /\ processTasks > 0 /\ rxq > 0 /\ rxq' = rxq - 1
  /\ UNCHANGED <<net, sPc, sConn, commstate, sTasks, txq, unsent>>

\* Mutant: send_task goes on with what is in the queue.
SSendStart_Keeps ==
  /\ sendTasks > 0 /\ ~sReset /\ sReset' = TRUE
  /\ UNCHANGED <<net, sPc, sConn, commstate, processTasks, sendTasks, rxq, txq,
                 unsent>>

\* send_task
SSendStart ==
  /\ sendTasks > 0 /\ ~sReset /\ sReset' = TRUE /\ txq' = <<>>
  /\ UNCHANGED <<net, sPc, sConn, commstate, processTasks, sendTasks, rxq, unsent>>

\* What is taken while the state is not CONNECTED is lost.
SSend ==
  /\ sendTasks > 0 /\ sReset /\ txq # <<>> /\ txq' = Tail(txq)
  /\ IF commstate = "CONNECTED"
       THEN ServerSends(sConn, Head(txq)) \/ ServerCannot(sConn)
       ELSE UNCHANGED net
  /\ UNCHANGED <<sPc, sConn, commstate, sTasks, rxq, unsent>>

\* The application queues data when it likes.
SApp ==
  /\ Len(txq) < TcpQueueSize /\ txq' = Append(txq, "new")
  /\ UNCHANGED <<net, sPc, sConn, commstate, sTasks, rxq, unsent>>

\* esp_restart when a task cannot be created, or any other restart: the
\* connections die with the device, and the peers have to find out.
SRestart ==
  /\ sPc' = "accept" /\ commstate' = "IDLE" /\ processTasks' = 0 /\ sendTasks' = 0
  /\ sReset' = FALSE /\ rxq' = 0 /\ txq' = <<>> /\ unsent' = 0 /\ UNCHANGED sConn
  /\ srv' = [k \in Conns |-> "closed"]
  /\ dead' = [k \in Conns |-> cli[k] = "open"]
  /\ c2s' = [k \in Conns |-> <<>>] /\ UNCHANGED <<cli, s2c>>

ServerTask == (\E k \in Conns : SAccept(k)) \/ SRecvEnd \/ SRecvInit \/ SAck
              \/ SConnected \/ SNack \/ SRecvMessage \/ SEnd

ServerNext == ServerTask \/ SProcess \/ SSendStart \/ SSend \/ SApp

===============================================================================
