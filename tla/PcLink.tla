-------------------------------- MODULE PcLink --------------------------------
(***************************************************************************)
(* The two sides of the link together: one device running tcp_server.c,    *)
(* one running tcp_client.c, and a PC program that may connect, too, and   *)
(* keep to the protocol or not.  Connections break, the server device      *)
(* restarts, the client gets no socket and the console disconnects,        *)
(* MaxFaults times in all.                                                 *)
(***************************************************************************)
EXTENDS TcpServer, TcpClient

CONSTANT MaxFaults

VARIABLES pc,      \* the connection of the PC program, or NoConn
          faults   \* how many faults and visits of the PC program there were

linkVars == <<pc, faults>>
vars == <<net, serverVars, clientVars, linkVars>>

Init ==
  /\ NetInit /\ ServerInit /\ ClientInit
  /\ pc = NoConn /\ faults = 0

Fault == faults < MaxFaults /\ faults' = faults + 1

ServerSide == ServerNext /\ UNCHANGED <<clientVars, linkVars>>
ClientSide == ClientNext /\ UNCHANGED <<serverVars, linkVars>>

LinkBreaks(k) ==
  /\ Fault /\ Break(k) /\ UNCHANGED <<serverVars, clientVars, pc>>
ServerRestarts ==
  /\ Fault /\ SRestart /\ UNCHANGED <<clientVars, pc>>
ClientOutOfSockets ==
  /\ Fault /\ CNoSocket /\ UNCHANGED <<serverVars, pc>>
Disconnect ==
  /\ Fault /\ DisconnectTest /\ UNCHANGED <<serverVars, pc>>

\* cConn is taken as long as the client's task holds it.
PcConnects(k) ==
  /\ pc = NoConn /\ Fault /\ k # cConn /\ Connect(k) /\ pc' = k
  /\ UNCHANGED <<serverVars, clientVars>>
PcSends ==
  /\ pc # NoConn /\ \E m \in {"init", "new"} : ClientSends(pc, m)
  /\ UNCHANGED <<serverVars, clientVars, linkVars>>
PcGets ==
  /\ pc # NoConn /\ ClientGets(pc)
  /\ UNCHANGED <<serverVars, clientVars, linkVars>>
PcCloses ==
  /\ pc # NoConn /\ ClientCloses(pc) /\ pc' = NoConn
  /\ UNCHANGED <<serverVars, clientVars, faults>>

Next == ServerSide \/ ClientSide \/ (\E k \in Conns : LinkBreaks(k) \/ PcConnects(k))
        \/ ServerRestarts \/ ClientOutOfSockets \/ Disconnect \/ PcSends \/ PcGets \/ PcCloses

Spec == Init /\ [][Next]_vars

(* The two main tasks get to run, and the PC program leaves in the end.    *)
(* Nothing is asked of the other tasks, the applications or the console.   *)
FairSpec ==
  /\ Spec /\ WF_vars(PcCloses)
  /\ WF_vars(ServerTask /\ UNCHANGED <<clientVars, linkVars>>)
  /\ WF_vars(ClientTask /\ UNCHANGED <<serverVars, linkVars>>)

-------------------------------------------------------------------------------
(* Properties.                                                             *)

(* The server has at most one task of each kind, and none between two      *)
(* sessions, however many COMMINITs it gets: a second send_task would      *)
(* split the data between two streams.                                     *)
OnePair ==
  /\ processTasks <= 1 /\ sendTasks <= 1
  /\ sPc = "accept" => processTasks = 0 /\ sendTasks = 0

(* Data reaches a peer only in the session it was queued in: both send     *)
(* tasks empty their queues before they send anything.                     *)
NoOldData ==
  \A k \in Conns :
    /\ \A i \in 1..Len(s2c[k]) : s2c[k][i] # "old"
    /\ \A i \in 1..Len(c2s[k]) : c2s[k][i] # "old"

(* When the faults are over the client is connected again and again, or    *)
(* for good, unless one of the tasks has ended: the client because it got  *)
(* no socket (tcp_client.c 122-127) or by deleting itself (241-243), the   *)
(* server for want of sockets, each lost to a COMMACK or COMMNACK that     *)
(* could not be sent (tcp_server.c 196-216, 236-244): no other path keeps  *)
(* a socket.                                                               *)
LinkComesBack ==
  []<>(cCommstate = "CONNECTED" \/ cPc = "ended"
       \/ (sPc = "ended" /\ unsent >= MaxSocks))
===============================================================================
