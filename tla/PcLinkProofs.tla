------------------------------ MODULE PcLinkProofs -----------------------------
(***************************************************************************)
(* The link to the PC application, for any connections, buffers, queues    *)
(* and faults.  The two sides meet only in the streams: what the server    *)
(* knows of its tasks and its socket (Session), what each side has queued  *)
(* (Fresh) and what is under way (Streams) are inductive together.         *)
(***************************************************************************)
EXTENDS PcLink, TLAPS, FiniteSetTheorems

USE NetConstants, ServerConstants, ClientConstants

Sent == Handshake \cup {"new"}
ServerSites == {"accept", "recv", "ack", "acked", "nack", "end", "ended"}
InSession == sPc \in {"recv", "ack", "acked", "nack"}

(* What is under way is of this session or a handshake.                    *)
Streams ==
  /\ cli \in [Conns -> {"open", "closed"}]
  /\ srv \in [Conns -> {"queued", "open", "closed"}]
  /\ c2s \in [Conns -> Seq(Sent)] /\ s2c \in [Conns -> Seq(Sent)]

(* What a task that sends may take has been queued since it emptied its    *)
(* queue.                                                                  *)
Fresh ==
  /\ txq \in Seq(Data) /\ cTxq \in Seq(Data)
  /\ sReset \in BOOLEAN /\ cSend \in {"none", "new", "running"}
  /\ sReset => txq \in Seq({"new"})
  /\ cSend = "running" => cTxq \in Seq({"new"})

(* The two tasks come and go together; commstate follows a COMMACK behind. *)
Session ==
  /\ sPc \in ServerSites /\ commstate \in {"IDLE", "CONNECTED"}
  /\ processTasks \in {0, 1} /\ sendTasks = processTasks
  /\ sPc \in {"accept", "ended"} => processTasks = 0 /\ commstate = "IDLE"
  /\ sPc \in {"ack", "acked"} => processTasks = 1 /\ commstate = "IDLE"
  /\ sPc = "nack" => processTasks = 1 /\ commstate = "CONNECTED"
  /\ sPc = "recv" => (processTasks = 1 <=> commstate = "CONNECTED")

LinkInv == Streams /\ Fresh /\ Session

LEMMA LinkInvInit == Init => LinkInv
<1> SUFFICES ASSUME Init PROVE LinkInv
  OBVIOUS
<1>1. Streams BY DEF Init, NetInit, Streams
<1>2. Fresh
  <2>1. txq = <<>> /\ cTxq = <<>> /\ cSend = "none" BY DEF Init, ServerInit, ClientInit
  <2>2. sReset = FALSE BY Zenon DEF Init, ServerInit
  <2>3. sReset \in BOOLEAN BY <2>2, Zenon
  <2> QED BY <2>1, <2>2, <2>3 DEF Fresh
<1>3. Session BY DEF Init, ServerInit, Session, ServerSites
<1> QED BY <1>1, <1>2, <1>3 DEF LinkInv

-------------------------------------------------------------------------------
(* The streams.  A step of the network puts in what is sent, takes out a   *)
(* head, or empties a stream.                                              *)

NetStep ==
  \/ UNCHANGED net
  \/ \E k \in Conns : Connect(k) \/ Break(k)
  \/ \E k : ClientCloses(k) \/ ServerCloses(k) \/ Accepted(k)
            \/ ClientGets(k) \/ ServerGets(k)
            \/ \E m \in Sent : ClientSends(k, m) \/ ServerSends(k, m)
  \/ SRestart

LEMMA OneChanges ==
  ASSUME NEW S, NEW f \in [Conns -> S], NEW k, NEW v, k \in Conns => v \in S
  PROVE  [f EXCEPT ![k] = v] \in [Conns -> S]
  OBVIOUS

LEMMA NetStepKeepsStreams ==
  ASSUME Streams, NetStep PROVE Streams'
<1> USE DEF Streams
<1>1. ASSUME NEW k, NEW m \in Sent, ClientSends(k, m) PROVE Streams'
  <2> DEFINE v == IF srv[k] = "closed" THEN c2s[k] ELSE Append(c2s[k], m)
  <2>1. k \in Conns => v \in Seq(Sent) OBVIOUS
  <2>2. c2s' = [c2s EXCEPT ![k] = v] /\ UNCHANGED <<cli, srv, s2c>>
    BY <1>1 DEF ClientSends
  <2> QED BY <2>1, <2>2, OneChanges
<1>2. ASSUME NEW k, NEW m \in Sent, ServerSends(k, m) PROVE Streams'
  <2> DEFINE v == IF cli[k] = "closed" THEN s2c[k] ELSE Append(s2c[k], m)
  <2>1. k \in Conns => v \in Seq(Sent) OBVIOUS
  <2>2. s2c' = [s2c EXCEPT ![k] = v] /\ UNCHANGED <<cli, srv, c2s>>
    BY <1>2 DEF ServerSends
  <2> QED BY <2>1, <2>2, OneChanges
<1>3. ASSUME NEW k, ClientGets(k) PROVE Streams'
  <2>1. k \in Conns => Tail(s2c[k]) \in Seq(Sent) BY <1>3 DEF ClientGets
  <2>2. s2c' = [s2c EXCEPT ![k] = Tail(s2c[k])] /\ UNCHANGED <<cli, srv, c2s>>
    BY <1>3 DEF ClientGets
  <2> QED BY <2>1, <2>2, OneChanges
<1>4. ASSUME NEW k, ServerGets(k) PROVE Streams'
  <2>1. k \in Conns => Tail(c2s[k]) \in Seq(Sent) BY <1>4 DEF ServerGets
  <2>2. c2s' = [c2s EXCEPT ![k] = Tail(c2s[k])] /\ UNCHANGED <<cli, srv, s2c>>
    BY <1>4 DEF ServerGets
  <2> QED BY <2>1, <2>2, OneChanges
<1>5. <<>> \in Seq(Sent) OBVIOUS
<1>6. ASSUME NEW k, ClientCloses(k) PROVE Streams'
  <2>1. s2c' \in [Conns -> Seq(Sent)] BY <1>5, <1>6, OneChanges DEF ClientCloses
  <2>2. cli' \in [Conns -> {"open", "closed"}] BY <1>6 DEF ClientCloses
  <2> QED BY <1>6, <2>1, <2>2 DEF ClientCloses
<1>7. ASSUME NEW k, ServerCloses(k) PROVE Streams'
  <2>1. c2s' \in [Conns -> Seq(Sent)] BY <1>5, <1>7, OneChanges DEF ServerCloses
  <2>2. srv' \in [Conns -> {"queued", "open", "closed"}] BY <1>7 DEF ServerCloses
  <2> QED BY <1>7, <2>1, <2>2 DEF ServerCloses
<1>8. ASSUME NEW k, Accepted(k) PROVE Streams'
  <2>1. srv' \in [Conns -> {"queued", "open", "closed"}] BY <1>8 DEF Accepted
  <2> QED BY <1>8, <2>1 DEF Accepted
<1>9. ASSUME NEW k \in Conns, Connect(k) PROVE Streams'
  <2>1. c2s' \in [Conns -> Seq(Sent)] /\ s2c' \in [Conns -> Seq(Sent)]
    BY <1>5, <1>9, OneChanges DEF Connect
  <2>2. /\ srv' \in [Conns -> {"queued", "open", "closed"}]
        /\ cli' \in [Conns -> {"open", "closed"}]
    BY <1>9 DEF Connect
  <2> QED BY <2>1, <2>2
<1>10. ASSUME NEW k \in Conns, Break(k) PROVE Streams' BY <1>10 DEF Break
<1>11. CASE SRestart BY <1>5, <1>11 DEF SRestart
<1>12. CASE UNCHANGED net BY <1>12 DEF net
<1> QED BY <1>1, <1>2, <1>3, <1>4, <1>6, <1>7, <1>8, <1>9, <1>10, <1>11, <1>12
        DEF NetStep

LEMMA HeadIsFresh ==
  ASSUME NEW q \in Seq({"new"}), q # <<>>
  PROVE  Head(q) = "new" /\ Tail(q) \in Seq({"new"})
  OBVIOUS

(* Every step of a side or of the world around is a step of the network.   *)
LEMMA ServerNetStep == LinkInv /\ ServerNext => NetStep
<1> SUFFICES ASSUME LinkInv, ServerNext PROVE NetStep
  OBVIOUS
<1> USE DEF NetStep, Sent, Handshake
<1>1. ASSUME NEW k \in Conns, SAccept(k) PROVE NetStep BY <1>1 DEF SAccept
<1>2. CASE SRecvEnd BY <1>2 DEF SRecvEnd
<1>3. CASE SRecvInit \/ SRecvMessage BY <1>3 DEF SRecvInit, SRecvMessage
<1>4. CASE SAck \/ SNack BY <1>4 DEF SAck, SNack, ServerCannot
<1>5. CASE SConnected \/ SEnd \/ SProcess \/ SSendStart \/ SApp
  BY <1>5 DEF SConnected, SEnd, SProcess, SSendStart, SApp
<1>6. CASE SSend
  <2>1. txq # <<>> => Head(txq) = "new"
    BY <1>6, HeadIsFresh DEF SSend, LinkInv, Fresh
  <2> QED BY <1>6, <2>1 DEF SSend, ServerCannot
<1> QED BY <1>1, <1>2, <1>3, <1>4, <1>5, <1>6 DEF ServerNext, ServerTask

LEMMA ClientNetStep == LinkInv /\ ClientNext => NetStep
<1> SUFFICES ASSUME LinkInv, ClientNext PROVE NetStep
  OBVIOUS
<1> USE DEF NetStep, Sent, Handshake
<1>1. ASSUME NEW k \in Conns, CConnect(k) PROVE NetStep BY <1>1 DEF CConnect
<1>2. CASE CInit \/ CAnswer BY <1>2 DEF CInit, CAnswer, ClientCannot
<1>3. CASE CGiveUp \/ CRecv \/ CClose BY <1>3 DEF CGiveUp, CRecv, CClose
<1>4. CASE CTasks \/ CConnected \/ CRecvEnd \/ CIdle \/ CDelete
  BY <1>4 DEF CTasks, CConnected, CRecvEnd, CIdle, CDelete
<1>5. CASE CProcess BY <1>5 DEF CProcess
<1>6. CASE CSendStart \/ CApp \/ DisconnectPost
  BY <1>6 DEF CSendStart, CApp, DisconnectPost
<1>7. CASE CSend
  <2>1. Head(cTxq) = "new"
    BY <1>7, HeadIsFresh DEF CSend, LinkInv, Fresh
  <2> QED BY <1>7, <2>1 DEF CSend, ClientCannot
<1> QED BY <1>1, <1>2, <1>3, <1>4, <1>5, <1>6, <1>7 DEF ClientNext, ClientTask

LEMMA LinkNetStep == LinkInv /\ [Next]_vars => NetStep
<1> SUFFICES ASSUME LinkInv, [Next]_vars PROVE NetStep
  OBVIOUS
<1>1. CASE ServerSide BY <1>1, ServerNetStep DEF ServerSide
<1>2. CASE ClientSide BY <1>2, ClientNetStep DEF ClientSide
<1>3. ASSUME NEW k \in Conns, LinkBreaks(k) \/ PcConnects(k) PROVE NetStep
  BY <1>3 DEF LinkBreaks, PcConnects, NetStep
<1>4. CASE ServerRestarts BY <1>4 DEF ServerRestarts, NetStep
<1>5. CASE Disconnect BY <1>5 DEF Disconnect, DisconnectTest, NetStep
<1>6. CASE PcSends
  BY <1>6 DEF PcSends, NetStep, Sent, Handshake
<1>7. CASE PcGets \/ PcCloses BY <1>7 DEF PcGets, PcCloses, NetStep
<1>8. CASE ClientOutOfSockets BY <1>8 DEF ClientOutOfSockets, CNoSocket, NetStep
<1>9. CASE UNCHANGED vars BY <1>9 DEF vars, NetStep
<1> QED BY <1>1, <1>2, <1>3, <1>4, <1>5, <1>6, <1>7, <1>8, <1>9 DEF Next

-------------------------------------------------------------------------------
(* The queues and the session.                                             *)

LEMMA ServerKeepsFresh ==
  ASSUME LinkInv, ServerNext, UNCHANGED clientVars PROVE Fresh' /\ Session'
<1> USE DEF LinkInv, Fresh, Session, ServerSites, clientVars, cTasks, cQueues, sTasks
<1>1. Old(txq) \in Seq(Data) BY DEF Old, Data
<1>2. ASSUME NEW k \in Conns, SAccept(k) PROVE Fresh' /\ Session' BY <1>2 DEF SAccept
<1>3. CASE SRecvEnd BY <1>3 DEF SRecvEnd
<1>4. CASE SRecvInit
  <2>1. CASE commstate = "IDLE"
    <3>1. sReset' = FALSE /\ txq' = Old(txq) BY <1>4, <2>1, Zenon DEF SRecvInit
    <3>2. Fresh' BY <1>1, <1>4, <3>1 DEF SRecvInit
    <3>3. Session' BY <1>4, <2>1 DEF SRecvInit
    <3> QED BY <3>2, <3>3
  <2>2. CASE commstate # "IDLE" BY <1>4, <2>2 DEF SRecvInit
  <2> QED BY <2>1, <2>2
<1>5. CASE SRecvMessage BY <1>5 DEF SRecvMessage
<1>6. CASE SAck BY <1>6 DEF SAck
<1>7. CASE SConnected BY <1>7 DEF SConnected
<1>8. CASE SNack
  <2>1. UNCHANGED <<commstate, processTasks, sendTasks>> BY <1>8 DEF SNack
  <2>2. sPc' \in {"recv", "end"} BY <1>8 DEF SNack
  <2>3. Session' BY <1>8, <2>1, <2>2 DEF SNack
  <2>4. Fresh' BY <1>8, Zenon DEF SNack
  <2> QED BY <2>3, <2>4
<1>9. CASE SEnd BY <1>9 DEF SEnd
<1>10. CASE SProcess BY <1>10 DEF SProcess
<1>11. CASE SSendStart
  <2>1. txq' = <<>> BY <1>11 DEF SSendStart
  <2>2. sReset' \in BOOLEAN BY <1>11, Zenon DEF SSendStart
  <2>3. Fresh' BY <1>11, <2>1, <2>2 DEF SSendStart
  <2>4. Session' BY <1>11 DEF SSendStart
  <2> QED BY <2>3, <2>4
<1>12. CASE SSend BY <1>12 DEF SSend
<1>13. CASE SApp
  <2>1. Append(txq, "new") \in Seq(Data) BY DEF Data
  <2>2. txq \in Seq({"new"}) => Append(txq, "new") \in Seq({"new"}) OBVIOUS
  <2> QED BY <1>13, <2>1, <2>2 DEF SApp
<1> QED BY <1>2, <1>3, <1>4, <1>5, <1>6, <1>7, <1>8, <1>9, <1>10, <1>11, <1>12,
           <1>13 DEF ServerNext, ServerTask

LEMMA ClientKeepsFresh ==
  ASSUME LinkInv, ClientNext \/ DisconnectTest \/ CNoSocket, UNCHANGED serverVars
  PROVE  Fresh' /\ Session'
<1> USE DEF LinkInv, Fresh, Session, ServerSites, serverVars, cTasks, cQueues, sTasks
<1>1. Session' OBVIOUS
<1>2. ASSUME NEW k \in Conns, CConnect(k) PROVE Fresh' BY <1>2 DEF CConnect
<1>3. CASE CNoSocket \/ CInit \/ CAnswer \/ CGiveUp
  BY <1>3 DEF CNoSocket, CInit, CAnswer, CGiveUp
<1>4. CASE CTasks
  <2>1. [i \in 1..Len(cTxq) |-> "old"] \in Seq(Data) BY DEF Data
  <2> QED BY <1>4, <2>1 DEF CTasks
<1>5. CASE CConnected \/ CRecv \/ CRecvEnd \/ CClose
  BY <1>5 DEF CConnected, CRecv, CRecvEnd, CClose
<1>6. CASE CIdle \/ CDelete BY <1>6 DEF CIdle, CDelete
<1>7. CASE CProcess BY <1>7 DEF CProcess
<1>8. CASE CSendStart BY <1>8 DEF CSendStart
<1>9. CASE CSend BY <1>9 DEF CSend
<1>10. CASE CApp
  <2>1. Append(cTxq, "new") \in Seq(Data) BY DEF Data
  <2>2. cTxq \in Seq({"new"}) => Append(cTxq, "new") \in Seq({"new"}) OBVIOUS
  <2> QED BY <1>10, <2>1, <2>2 DEF CApp
<1>11. CASE DisconnectPost \/ DisconnectTest
  BY <1>11 DEF DisconnectPost, DisconnectTest
<1> QED BY <1>1, <1>2, <1>3, <1>4, <1>5, <1>6, <1>7, <1>8, <1>9, <1>10, <1>11
        DEF ClientNext, ClientTask

LEMMA LinkInvNext == LinkInv /\ [Next]_vars => LinkInv'
<1> SUFFICES ASSUME LinkInv, [Next]_vars PROVE LinkInv'
  OBVIOUS
<1>1. Streams' BY LinkNetStep, NetStepKeepsStreams DEF LinkInv
<1>2. ASSUME UNCHANGED <<serverVars, clientVars>> PROVE Fresh' /\ Session'
  <2>1. UNCHANGED <<txq, cTxq, sReset, cSend>>
    BY <1>2, Zenon DEF serverVars, clientVars, sTasks, cTasks, cQueues
  <2>2. UNCHANGED <<sPc, commstate, processTasks, sendTasks>>
    BY <1>2, Zenon DEF serverVars, sTasks
  <2>3. Fresh' BY <2>1, Zenon DEF LinkInv, Fresh
  <2>4. Session' BY <2>2, Zenon DEF LinkInv, Session, ServerSites
  <2> QED BY <2>3, <2>4
<1>3. ASSUME ServerSide PROVE Fresh' /\ Session'
  BY <1>3, ServerKeepsFresh DEF ServerSide
<1>4. ASSUME ClientSide \/ Disconnect \/ ClientOutOfSockets PROVE Fresh' /\ Session'
  BY <1>4, ClientKeepsFresh DEF ClientSide, Disconnect, ClientOutOfSockets
<1>5. ASSUME ServerRestarts PROVE Fresh' /\ Session'
  <2>1. txq' = <<>> /\ UNCHANGED <<cTxq, cSend>>
    BY <1>5 DEF ServerRestarts, SRestart, clientVars, cTasks, cQueues
  <2>2. sReset' = FALSE BY <1>5, Zenon DEF ServerRestarts, SRestart
  <2>3. sReset' \in BOOLEAN BY <2>2, Zenon
  <2>4. Fresh' BY <2>1, <2>2, <2>3 DEF LinkInv, Fresh
  <2>5. Session'
    BY <1>5 DEF ServerRestarts, SRestart, Session, ServerSites
  <2> QED BY <2>4, <2>5
<1>6. ASSUME NEW k \in Conns, LinkBreaks(k) \/ PcConnects(k)
      PROVE  Fresh' /\ Session'
  BY <1>2, <1>6 DEF LinkBreaks, PcConnects
<1>7. ASSUME PcSends \/ PcGets \/ PcCloses PROVE Fresh' /\ Session'
  BY <1>2, <1>7 DEF PcSends, PcGets, PcCloses
<1>8. ASSUME UNCHANGED vars PROVE Fresh' /\ Session'
  BY <1>2, <1>8 DEF vars
<1>9. Fresh' /\ Session'
  BY <1>3, <1>4, <1>5, <1>6, <1>7, <1>8 DEF Next
<1> QED BY <1>1, <1>9 DEF LinkInv

LEMMA LinkInvHolds == Spec => []LinkInv
  BY LinkInvInit, LinkInvNext, PTL DEF Spec

(* tcp_server.c: one task of each kind at most, and none between two       *)
(* sessions, whatever the peers send and whenever the link breaks.         *)
THEOREM LinkOnePair == Spec => []OnePair
<1>1. LinkInv => OnePair BY DEF LinkInv, Session, OnePair
<1> QED BY <1>1, LinkInvHolds, PTL

(* Both send tasks: no stream ever carries data queued in a session before.*)
THEOREM LinkNoOldData == Spec => []NoOldData
<1>1. LinkInv => NoOldData
  <2> SUFFICES ASSUME LinkInv, NEW k \in Conns
               PROVE  /\ \A i \in 1..Len(s2c[k]) : s2c[k][i] # "old"
                      /\ \A i \in 1..Len(c2s[k]) : c2s[k][i] # "old"
    BY DEF NoOldData
  <2>1. s2c[k] \in Seq(Sent) /\ c2s[k] \in Seq(Sent) BY DEF LinkInv, Streams
  <2>2. "old" \notin Sent BY DEF Sent, Handshake
  <2> QED BY <2>1, <2>2
<1> QED BY <1>1, LinkInvHolds, PTL
-------------------------------------------------------------------------------
(* The sockets of the server.  Each is that of the session there is, or    *)
(* was lost with an answer that could not be sent.                         *)

ServerLasts == sPc = "ended" => unsent >= MaxSocks

Sockets ==
  /\ IsFiniteSet(InUse) /\ unsent \in Nat
  /\ InSession => sConn \in InUse
  /\ Cardinality(InUse) <= unsent + IF InSession THEN 1 ELSE 0

SocketInv == LinkInv /\ Sockets /\ ServerLasts

LEMMA SocketsInit == Init => Sockets /\ ServerLasts
<1> SUFFICES ASSUME Init PROVE Sockets /\ ServerLasts
  OBVIOUS
<1>1. InUse = {} BY DEF Init, NetInit, InUse
<1>2. sPc = "accept" /\ unsent = 0 BY DEF Init, ServerInit
<1> QED BY <1>1, <1>2, FS_EmptySet DEF Sockets, ServerLasts, InSession

(* A step that opens no end of the server and closes none.                 *)
LEMMA SocketsStay ==
  ASSUME SocketInv, InUse' = InUse, UNCHANGED <<sConn, unsent>>,
         sPc' = sPc \/ (InSession /\ InSession') \/ (~InSession /\ sPc' = "accept")
  PROVE  Sockets' /\ ServerLasts'
  BY DEF SocketInv, Sockets, ServerLasts, InSession

LEMMA OtherEnds ==
  ASSUME Streams, NEW k \in Conns,
         Connect(k) \/ Break(k) \/ ClientCloses(k)
  PROVE  InUse' = InUse
  BY DEF Streams, Connect, Break, ClientCloses, InUse

LEMMA ServerKeepsSockets ==
  ASSUME SocketInv, ServerNext PROVE Sockets' /\ ServerLasts'
<1> USE DEF SocketInv, InSession
<1>1. ASSUME UNCHANGED srv PROVE InUse' = InUse BY <1>1 DEF InUse
<1>2. ASSUME NEW k \in Conns, SAccept(k) PROVE Sockets' /\ ServerLasts'
  <2>1. srv[k] # "open" /\ k \notin InUse /\ sPc = "accept" /\ unsent' = unsent
    BY <1>2 DEF SAccept, InUse
  <2>2. CASE Cardinality(InUse) < MaxSocks
    <3>1. /\ InUse' = InUse \cup {k} /\ sConn' = k /\ sPc' = "recv"
      BY <1>2, <2>2 DEF SAccept, Accepted, InUse, LinkInv, Streams
    <3>2. IsFiniteSet(InUse') /\ Cardinality(InUse') = Cardinality(InUse) + 1
      BY <2>1, <3>1, FS_AddElement DEF Sockets
    <3>3. Cardinality(InUse) \in Nat BY FS_CardinalityType DEF Sockets
    <3> QED BY <2>1, <3>1, <3>2, <3>3 DEF Sockets, ServerLasts
  <2>3. CASE ~(Cardinality(InUse) < MaxSocks)
    <3>1. InUse' = InUse /\ sPc' = "ended"
      BY <1>2, <2>1, <2>3 DEF SAccept, ServerCloses, InUse, LinkInv, Streams
    <3>2. Cardinality(InUse) \in Nat BY FS_CardinalityType DEF Sockets
    <3> QED BY <2>1, <2>3, <3>1, <3>2 DEF Sockets, ServerLasts
  <2> QED BY <2>2, <2>3
<1>3. CASE SRecvEnd
  <2>1. sConn \in InUse /\ sPc' = "end" /\ unsent' = unsent
    BY <1>3 DEF SRecvEnd, Sockets
  <2>2. InUse' = InUse \ {sConn}
    BY <1>3 DEF SRecvEnd, ServerCloses, InUse, LinkInv, Streams
  <2>3. IsFiniteSet(InUse') /\ Cardinality(InUse') = Cardinality(InUse) - 1
    BY <2>1, <2>2, FS_RemoveElement DEF Sockets
  <2>4. Cardinality(InUse) \in Nat BY FS_CardinalityType DEF Sockets
  <2>5. Cardinality(InUse) <= unsent + 1 BY <1>3 DEF SRecvEnd, Sockets
  <2> QED BY <2>1, <2>3, <2>4, <2>5 DEF Sockets, ServerLasts
<1>4. CASE SRecvInit \/ SRecvMessage \/ SConnected
  <2>1. UNCHANGED <<srv, sConn, unsent>>
    BY <1>4 DEF SRecvInit, SRecvMessage, SConnected, ServerGets, net
  <2>2. sPc \in {"recv", "acked"} /\ sPc' \in {"recv", "ack", "nack"}
    BY <1>4 DEF SRecvInit, SRecvMessage, SConnected
  <2> QED BY <1>1, <2>1, <2>2, SocketsStay
<1>5. CASE SAck \/ SNack
  <2>1. UNCHANGED <<srv, sConn>>
    BY <1>5 DEF SAck, SNack, ServerSends, ServerCannot, net
  <2>2. CASE unsent' = unsent + 1 /\ sPc' = "end"
    <3>1. Cardinality(InUse) <= unsent + 1
      BY <1>5 DEF SAck, SNack, Sockets
    <3> QED BY <1>1, <2>1, <2>2, <3>1 DEF Sockets, ServerLasts
  <2>3. CASE unsent' = unsent /\ sPc' \in {"acked", "recv"}
    <3>1. sPc \in {"ack", "nack"} BY <1>5 DEF SAck, SNack
    <3> QED BY <1>1, <2>1, <2>3, <3>1, SocketsStay
  <2> QED BY <1>5, <2>2, <2>3 DEF SAck, SNack
<1>6. CASE SEnd
  BY <1>1, <1>6, SocketsStay DEF SEnd, net
<1>7. CASE SProcess \/ SSendStart \/ SSend \/ SApp
  <2>1. UNCHANGED <<srv, sConn, unsent, sPc>>
    BY <1>7 DEF SProcess, SSendStart, SSend, SApp, ServerSends, ServerCannot, net
  <2> QED BY <1>1, <2>1, SocketsStay
<1> QED BY <1>2, <1>3, <1>4, <1>5, <1>6, <1>7 DEF ServerNext, ServerTask

LEMMA ClientKeepsEnds ==
  ASSUME SocketInv, ClientNext \/ DisconnectTest \/ CNoSocket PROVE InUse' = InUse
<1> USE DEF SocketInv, LinkInv
<1>1. ASSUME UNCHANGED srv PROVE InUse' = InUse BY <1>1 DEF InUse
<1>2. ASSUME NEW k \in Conns, CConnect(k) PROVE InUse' = InUse
  BY <1>2, OtherEnds DEF CConnect
<1>3. CASE CNoSocket \/ CInit \/ CAnswer \/ CGiveUp \/ CTasks \/ CConnected \/ CRecv
           \/ CRecvEnd \/ CClose \/ CIdle \/ CDelete
  BY <1>1, <1>3 DEF CNoSocket, CInit, CAnswer, CGiveUp, CTasks, CConnected, CRecv, CRecvEnd,
       CClose, CIdle, CDelete, ClientSends, ClientCannot, ClientGets, ClientCloses, net
<1>4. CASE CProcess \/ CSendStart \/ CSend \/ CApp \/ DisconnectPost \/ DisconnectTest
  BY <1>1, <1>4 DEF CProcess, CSendStart, CSend, CApp, DisconnectPost, DisconnectTest,
       ClientCloses, ClientSends, ClientCannot, net
<1> QED BY <1>2, <1>3, <1>4 DEF ClientNext, ClientTask

LEMMA SocketsNext == SocketInv /\ [Next]_vars => SocketInv'
<1> SUFFICES ASSUME SocketInv, [Next]_vars PROVE SocketInv'
  OBVIOUS
<1>1. LinkInv' BY LinkInvNext DEF SocketInv
<1>2. ASSUME UNCHANGED serverVars, InUse' = InUse PROVE Sockets' /\ ServerLasts'
  BY <1>2, SocketsStay DEF serverVars
<1>3. ASSUME UNCHANGED srv PROVE InUse' = InUse BY <1>3 DEF InUse
<1>4. ASSUME ServerSide PROVE Sockets' /\ ServerLasts'
  BY <1>4, ServerKeepsSockets DEF ServerSide
<1>5. ASSUME ClientSide \/ Disconnect \/ ClientOutOfSockets
      PROVE  Sockets' /\ ServerLasts'
  BY <1>2, <1>5, ClientKeepsEnds DEF ClientSide, Disconnect, ClientOutOfSockets
<1>6. ASSUME NEW k \in Conns, LinkBreaks(k) \/ PcConnects(k)
      PROVE  Sockets' /\ ServerLasts'
  BY <1>2, <1>6, OtherEnds DEF LinkBreaks, PcConnects, SocketInv, LinkInv
<1>7. ASSUME PcSends \/ PcGets \/ PcCloses PROVE Sockets' /\ ServerLasts'
  BY <1>2, <1>3, <1>7 DEF PcSends, PcGets, PcCloses, ClientSends, ClientGets, ClientCloses
<1>8. ASSUME ServerRestarts PROVE Sockets' /\ ServerLasts'
  <2>1. InUse' = {} /\ sPc' = "accept" /\ unsent' = 0
    BY <1>8 DEF ServerRestarts, SRestart, InUse
  <2> QED BY <2>1, FS_EmptySet DEF Sockets, ServerLasts, InSession
<1>9. ASSUME UNCHANGED vars PROVE Sockets' /\ ServerLasts'
  BY <1>2, <1>3, <1>9 DEF vars, net
<1>10. Sockets' /\ ServerLasts'
  BY <1>4, <1>5, <1>6, <1>7, <1>8, <1>9 DEF Next
<1> QED BY <1>1, <1>10 DEF SocketInv

(* tcp_server.c 196-216, 236-244: the server task ends only for want of    *)
(* sockets, and each of them was lost to a COMMACK or COMMNACK that could  *)
(* not be sent: no other way out of a session keeps one.                   *)
THEOREM LinkServerLasts == Spec => []ServerLasts
<1>1. Init => SocketInv BY LinkInvInit, SocketsInit DEF SocketInv
<1>2. SocketInv => ServerLasts BY DEF SocketInv
<1> QED BY <1>1, <1>2, SocketsNext, PTL DEF Spec
===============================================================================
