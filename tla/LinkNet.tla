-------------------------------- MODULE LinkNet --------------------------------
(***************************************************************************)
(* TCP connections between peers and one listening server, as              *)
(* tcp_server.c and tcp_client.c see them through lwIP sockets.  A         *)
(* connection is a slot with two ends and a stream in each direction; it   *)
(* may die at any moment, which the ends learn by an error.  Messages      *)
(* arrive whole (MSG_WAITALL on fixed-size messages; the last one of a     *)
(* dying stream may be short, which is left out).  External to src/.       *)
(***************************************************************************)
EXTENDS Naturals, Sequences

CONSTANTS Conns,   \* connection slots
          NoConn,  \* no connection
          BufCap   \* messages in flight in one direction

ASSUME NetConstants == NoConn \notin Conns /\ BufCap \in Nat \ {0}

VARIABLES
  cli,   \* the peer's end: "open" or "closed"
  srv,   \* the server's end: "queued" in the backlog, "open" or "closed"
  c2s,   \* what the peer sent and the server has not received
  s2c,   \* the other direction
  dead   \* the connection is broken

net == <<cli, srv, c2s, s2c, dead>>
Data == {"new", "old"}
Handshake == {"init", "ack", "nack"}

NetInit ==
  /\ cli = [k \in Conns |-> "closed"] /\ srv = [k \in Conns |-> "closed"]
  /\ c2s = [k \in Conns |-> <<>>] /\ s2c = [k \in Conns |-> <<>>]
  /\ dead = [k \in Conns |-> FALSE]

\* A backlog of one; the server's end stays in it until accept.
Connect(k) ==
  /\ cli[k] = "closed" /\ srv[k] = "closed" /\ \A j \in Conns : srv[j] # "queued"
  /\ cli' = [cli EXCEPT ![k] = "open"] /\ srv' = [srv EXCEPT ![k] = "queued"]
  /\ c2s' = [c2s EXCEPT ![k] = <<>>] /\ s2c' = [s2c EXCEPT ![k] = <<>>]
  /\ dead' = [dead EXCEPT ![k] = FALSE]

Break(k) ==
  /\ ~dead[k] /\ (cli[k] = "open" \/ srv[k] # "closed")
  /\ dead' = [dead EXCEPT ![k] = TRUE]
  /\ UNCHANGED <<cli, srv, c2s, s2c>>

\* What a closed end has not received is gone, and so is a connection
\* with no end left.
ClientCloses(k) ==
  /\ cli' = [cli EXCEPT ![k] = "closed"] /\ s2c' = [s2c EXCEPT ![k] = <<>>]
  /\ dead' = [dead EXCEPT ![k] = @ /\ srv[k] # "closed"]
  /\ UNCHANGED <<srv, c2s>>
ServerCloses(k) ==
  /\ srv' = [srv EXCEPT ![k] = "closed"] /\ c2s' = [c2s EXCEPT ![k] = <<>>]
  /\ dead' = [dead EXCEPT ![k] = @ /\ cli[k] # "closed"]
  /\ UNCHANGED <<cli, s2c>>
Accepted(k) == srv' = [srv EXCEPT ![k] = "open"] /\ UNCHANGED <<cli, c2s, s2c, dead>>

\* send: waits for room; what goes to a closed end is lost, or answered by
\* a reset.
ClientSends(k, m) ==
  /\ cli[k] = "open" /\ ~dead[k] /\ Len(c2s[k]) < BufCap
  /\ c2s' = [c2s EXCEPT ![k] = IF srv[k] = "closed" THEN @ ELSE Append(@, m)]
  /\ UNCHANGED <<cli, srv, s2c, dead>>
ServerSends(k, m) ==
  /\ srv[k] = "open" /\ ~dead[k] /\ Len(s2c[k]) < BufCap
  /\ s2c' = [s2c EXCEPT ![k] = IF cli[k] = "closed" THEN @ ELSE Append(@, m)]
  /\ UNCHANGED <<cli, srv, c2s, dead>>
ClientCannot(k) == (cli[k] # "open" \/ dead[k] \/ srv[k] = "closed") /\ UNCHANGED net
ServerCannot(k) == (srv[k] # "open" \/ dead[k] \/ cli[k] = "closed") /\ UNCHANGED net

\* recv: a message, or the end of the stream.
ClientGets(k) ==
  /\ cli[k] = "open" /\ s2c[k] # <<>> /\ s2c' = [s2c EXCEPT ![k] = Tail(@)]
  /\ UNCHANGED <<cli, srv, c2s, dead>>
ServerGets(k) ==
  /\ srv[k] = "open" /\ c2s[k] # <<>> /\ c2s' = [c2s EXCEPT ![k] = Tail(@)]
  /\ UNCHANGED <<cli, srv, s2c, dead>>
ClientAtEnd(k) == cli[k] # "open" \/ dead[k] \/ (s2c[k] = <<>> /\ srv[k] = "closed")
ServerAtEnd(k) == srv[k] # "open" \/ dead[k] \/ (c2s[k] = <<>> /\ cli[k] = "closed")
===============================================================================
