-------------------------------- MODULE NetTasks -------------------------------
(***************************************************************************)
(* The users of the network side by side: the remote log (TcpLog) and the  *)
(* MQTT client (MqttCtrl).  All they share is the network they look at, so *)
(* a behaviour follows one of them while the other is at rest.             *)
(***************************************************************************)
EXTENDS TcpLog, MqttCtrl

VARIABLE user

netTasksVars == <<user, net, logVars, mqttVars>>

NetTasksInit ==
  /\ user \in {"log", "mqtt"}
  /\ LogStart /\ MqttInit /\ (user = "log" => ~broker)

Log(A) == user = "log" /\ A /\ UNCHANGED <<user, mqttVars>>
Client(A) == user = "mqtt" /\ A /\ UNCHANGED <<user, logVars>>

NetTasksNext == Log(LogNext) \/ Client(Next)

(* The log's task runs and a call of tcp_log_init, once begun, goes on; the *)
(* client's task keeps trying, and a restart that was asked for happens.    *)
NetTasksSpec ==
  /\ NetTasksInit /\ [][NetTasksNext]_netTasksVars
  /\ WF_netTasksVars(Log(TaskStep))
  /\ \A c \in Callers : WF_netTasksVars(Log(InitStep(c)))
  /\ WF_netTasksVars(Client(Accepted \/ (client = "connecting" /\ Lost)))
  /\ WF_netTasksVars(Client(Connected \/ Disconnected))
  /\ WF_netTasksVars(Client(RxTake)) /\ WF_netTasksVars(Client(RxDone))
  /\ WF_netTasksVars(Client(Reset))
===============================================================================
