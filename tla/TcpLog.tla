--------------------------------- MODULE TcpLog --------------------------------
(***************************************************************************)
(* The remote log of tcp/tcp_log.c.  Every task logs: tcp_log_message puts *)
(* the line in a queue, and tcp_log_task sends it to the log server or     *)
(* publishes it by MQTT.  tcp_log_init, called when the console state      *)
(* changes (nvs_conf), starts the task, or stops it with a message through *)
(* the same queue.  The flags between them are plain globals.              *)
(***************************************************************************)
EXTENDS Naturals, Sequences, NetState

CONSTANTS Callers,      \* tasks that call tcp_log_init
          Loggers,      \* tasks that log
          LogQueueCap,  \* MSG_QUEUE_SIZE
          AllocErrors,  \* may the task or the queue not be created?
          StopTimeouts  \* may the waits of a stop run out?

ASSUME LogConstants ==
  /\ LogQueueCap \in Nat \ {0}
  /\ AllocErrors \in BOOLEAN /\ StopTimeouts \in BOOLEAN

VARIABLES
  log_level,   \* "off" (below CONSOLE_TCP), "tcp" or "mqtt"
  enable,      \* tcp_log_enable
  taskHandle,  \* tcp_log_task_handle is not NULL
  queue,       \* "null", "made", or "deleted": freed, the pointer still set
  msgs,        \* what is in the queue: lines and the terminate message
  logPc,       \* where tcp_log_task is; "none": there is no task
  sock,        \* sendsock >= 0
  pc, res,     \* per caller: where it is, its last result
  resolved,    \* per caller: the name of the log server was resolved
  lpc          \* per logger: "idle" or "send"

logVars == <<log_level, enable, taskHandle, queue, msgs, logPc, sock, pc, res,
             resolved, lpc>>
netLogVars == <<net, logVars>>

caller == <<pc, res, resolved>>
Levels == {"off", "tcp", "mqtt"}
LogSites == {"none", "create", "wait", "got", "init", "resolve", "send", "close",
             "free", "forget", "end"}

LogStart ==
  /\ NetInit
  /\ log_level = "off" /\ enable = FALSE
  /\ taskHandle = FALSE /\ queue = "null" /\ msgs = <<>>
  /\ logPc = "none" /\ sock = FALSE
  /\ pc = [c \in Callers |-> "idle"] /\ res = [c \in Callers |-> "none"]
  /\ resolved = [c \in Callers |-> FALSE]
  /\ lpc = [l \in Loggers |-> "idle"]

LogNetChanges == NetNext /\ UNCHANGED logVars

Goto(c, site) == pc' = [pc EXCEPT ![c] = site]
Return(c, r) == Goto(c, "idle") /\ res' = [res EXCEPT ![c] = r]
Full == Len(msgs) = LogQueueCap

-------------------------------------------------------------------------------
(* tcp_log_init, called by a task other than tcp_log_task.                 *)

InitBegin(c, l) ==
  /\ pc[c] = "idle" /\ log_level' = l
  /\ Goto(c, IF l = "off" THEN "stop" ELSE "start")
  /\ UNCHANGED <<net, enable, taskHandle, queue, msgs, logPc, sock, res,
                 resolved, lpc>>

\* The terminate message waits for room in the queue, for a while.
InitStop(c) ==
  /\ pc[c] = "stop"
  /\ IF ~taskHandle THEN Return(c, "ok") /\ UNCHANGED msgs
     ELSE /\ Goto(c, "poll") /\ UNCHANGED res
          /\ IF queue = "made" /\ ~Full THEN msgs' = Append(msgs, "terminate")
             ELSE (queue # "made" \/ StopTimeouts) /\ UNCHANGED msgs
  /\ UNCHANGED <<net, log_level, enable, taskHandle, queue, logPc, sock,
                 resolved, lpc>>

\* Mutant: the handle is not looked at before reporting success.
InitPoll_NoCheck(c) ==
  /\ pc[c] = "poll" /\ Return(c, "ok") /\ enable' = FALSE
  /\ UNCHANGED <<net, log_level, taskHandle, queue, msgs, logPc, sock, resolved,
                 lpc>>

\* Ten times 10 ms.
InitPoll(c) ==
  /\ pc[c] = "poll"
  /\ IF taskHandle
       THEN StopTimeouts /\ Return(c, "fail") /\ UNCHANGED enable
       ELSE Return(c, "ok") /\ enable' = FALSE
  /\ UNCHANGED <<net, log_level, taskHandle, queue, msgs, logPc, sock, resolved,
                 lpc>>

\* getaddrinfo takes its time and may fail.
InitStart(c) ==
  /\ pc[c] = "start"
  /\ IF enable THEN Return(c, "ok") /\ UNCHANGED resolved
     ELSE /\ Goto(c, "task") /\ UNCHANGED res
          /\ \E r \in BOOLEAN : resolved' = [resolved EXCEPT ![c] = r]
  /\ UNCHANGED <<net, log_level, enable, taskHandle, queue, msgs, logPc, sock,
                 lpc>>

\* xTaskCreate sets the handle, if it can create the task.
InitTask(c) ==
  /\ pc[c] = "task"
  /\ IF taskHandle THEN Goto(c, "enable") /\ UNCHANGED <<taskHandle, logPc>>
     ELSE /\ Goto(c, "created")
          /\ \/ taskHandle' = TRUE /\ logPc' = "create"
             \/ AllocErrors /\ UNCHANGED <<taskHandle, logPc>>
  /\ UNCHANGED <<net, log_level, enable, queue, msgs, sock, res, resolved, lpc>>

\* The new task may have found no memory for its queue, and be gone already.
InitCreated(c) ==
  /\ pc[c] = "created"
  /\ IF taskHandle THEN Goto(c, "enable") /\ UNCHANGED <<enable, res>>
     ELSE enable' = FALSE /\ Return(c, "fail")
  /\ UNCHANGED <<net, log_level, taskHandle, queue, msgs, logPc, sock, resolved,
                 lpc>>

InitEnable(c) ==
  /\ pc[c] = "enable"
  /\ enable' = resolved[c]
  /\ Return(c, IF resolved[c] THEN "ok" ELSE "fail")
  /\ UNCHANGED <<net, log_level, taskHandle, queue, msgs, logPc, sock, resolved,
                 lpc>>

InitStep(c) ==
  \/ InitStop(c) \/ InitPoll(c) \/ InitStart(c)
  \/ InitTask(c) \/ InitCreated(c) \/ InitEnable(c)

-------------------------------------------------------------------------------
(* tcp_log_message, in any task.                                           *)

LogCheck(l) ==
  /\ lpc[l] = "idle" /\ log_level # "off"
  /\ IF net = "online"
       THEN /\ queue # "null" /\ lpc' = [lpc EXCEPT ![l] = "send"]
            /\ UNCHANGED enable
       ELSE enable' = FALSE /\ UNCHANGED lpc
  /\ UNCHANGED <<net, log_level, taskHandle, queue, msgs, logPc, sock, caller>>

\* A line that finds no room is dropped.  The pointer is read once more.
LogSend(l) ==
  /\ lpc[l] = "send" /\ lpc' = [lpc EXCEPT ![l] = "idle"]
  /\ msgs' = IF queue = "made" /\ ~Full THEN Append(msgs, "line") ELSE msgs
  /\ UNCHANGED <<net, log_level, enable, taskHandle, queue, logPc, sock, caller>>

-------------------------------------------------------------------------------
(* tcp_log_task.                                                           *)

TaskOnly == UNCHANGED <<net, log_level, caller, lpc>>

TaskCreate ==
  /\ logPc = "create"
  /\ \/ /\ queue' = IF queue = "null" THEN "made" ELSE queue
        /\ logPc' = "wait"
        /\ UNCHANGED <<taskHandle, msgs>>
     \/ /\ AllocErrors /\ queue = "null" /\ taskHandle' = FALSE /\ logPc' = "none"
        /\ UNCHANGED <<queue, msgs>>
  /\ sock' = FALSE
  /\ UNCHANGED enable /\ TaskOnly

\* Mutant: the marker is not recognised.
TaskTake_MissesMarker ==
  /\ logPc = "wait" /\ msgs # <<>>
  /\ msgs' = Tail(msgs) /\ logPc' = "got"
  /\ UNCHANGED <<enable, taskHandle, queue, sock>> /\ TaskOnly

TaskTake ==
  /\ logPc = "wait" /\ msgs # <<>>
  /\ msgs' = Tail(msgs)
  /\ logPc' = IF Head(msgs) = "terminate" THEN "close" ELSE "got"
  /\ UNCHANGED <<enable, taskHandle, queue, sock>> /\ TaskOnly

\* By TCP, or by MQTT, or not at all if the level was lowered meanwhile.
TaskGot ==
  /\ logPc = "got"
  /\ logPc' = IF log_level = "tcp" THEN "init" ELSE "wait"
  /\ UNCHANGED <<enable, taskHandle, queue, msgs, sock>> /\ TaskOnly

\* tcp_log_init(-1): with the level lowered meanwhile it is a stop, and the
\* task sends itself the terminate message.
TaskInit ==
  /\ logPc = "init"
  /\ \/ /\ log_level = "off" /\ logPc' = "wait"
        /\ msgs' = IF Full THEN msgs ELSE Append(msgs, "terminate")
        /\ UNCHANGED enable
     \/ /\ log_level # "off" /\ enable /\ logPc' = "send"
        /\ UNCHANGED <<enable, msgs>>
     \/ /\ log_level # "off" /\ ~enable /\ logPc' = "resolve"
        /\ UNCHANGED <<enable, msgs>>
  /\ UNCHANGED <<taskHandle, queue, sock>> /\ TaskOnly

\* Its getaddrinfo takes its time as well; the line is lost if it fails.
TaskResolve ==
  /\ logPc = "resolve"
  /\ \E r \in BOOLEAN : /\ enable' = r
                        /\ logPc' = IF r THEN "send" ELSE "wait"
  /\ UNCHANGED <<taskHandle, queue, msgs, sock>> /\ TaskOnly

\* reconnect and send: the line goes out, or is lost and the socket with it.
TaskSend ==
  /\ logPc = "send" /\ logPc' = "wait"
  /\ sock' \in BOOLEAN
  /\ UNCHANGED <<enable, taskHandle, queue, msgs>> /\ TaskOnly

TaskClose ==
  /\ logPc = "close" /\ logPc' = "free"
  /\ enable' = FALSE /\ sock' = FALSE
  /\ UNCHANGED <<taskHandle, queue, msgs>> /\ TaskOnly

\* vQueueDelete, and what was still queued is gone.
TaskFree ==
  /\ logPc = "free" /\ logPc' = "forget"
  /\ queue' = "deleted" /\ msgs' = <<>>
  /\ UNCHANGED <<enable, taskHandle, sock>> /\ TaskOnly

TaskForget ==
  /\ logPc = "forget" /\ logPc' = "end"
  /\ queue' = "null"
  /\ UNCHANGED <<enable, taskHandle, msgs, sock>> /\ TaskOnly

\* With its handle cleared, all the task still does is delete itself.
TaskEnd ==
  /\ logPc = "end" /\ logPc' = "none"
  /\ taskHandle' = FALSE
  /\ UNCHANGED <<enable, queue, msgs, sock>> /\ TaskOnly

TaskStep ==
  \/ TaskCreate \/ TaskTake \/ TaskGot \/ TaskInit \/ TaskResolve \/ TaskSend
  \/ TaskClose \/ TaskFree \/ TaskForget \/ TaskEnd

LogNext ==
  \/ LogNetChanges
  \/ \E c \in Callers : (\E l \in Levels : InitBegin(c, l)) \/ InitStep(c)
  \/ \E l \in Loggers : LogCheck(l) \/ LogSend(l)
  \/ TaskStep

LogSpec == LogStart /\ [][LogNext]_netLogVars
-------------------------------------------------------------------------------

(* tcp_log.c 68-93, 205-217: after a stop that reported success there is no *)
(* task, no queue and no socket left, although it was the task that had to  *)
(* release them and the caller only watched its handle.                     *)
StoppedIsGone ==
  (log_level = "off" /\ \A c \in Callers : pc[c] = "idle" /\ res[c] = "ok")
     => ~taskHandle /\ queue = "null" /\ ~sock /\ logPc = "none"

(* tcp_log.c 201-217: once the terminate message is in the queue the task   *)
(* gets to it and goes, whatever lines are before it and whatever the       *)
(* callers of tcp_log_init do meanwhile.                                    *)
TerminateWorks == (\E i \in DOMAIN msgs : msgs[i] = "terminate") ~> queue = "null"

===============================================================================
