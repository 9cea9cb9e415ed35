------------------------------ MODULE TcpLogProofs -----------------------------
(***************************************************************************)
(* The remote log, for any queue, loggers, callers and failures, as long   *)
(* as no two tasks are in tcp_log_init at once: one of them could create   *)
(* the task from a level the other has lowered since.                      *)
(***************************************************************************)
EXTENDS TcpLog, TLAPS

OneAtATime ==
  \A c, d \in Callers : pc[c] # "idle" /\ pc[d] # "idle" => c = d

InitSites == {"idle", "stop", "poll", "start", "task", "created", "enable"}
Starting == {"start", "task", "created", "enable"}
Stopping == {"stop", "poll"}

LogTypes ==
  /\ log_level \in Levels /\ queue \in {"null", "made", "deleted"}
  /\ logPc \in LogSites
  /\ pc \in [Callers -> InitSites] /\ res \in [Callers -> {"none", "ok", "fail"}]

(* The handle says whether there is a task, and how far the task is says   *)
(* what there is of the queue and whether there may be a socket.           *)
TaskOwns ==
  /\ logPc # "none" <=> taskHandle = TRUE
  /\ queue = "null" <=> logPc \in {"none", "create", "end"}
  /\ queue = "deleted" <=> logPc = "forget"
  /\ sock = TRUE => logPc \in {"wait", "got", "init", "resolve", "send", "close"}

(* The level cannot change under the caller, who creates the task only     *)
(* when there shall be one.                                                *)
LevelHolds ==
  \A c \in Callers : /\ pc[c] \in Starting => log_level # "off"
                     /\ pc[c] \in Stopping => log_level = "off"

(* What a stop, or nothing done yet, leaves.                               *)
Stopped ==
  (log_level = "off" /\ \A c \in Callers : pc[c] = "idle" /\ res[c] = "ok")
    => logPc = "none"

LogInv == LogTypes /\ TaskOwns /\ LevelHolds /\ Stopped

LEMMA LogInvInit == LogStart => LogInv
<1> SUFFICES ASSUME LogStart PROVE LogInv
  OBVIOUS
<1>1. LogTypes BY DEF LogStart, LogTypes, Levels, LogSites, InitSites
<1>2. taskHandle = FALSE /\ sock = FALSE BY Zenon DEF LogStart
<1>3. TaskOwns BY <1>2 DEF LogStart, TaskOwns
<1>4. LevelHolds /\ Stopped BY DEF LogStart, LevelHolds, Stopped, Starting, Stopping
<1> QED BY <1>1, <1>3, <1>4 DEF LogInv

-------------------------------------------------------------------------------
(* tcp_log_task.                                                           *)

LEMMA TaskKeepsInv == ASSUME LogInv, TaskStep PROVE LogInv'
<1> USE DEF LogInv, LogTypes, LogSites
<1>0. UNCHANGED <<log_level, pc, res>>
  BY DEF TaskStep, TaskCreate, TaskTake, TaskGot, TaskInit, TaskResolve, TaskSend,
         TaskClose, TaskFree, TaskForget, TaskEnd, TaskOnly, caller
<1>1. LevelHolds' BY <1>0 DEF LevelHolds
<1>2. LogTypes' /\ TaskOwns'
  <2>1. CASE TaskCreate
    <3>1. sock' = FALSE BY <2>1, Zenon DEF TaskCreate
    <3>2. CASE queue' = "made" /\ logPc' = "wait" /\ taskHandle' = taskHandle
      BY <1>0, <2>1, <3>1, <3>2 DEF TaskOwns, TaskCreate
    <3>3. CASE queue' = "null" /\ logPc' = "none" /\ taskHandle' = FALSE
      BY <1>0, <3>1, <3>3 DEF TaskOwns
    <3> QED BY <2>1, <3>2, <3>3 DEF TaskCreate, TaskOwns
  <2>2. CASE TaskTake
    <3>1. logPc = "wait" /\ logPc' \in {"close", "got"}
      BY <2>2 DEF TaskTake
    <3>2. UNCHANGED <<taskHandle, queue, sock>> BY <2>2 DEF TaskTake
    <3> QED BY <1>0, <3>1, <3>2 DEF TaskOwns
  <2>3. CASE TaskGot BY <1>0, <2>3 DEF TaskGot, TaskOwns
  <2>4. CASE TaskInit BY <1>0, <2>4 DEF TaskInit, TaskOwns
  <2>5. CASE TaskResolve BY <1>0, <2>5 DEF TaskResolve, TaskOwns
  <2>6. CASE TaskSend BY <1>0, <2>6 DEF TaskSend, TaskOwns
  <2>7. CASE TaskClose
    <3>1. sock' = FALSE BY <2>7, Zenon DEF TaskClose
    <3> QED BY <1>0, <2>7, <3>1 DEF TaskClose, TaskOwns
  <2>8. CASE TaskFree BY <1>0, <2>8 DEF TaskFree, TaskOwns
  <2>9. CASE TaskForget BY <1>0, <2>9 DEF TaskForget, TaskOwns
  <2>10. CASE TaskEnd
    <3>1. taskHandle' = FALSE BY <2>10, Zenon DEF TaskEnd
    <3> QED BY <1>0, <2>10, <3>1 DEF TaskEnd, TaskOwns
  <2> QED BY <2>1, <2>2, <2>3, <2>4, <2>5, <2>6, <2>7, <2>8, <2>9, <2>10 DEF TaskStep
<1>3. logPc # "none"
  BY DEF TaskStep, TaskCreate, TaskTake, TaskGot, TaskInit, TaskResolve, TaskSend,
         TaskClose, TaskFree, TaskForget, TaskEnd
<1>4. Stopped' BY <1>0, <1>3 DEF Stopped
<1> QED BY <1>1, <1>2, <1>4

-------------------------------------------------------------------------------
(* tcp_log_init.  Only InitTask touches the task.                          *)

LEMMA CallerKeepsInv ==
  ASSUME LogInv, OneAtATime, OneAtATime', NEW c \in Callers,
         InitStep(c) \/ \E l \in Levels : InitBegin(c, l)
  PROVE  LogInv'
<1> USE DEF LogInv, LogTypes, Goto, Return, InitSites, Starting, Stopping
<1>0. \A d \in Callers : d # c => pc[d] = "idle"
  <2>1. CASE InitStep(c)
    BY <2>1 DEF OneAtATime, InitStep, InitStop, InitPoll, InitStart, InitTask,
       InitCreated, InitEnable
  <2>2. ASSUME NEW l \in Levels, InitBegin(c, l)
        PROVE  \A d \in Callers : d # c => pc[d] = "idle"
    <3>1. pc' = [pc EXCEPT ![c] = IF l = "off" THEN "stop" ELSE "start"]
      BY <2>2 DEF InitBegin
    <3> QED BY <3>1 DEF OneAtATime
  <2> QED BY <2>1, <2>2
<1>1. ASSUME NEW l \in Levels, InitBegin(c, l) PROVE LogInv'
  <2>1. UNCHANGED <<taskHandle, queue, sock, logPc, res>> BY <1>1 DEF InitBegin
  <2>2. pc' = [pc EXCEPT ![c] = IF l = "off" THEN "stop" ELSE "start"] /\ log_level' = l
    BY <1>1 DEF InitBegin
  <2>3. TaskOwns' BY <2>1, Zenon DEF TaskOwns
  <2> QED BY <1>0, <2>1, <2>2, <2>3 DEF LevelHolds, Stopped
<1>2. ASSUME UNCHANGED <<taskHandle, queue, sock, logPc>> PROVE TaskOwns'
  BY <1>2, Zenon DEF TaskOwns
<1>3. CASE InitStop(c)
  <2>1. UNCHANGED <<taskHandle, queue, sock, logPc, log_level>> BY <1>3 DEF InitStop
  <2>2. CASE taskHandle = TRUE
    <3>1. UNCHANGED res /\ pc' = [pc EXCEPT ![c] = "poll"] BY <1>3, <2>2 DEF InitStop
    <3> QED BY <1>0, <1>2, <1>3, <2>1, <3>1 DEF LevelHolds, Stopped, InitStop
  <2>3. CASE ~taskHandle
    <3>1. pc' = [pc EXCEPT ![c] = "idle"] /\ res' = [res EXCEPT ![c] = "ok"]
      BY <1>3, <2>3 DEF InitStop
    <3>2. logPc = "none" BY <2>3 DEF TaskOwns
    <3> QED BY <1>0, <1>2, <2>1, <3>1, <3>2 DEF LevelHolds, Stopped
  <2> QED BY <2>2, <2>3
<1>4. CASE InitPoll(c)
  <2>1. UNCHANGED <<taskHandle, queue, sock, logPc, log_level>> BY <1>4 DEF InitPoll
  <2>2. PICK r \in {"ok", "fail"} :
          /\ pc' = [pc EXCEPT ![c] = "idle"] /\ res' = [res EXCEPT ![c] = r]
          /\ r = "ok" => ~taskHandle
    BY <1>4 DEF InitPoll
  <2>3. r = "ok" => logPc = "none" BY <2>2 DEF TaskOwns
  <2> QED BY <1>0, <1>2, <2>1, <2>2, <2>3 DEF LevelHolds, Stopped
<1>5. CASE InitStart(c) \/ InitCreated(c) \/ InitEnable(c)
  <2>1. UNCHANGED <<taskHandle, queue, sock, logPc, log_level>>
    BY <1>5 DEF InitStart, InitCreated, InitEnable
  <2>2. log_level # "off"
    BY <1>5 DEF LevelHolds, InitStart, InitCreated, InitEnable
  <2>3. PICK site \in {"idle", "task", "enable"} : pc' = [pc EXCEPT ![c] = site]
    BY <1>5 DEF InitStart, InitCreated, InitEnable
  <2>4. res' \in [Callers -> {"none", "ok", "fail"}]
    BY <1>5 DEF InitStart, InitCreated, InitEnable
  <2> QED BY <1>0, <1>2, <2>1, <2>2, <2>3, <2>4 DEF LevelHolds, Stopped
<1>6. CASE InitTask(c)
  <2>1. UNCHANGED <<queue, sock, log_level, res>> BY <1>6 DEF InitTask
  <2>2. log_level # "off" BY <1>6 DEF LevelHolds, InitTask
  <2>3. PICK site \in {"created", "enable"} : pc' = [pc EXCEPT ![c] = site]
    BY <1>6 DEF InitTask
  <2>4. CASE taskHandle' = TRUE /\ logPc' = "create" /\ ~taskHandle
    <3>1. logPc = "none" /\ queue = "null" /\ ~sock BY <2>4 DEF TaskOwns
    <3>2. TaskOwns' BY <2>1, <2>4, <3>1 DEF TaskOwns
    <3> QED BY <1>0, <2>1, <2>2, <2>3, <2>4, <3>2 DEF LevelHolds, Stopped, LogSites
  <2>5. CASE UNCHANGED <<taskHandle, logPc>>
    BY <1>0, <1>2, <2>1, <2>2, <2>3, <2>5 DEF LevelHolds, Stopped
  <2> QED BY <1>6, <2>4, <2>5 DEF InitTask
<1> QED BY <1>1, <1>3, <1>4, <1>5, <1>6 DEF InitStep

LEMMA LogInvNext ==
  ASSUME LogInv, OneAtATime, OneAtATime', [LogNext]_netLogVars PROVE LogInv'
<1>1. ASSUME UNCHANGED <<log_level, taskHandle, queue, sock, logPc, pc, res>>
      PROVE  LogInv'
  BY <1>1, Zenon DEF LogInv, LogTypes, TaskOwns, LevelHolds, Stopped
<1>2. CASE LogNetChanges BY <1>1, <1>2 DEF LogNetChanges, logVars
<1>3. ASSUME NEW l \in Loggers, LogCheck(l) \/ LogSend(l) PROVE LogInv'
  BY <1>1, <1>3 DEF LogCheck, LogSend, caller
<1>4. CASE UNCHANGED netLogVars BY <1>1, <1>4 DEF netLogVars, logVars
<1> QED BY <1>2, <1>3, <1>4, TaskKeepsInv, CallerKeepsInv DEF LogNext

(* tcp_log.c 68-93, 205-217: a stop that reported success leaves no task,  *)
(* no queue and no socket, although the caller only watched the handle;    *)
(* for any callers of tcp_log_init that take turns.                        *)
THEOREM LogStoppedIsGone == LogSpec /\ []OneAtATime => []StoppedIsGone
<1>1. LogInv => StoppedIsGone
  BY DEF LogInv, TaskOwns, Stopped, StoppedIsGone
<1>2. LogInv /\ OneAtATime /\ OneAtATime' /\ [LogNext]_netLogVars => LogInv'
  BY LogInvNext
<1> QED BY <1>1, <1>2, LogInvInit, PTL DEF LogSpec
===============================================================================
