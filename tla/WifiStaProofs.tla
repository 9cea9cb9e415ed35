---------------------------- MODULE WifiStaProofs ----------------------------
(***************************************************************************)
(* Proofs about WifiSta, for any number of tasks, networks and waiting     *)
(* events.                                                                 *)
(***************************************************************************)
EXTENDS WifiSta, TLAPS

USE WifiConstants DEF WifiConstants

-------------------------------------------------------------------------------
(* The queue.                                                              *)

\* Posting an event leaves the others where they are.
LEMMA PostFacts ==
  ASSUME TypeOK, NEW e \in Events, Post(e)
  PROVE  /\ evq' \in Seq(Events) /\ Len(evq') <= MaxEvents
         /\ Len(evq') = Len(evq) + 1
         /\ evq'[Len(evq) + 1] = e
         /\ \A i \in 1..Len(evq) : evq'[i] = evq[i]
  BY DEF TypeOK, Post, CanPost

\* Taking the oldest event moves the others up by one.
LEMMA TakeFacts ==
  ASSUME TypeOK, NEW e \in Events, Take(e)
  PROVE  /\ evq' \in Seq(Events) /\ Len(evq') <= MaxEvents
         /\ Len(evq) = Len(evq') + 1
         /\ evq[1] = e
         /\ \A i \in 1..Len(evq') : evq'[i] = evq[i + 1]
  BY DEF TypeOK, Take

-------------------------------------------------------------------------------
(* Type correctness.                                                       *)

LEMMA InitType == Init => TypeOK
<1> SUFFICES ASSUME Init PROVE TypeOK
  OBVIOUS
<1>1. evq \in Seq(Events) /\ Len(evq) <= MaxEvents
  BY DEF Init
<1>2. RetryInit \in 0..RetryMax
  OBVIOUS
<1>3. QED
  BY <1>1, <1>2 DEF Init, TypeOK, Bits, Sites, Results

LEMMA EnvironmentType == TypeOK /\ Environment => TypeOK'
<1> SUFFICES ASSUME TypeOK, Environment PROVE TypeOK'
  OBVIOUS
<1> USE DEF timer, retry, driver, ipstack, task, Events, LinkEvents
<1>1. CASE LinkUp
  BY <1>1, PostFacts DEF LinkUp, TypeOK
<1>2. CASE LinkDown
  BY <1>2, PostFacts DEF LinkDown, TypeOK
<1>3. CASE GotAddress
  BY <1>3, PostFacts DEF GotAddress, TypeOK
<1>4. CASE LeaseLost
  BY <1>4 DEF LeaseLost, TypeOK
<1>5. CASE AddressGivenUp
  BY <1>5, PostFacts DEF AddressGivenUp, TypeOK
<1>6. QED
  BY <1>1, <1>2, <1>3, <1>4, <1>5 DEF Environment

LEMMA HandlerType == TypeOK /\ EventHandler => TypeOK'
<1> SUFFICES ASSUME TypeOK, EventHandler PROVE TypeOK'
  OBVIOUS
<1> USE DEF timer, retry, driver, ipstack, task, Events, LinkEvents, Bits
<1>1. CASE StaConnected
  BY <1>1, TakeFacts DEF StaConnected, TypeOK
<1>2. CASE StaDisconnected
  BY <1>2, TakeFacts DEF StaDisconnected, TypeOK
<1>3. CASE ScheduleRetry
  BY <1>3 DEF ScheduleRetry, NextDelay, TypeOK
<1>4. CASE StaGotIp
  BY <1>4, TakeFacts DEF StaGotIp, TypeOK
<1>5. CASE StaLostIp
  BY <1>5, TakeFacts DEF StaLostIp, TypeOK
<1>6. QED
  BY <1>1, <1>2, <1>3, <1>4, <1>5 DEF EventHandler

LEMMA TimerType == TypeOK /\ (TimerExpires \/ RetryCb) => TypeOK'
  BY DEF TypeOK, TimerExpires, RetryCb, ConnectStarts, ConnectRefused,
         timer, retry, driver, ipstack, task

LEMMA TaskStepType ==
  ASSUME TypeOK, NEW t \in Tasks, TaskStep(t) PROVE TypeOK'
<1> USE DEF timer, retry, driver, ipstack, task, Events, LinkEvents, Bits,
            Sites, Results, Goto, Return
<1>1. CASE JoinCheck(t)
  BY <1>1 DEF JoinCheck, TypeOK
<1>2. CASE DiscCheck(t)
  BY <1>2 DEF DiscCheck, DisconnectReturns, TypeOK
<1>3. CASE DiscLeave(t) \/ DiscRequest(t)
  BY <1>3 DEF DiscLeave, DiscRequest, TypeOK
<1>3d. CASE DiscDrop(t)
  <2>1. evq' \in Seq(Events) /\ Len(evq') <= MaxEvents
    BY <1>3d, PostFacts DEF DiscDrop, Disconnect, TypeOK
  <2>2. QED
    BY <1>3d, <2>1 DEF DiscDrop, Disconnect, TypeOK
<1>4. CASE DiscWait(t)
  BY <1>4 DEF DiscWait, DisconnectReturns, TypeOK
<1>5. CASE JoinGate(t)
  BY <1>5 DEF JoinGate, TypeOK
<1>6. CASE JoinConfig(t)
  <2>1. config' \in Networks \cup {NoNet} /\ bits' \in SUBSET Bits
    BY <1>6 DEF JoinConfig, ConfigStored, TypeOK
  <2>2. pc' \in [Tasks -> Sites] /\ res' \in [Tasks -> Results]
    BY <1>6 DEF JoinConfig, TypeOK
  <2>3. QED
    BY <1>6, <2>1, <2>2 DEF JoinConfig, TypeOK
<1>7. CASE JoinConnect(t)
  BY <1>7 DEF JoinConnect, ConnectStarts, ConnectRefused, TypeOK
<1>8. CASE JoinWaitIp(t)
  BY <1>8 DEF JoinWaitIp, TypeOK
<1>9. QED
  BY <1>1, <1>2, <1>3, <1>3d, <1>4, <1>5, <1>6, <1>7, <1>8 DEF TaskStep

LEMMA CommandType ==
  ASSUME TypeOK, NEW t \in Tasks, Command(t) PROVE TypeOK'
<1> USE DEF timer, retry, driver, ipstack, task, Bits, Sites, Results, Goto,
            Initialise
<1>1. ASSUME NEW n \in Networks, JoinBegin(t, n) PROVE TypeOK'
  BY <1>1 DEF JoinBegin, TypeOK
<1>2. CASE DisconnectBegin(t)
  BY <1>2 DEF DisconnectBegin, TypeOK
<1>3. CASE ScanInitialise(t)
  BY <1>3 DEF ScanInitialise, TypeOK
<1>4. CASE ScanAborts(t)
  <2>1. Init'
    BY <1>4 DEF ScanAborts, Init
  <2>2. QED
    BY <2>1, InitType, PTL
<1>5. QED
  BY <1>1, <1>2, <1>3, <1>4 DEF Command

\* Type correctness of cmd_wifi.c's state, for every value of the constants.
THEOREM TypeCorrect == Spec => []TypeOK
<1>1. TypeOK /\ [Next]_vars => TypeOK'
  <2> SUFFICES ASSUME TypeOK, [Next]_vars PROVE TypeOK'
    OBVIOUS
  <2>1. CASE UNCHANGED vars
    BY <2>1 DEF vars, TypeOK
  <2>2. CASE Next
    BY <2>2, EnvironmentType, HandlerType, TimerType, TaskStepType, CommandType
       DEF Next
  <2>3. QED
    BY <2>1, <2>2
<1>2. QED
  BY InitType, <1>1, PTL DEF Spec

-------------------------------------------------------------------------------
(* The bits and the driver's link.  BitsMatchLink speaks of an empty queue. *)
(* What is inductive is a statement about every prefix of the queue: read   *)
(* the Wi-Fi bit as the link event at position 0; a link event that no      *)
(* contrary event follows tells the state of the link.                      *)

View(i) == IF i = 0 THEN IF "wifi" \in bits THEN "sta_connected"
                                            ELSE "sta_disconnected"
                    ELSE evq[i]

NoneAfter(i, e) == \A j \in (i+1)..Len(evq) : evq[j] # e

LinkInv == \A i \in 0..Len(evq) :
  /\ View(i) = "sta_disconnected" /\ NoneAfter(i, "sta_connected") => link # "up"
  /\ View(i) = "sta_connected" /\ NoneAfter(i, "sta_disconnected") => link = "up"

\* Between an address event and any loss of the link before it, the link came
\* back: when the event is handled, the Wi-Fi bit is set.
IpInv ==
  /\ IpImpliesWifi
  /\ \A i \in 1..Len(evq), j \in 0..Len(evq) :
       evq[i] = "got_ip" /\ j < i /\ View(j) = "sta_disconnected"
       => \E k \in (j+1)..(i-1) : evq[k] = "sta_connected"

\* The invariant of the bits.
BitsInv == LinkInv /\ IpInv

\* Steps that leave the queue, the link and the two bits alone.
LEMMA BitsKept ==
  ASSUME BitsInv, UNCHANGED evq, (link' = "up") = (link = "up"),
         ("wifi" \in bits') = ("wifi" \in bits),
         ("ip" \in bits') = ("ip" \in bits)
  PROVE  BitsInv'
  BY DEF BitsInv, LinkInv, IpInv, IpImpliesWifi, View, NoneAfter

\* Steps that post an event: a link event tells the new state of the link, and
\* an address event is posted while the link is up.
LEMMA BitsPosted ==
  ASSUME TypeOK, BitsInv, NEW e \in Events, Post(e),
         ("wifi" \in bits') = ("wifi" \in bits),
         ("ip" \in bits') = ("ip" \in bits),
         e = "sta_connected" => link' = "up",
         e = "sta_disconnected" => link' # "up",
         e \notin LinkEvents => UNCHANGED link,
         e = "got_ip" => link = "up"
  PROVE  BitsInv'
<1> DEFINE n == Len(evq)
<1>1. /\ n \in Nat /\ Len(evq') = n + 1 /\ evq'[n + 1] = e
      /\ \A i \in 1..n : evq'[i] = evq[i]
  BY PostFacts DEF TypeOK
<1>2. \A i \in 0..n : View(i)' = View(i)
  BY <1>1 DEF View
<1>3. ASSUME NEW i \in 0..n, NEW f, NoneAfter(i, f)'
      PROVE  NoneAfter(i, f) /\ e # f
  <2>1. \A j \in (i+1)..(n+1) : evq'[j] # f
    BY <1>1, <1>3 DEF NoneAfter
  <2>2. n + 1 \in (i+1)..(n+1) /\ \A j \in (i+1)..n : j \in (i+1)..(n+1) /\ j \in 1..n
    BY <1>1
  <2>3. QED
    BY <1>1, <2>1, <2>2 DEF NoneAfter
<1>4. LinkInv'
  <2> SUFFICES ASSUME NEW i \in 0..(n+1)
      PROVE /\ View(i)' = "sta_disconnected" /\ NoneAfter(i, "sta_connected")'
               => link' # "up"
            /\ View(i)' = "sta_connected" /\ NoneAfter(i, "sta_disconnected")'
               => link' = "up"
    BY <1>1 DEF LinkInv
  <2>1. CASE i \in 0..n
    BY <1>2, <1>3, <2>1 DEF BitsInv, LinkInv, Events, LinkEvents
  <2>2. CASE i = n + 1
    <3>1. View(i)' = e
      BY <1>1, <2>2 DEF View
    <3>2. QED
      BY <3>1
  <2>3. QED
    BY <2>1, <2>2, <1>1
<1>5. IpInv'
  <2> SUFFICES ASSUME NEW i \in 1..(n+1), NEW j \in 0..(n+1),
                      evq'[i] = "got_ip", j < i,
                      View(j)' = "sta_disconnected"
      PROVE  \E k \in (j+1)..(i-1) : evq'[k] = "sta_connected"
    BY <1>1 DEF BitsInv, IpInv, IpImpliesWifi
  <2>1. j \in 0..n /\ View(j) = "sta_disconnected"
    BY <1>1, <1>2
  <2>2. CASE i \in 1..n
    <3>1. PICK k \in (j+1)..(i-1) : evq[k] = "sta_connected"
      BY <1>1, <2>1, <2>2 DEF BitsInv, IpInv
    <3>2. k \in 1..n
      BY <1>1, <2>2
    <3>3. QED
      BY <1>1, <3>1, <3>2
  <2>3. CASE i = n + 1
    <3>1. link = "up"
      BY <1>1, <2>3
    <3>2. PICK k \in (j+1)..n : evq[k] = "sta_connected"
      BY <2>1, <3>1 DEF BitsInv, LinkInv, NoneAfter
    <3>3. k \in (j+1)..(i-1) /\ k \in 1..n
      BY <1>1, <2>1, <2>3
    <3>4. QED
      BY <1>1, <3>2, <3>3
  <2>4. QED
    BY <2>2, <2>3, <1>1
<1>6. QED
  BY <1>4, <1>5 DEF BitsInv

\* Steps that take an event: a link event becomes the Wi-Fi bit, the address
\* bit is set by its event only, and is cleared with the Wi-Fi bit.
LEMMA BitsTaken ==
  ASSUME TypeOK, BitsInv, NEW e \in Events, Take(e), UNCHANGED link,
         ("wifi" \in bits') = IF e \in LinkEvents THEN e = "sta_connected"
                                                 ELSE "wifi" \in bits,
         "ip" \in bits' => "ip" \in bits \/ e = "got_ip",
         e = "sta_disconnected" => "ip" \notin bits'
  PROVE  BitsInv'
<1> DEFINE n == Len(evq')
<1>1. /\ n \in Nat /\ Len(evq) = n + 1 /\ evq[1] = e
      /\ \A i \in 1..n : evq'[i] = evq[i + 1]
  BY TakeFacts DEF TypeOK
\* The view moves up by one; at position 0 when a link event was taken.
<1>2. /\ \A i \in 1..n : View(i)' = View(i + 1)
      /\ View(0)' = IF e \in LinkEvents THEN View(1) ELSE View(0)
  BY <1>1 DEF View, LinkEvents
<1>3. ASSUME NEW i \in 0..n, NEW f, NoneAfter(i, f)' PROVE NoneAfter(i + 1, f)
  <2> SUFFICES ASSUME NEW j \in (i+2)..(n+1) PROVE evq[j] # f
    BY <1>1 DEF NoneAfter
  <2>1. j - 1 \in (i+1)..n /\ j - 1 \in 1..n /\ (j - 1) + 1 = j
    OBVIOUS
  <2>2. QED
    BY <1>1, <1>3, <2>1 DEF NoneAfter
<1>4. ASSUME NEW f, e # f, NoneAfter(1, f) PROVE NoneAfter(0, f)
  BY <1>1, <1>4 DEF NoneAfter
<1>5. LinkInv'
  <2> SUFFICES ASSUME NEW i \in 0..n
      PROVE /\ View(i)' = "sta_disconnected" /\ NoneAfter(i, "sta_connected")'
               => link # "up"
            /\ View(i)' = "sta_connected" /\ NoneAfter(i, "sta_disconnected")'
               => link = "up"
    BY <1>1 DEF LinkInv
  <2>1. CASE i \in 1..n \/ e \in LinkEvents
    <3>1. View(i)' = View(i + 1) /\ i + 1 \in 0..Len(evq)
      BY <1>1, <1>2, <2>1
    <3>2. QED
      BY <3>1, <1>3 DEF BitsInv, LinkInv
  <2>2. CASE i = 0 /\ e \notin LinkEvents
    <3>1. View(i)' = View(0) /\ 0 \in 0..Len(evq)
      BY <1>1, <1>2, <2>2
    <3>2. ASSUME NEW f \in LinkEvents, NoneAfter(i, f)' PROVE NoneAfter(0, f)
      BY <1>3, <1>4, <2>2, <3>2
    <3>3. QED
      BY <3>1, <3>2 DEF BitsInv, LinkInv, LinkEvents
  <2>3. QED
    BY <2>1, <2>2
<1>6. IpInv'
  <2>1. ASSUME NEW i \in 1..n, NEW j \in 0..n, evq'[i] = "got_ip", j < i,
               View(j)' = "sta_disconnected"
        PROVE  \E k \in (j+1)..(i-1) : evq'[k] = "sta_connected"
    \* The same loss, in the old queue.
    <3>1. PICK j0 \in {j + 1, j} :
               /\ View(j0) = "sta_disconnected"
               /\ j0 = j => j = 0 /\ e \notin LinkEvents
      BY <1>2, <2>1
    <3>2. i + 1 \in 1..Len(evq) /\ evq[i + 1] = "got_ip"
          /\ j0 \in 0..Len(evq) /\ j0 < i + 1
      BY <1>1, <2>1
    <3>3. PICK k \in (j0+1)..i : evq[k] = "sta_connected"
      BY <3>1, <3>2 DEF BitsInv, IpInv
    <3>4. k # 1
      BY <1>1, <3>1, <3>3 DEF LinkEvents
    <3>5. k - 1 \in (j+1)..(i-1) /\ k - 1 \in 1..n /\ (k - 1) + 1 = k
      BY <3>1, <3>3, <3>4
    <3>6. QED
      BY <1>1, <3>3, <3>5
  <2>2. IpImpliesWifi'
    <3>1. CASE e = "got_ip"
      <4>1. View(0) # "sta_disconnected"
        <5>1. 1 \in 1..Len(evq) /\ 0 \in 0..Len(evq) /\ (0+1)..(1-1) = {}
          BY <1>1
        <5>2. QED
          BY <1>1, <3>1, <5>1 DEF BitsInv, IpInv
      <4>2. QED
        BY <3>1, <4>1 DEF View, IpImpliesWifi, LinkEvents
    <3>2. CASE e # "got_ip"
      BY <3>2 DEF BitsInv, IpInv, IpImpliesWifi, LinkEvents
    <3>3. QED
      BY <3>1, <3>2
  <2>3. QED
    BY <2>1, <2>2 DEF IpInv
<1>7. QED
  BY <1>5, <1>6 DEF BitsInv

LEMMA InitBits == Init => BitsInv
<1> SUFFICES ASSUME Init PROVE BitsInv
  OBVIOUS
<1>1. Len(evq) = 0
  BY DEF Init
<1>2. QED
  BY <1>1 DEF Init, BitsInv, LinkInv, IpInv, IpImpliesWifi, View

\* Every step keeps it, provided GOT_IP never falls behind its link's end.
LEMMA NextBits ==
  ASSUME ~LateGotIp, TypeOK, BitsInv, [Next]_vars PROVE BitsInv'
<1> USE DEF timer, retry, driver, ipstack, task, Events, LinkEvents
<1>1. CASE UNCHANGED vars
  BY <1>1, BitsKept DEF vars
<1>2. CASE Environment
  <2>1. CASE LinkUp
    BY <2>1, BitsPosted DEF LinkUp
  <2>2. CASE LinkDown
    BY <2>2, BitsPosted DEF LinkDown
  <2>3. CASE GotAddress
    BY <2>3, BitsPosted DEF GotAddress
  <2>4. CASE LeaseLost
    BY <2>4, BitsKept DEF LeaseLost
  <2>5. CASE AddressGivenUp
    BY <2>5, BitsPosted DEF AddressGivenUp
  <2>6. QED
    BY <1>2, <2>1, <2>2, <2>3, <2>4, <2>5 DEF Environment
<1>3. CASE EventHandler
  <2>1. CASE StaConnected
    BY <2>1, BitsTaken DEF StaConnected
  <2>2. CASE StaDisconnected
    BY <2>2, BitsTaken DEF StaDisconnected
  <2>3. CASE ScheduleRetry
    BY <2>3, BitsKept DEF ScheduleRetry
  <2>4. CASE StaGotIp
    BY <2>4, BitsTaken DEF StaGotIp
  <2>5. CASE StaLostIp
    <3>1. "wifi" \in bits' <=> "wifi" \in bits
      BY <2>5 DEF StaLostIp
    <3>2. QED
      BY <2>5, <3>1, BitsTaken DEF StaLostIp
  <2>6. QED
    BY <1>3, <2>1, <2>2, <2>3, <2>4, <2>5 DEF EventHandler
<1>4. CASE TimerExpires \/ RetryCb
  BY <1>4, BitsKept DEF TimerExpires, RetryCb, ConnectStarts, ConnectRefused
<1>5. ASSUME NEW t \in Tasks, TaskStep(t) PROVE BitsInv'
  <2>1. CASE JoinCheck(t) \/ DiscCheck(t) \/ DiscLeave(t) \/ DiscRequest(t)
             \/ DiscWait(t) \/ JoinGate(t) \/ JoinWaitIp(t)
    BY <2>1, BitsKept DEF JoinCheck, DiscCheck, DiscLeave, DiscRequest, DiscWait,
       JoinGate, JoinWaitIp
  <2>2. CASE JoinConfig(t)
    BY <2>2, BitsKept DEF JoinConfig
  <2>3. CASE JoinConnect(t)
    BY <2>3, BitsKept DEF JoinConnect, ConnectStarts, ConnectRefused
  <2>4. CASE DiscDrop(t)
    <3>1. CASE link = "down"
      BY <2>4, <3>1, BitsKept DEF DiscDrop, Disconnect
    <3>2. CASE link # "down"
      <4>1. /\ Post("sta_disconnected") /\ link' = "down"
            /\ UNCHANGED bits
        BY <2>4, <3>2 DEF DiscDrop, Disconnect
      <4>2. QED
        BY <4>1, BitsPosted
    <3>3. QED
      BY <3>1, <3>2
  <2>5. QED
    BY <1>5, <2>1, <2>2, <2>3, <2>4 DEF TaskStep
<1>6. ASSUME NEW t \in Tasks, Command(t) PROVE BitsInv'
  <2>1. ASSUME NEW m \in Networks, JoinBegin(t, m) PROVE BitsInv'
    BY <2>1, BitsKept DEF JoinBegin, Initialise
  <2>2. CASE DisconnectBegin(t)
    BY <2>2, BitsKept DEF DisconnectBegin
  <2>3. CASE ScanInitialise(t)
    BY <2>3, BitsKept DEF ScanInitialise, Initialise
  <2>4. CASE ScanAborts(t)
    <3>1. Init'
      BY <2>4 DEF ScanAborts, Init
    <3>2. QED
      BY <3>1, InitBits, PTL
  <2>5. QED
    BY <1>6, <2>1, <2>2, <2>3, <2>4 DEF Command
<1>7. QED
  BY <1>1, <1>2, <1>3, <1>4, <1>5, <1>6 DEF Next

LEMMA BitsInvariant == ~LateGotIp => (Spec => []BitsInv)
<1> SUFFICES ASSUME ~LateGotIp PROVE Spec => []BitsInv
  OBVIOUS
<1>1. TypeOK /\ BitsInv /\ [Next]_vars => BitsInv'
  BY NextBits
<1>2. QED
  BY InitBits, TypeCorrect, <1>1, PTL DEF Spec

\* The address bit is never set without the Wi-Fi bit (cmd_wifi.c 201-285).
THEOREM AddressNeedsLink == ~LateGotIp => (Spec => []IpImpliesWifi)
<1>1. BitsInv => IpImpliesWifi
  BY DEF BitsInv, IpInv
<1>2. QED
  BY BitsInvariant, <1>1, PTL

\* Once all events are handled the Wi-Fi bit is the driver's link
\* (cmd_wifi.c 201-285).
THEOREM BitsFollowLink == ~LateGotIp => (Spec => []BitsMatchLink)
<1>1. TypeOK /\ BitsInv => BitsMatchLink
  <2> SUFFICES ASSUME TypeOK, BitsInv, evq = <<>> PROVE ("wifi" \in bits) = (link = "up")
    BY DEF BitsMatchLink, Settled
  <2>1. Len(evq) = 0
    OBVIOUS
  <2>2. 0 \in 0..Len(evq) /\ \A e : NoneAfter(0, e)
    BY <2>1 DEF NoneAfter
  <2>3. QED
    BY <2>2 DEF BitsInv, LinkInv, View
<1>2. QED
  BY BitsInvariant, TypeCorrect, <1>1, PTL

-------------------------------------------------------------------------------
(* The bits implement NetState.                                            *)

LEMMA NetStep ==
  ASSUME TypeOK, BitsInv, BitsInv', [Next]_vars PROVE [Net!NetNext]_NetView
<1> USE DEF BitsInv, IpInv, IpImpliesWifi, NetView,
            Net!NetNext, Net!Associate, Net!Address, Net!LoseAddress,
            Net!GoOffline
<1>1. CASE ("wifi" \in bits') = ("wifi" \in bits)
  BY <1>1
<1>2. CASE "wifi" \in bits /\ "wifi" \notin bits'
  BY <1>2
<1>3. CASE "wifi" \notin bits /\ "wifi" \in bits'
  <2>1. StaConnected
    BY <1>3 DEF Next, vars, Environment, LinkUp, LinkDown, GotAddress, LeaseLost,
       AddressGivenUp, EventHandler, StaDisconnected, ScheduleRetry, StaGotIp,
       StaLostIp, TimerExpires, RetryCb, TaskStep, JoinCheck, DiscCheck,
       DiscLeave, DiscRequest, DiscDrop, DiscWait, JoinGate, JoinConfig,
       JoinConnect, JoinWaitIp, Command, JoinBegin, DisconnectBegin,
       ScanInitialise, ScanAborts, Initialise
  <2>2. "ip" \in bits' => "ip" \in bits
    BY <2>1 DEF StaConnected
  <2>3. QED
    BY <1>3, <2>2
<1>4. QED
  BY <1>1, <1>2, <1>3

\* cmd_wifi.c 201-285 implements NetState, for every value of the constants.
THEOREM BitsImplementNetState == ~LateGotIp => (Spec => ImplementsNetState)
<1>1. Init => Net!NetInit
  BY DEF Init, Net!NetInit, NetView
<1>2. TypeOK /\ BitsInv /\ BitsInv' /\ [Next]_vars => [Net!NetNext]_NetView
  BY NetStep
<1>3. QED
  BY BitsInvariant, TypeCorrect, <1>1, <1>2, PTL
     DEF Spec, ImplementsNetState, Net!NetSpec

-------------------------------------------------------------------------------
(* Nobody is forgotten.  A task is at work from the moment it stops the     *)
(* retry timer, or asks for a disconnect, until esp_wifi_connect has been   *)
(* accepted; when a call fails on the way it stays responsible.             *)

AtWork(t) == ~Content(t) /\ pc[t] # "ipwait"

RetryInv ==
  /\ disconnect_request => \E t \in Tasks : AtWork(t)
  /\ \/ link # "down" \/ config = NoNet
     \/ timerArmed \/ cbPending \/ handler = "retry"
     \/ \E i \in 1..Len(evq) : evq[i] = "sta_disconnected"
     \/ \E t \in Tasks : AtWork(t)

\* The events that other steps leave in the queue.
EndQueued == \E i \in 1..Len(evq) : evq[i] = "sta_disconnected"

LEMMA EndPosted ==
  ASSUME TypeOK, NEW e \in Events, Post(e)
  PROVE  EndQueued \/ e = "sta_disconnected" => EndQueued'
<1>1. /\ Len(evq) \in Nat /\ Len(evq') = Len(evq) + 1
      /\ evq'[Len(evq) + 1] = e
      /\ \A i \in 1..Len(evq) : evq'[i] = evq[i]
  BY PostFacts DEF TypeOK
<1>2. \A i \in 1..(Len(evq) + 1) : i \in 1..Len(evq')
  BY <1>1
<1>3. CASE EndQueued
  BY <1>1, <1>2, <1>3 DEF EndQueued
<1>4. CASE e = "sta_disconnected"
  <2>1. Len(evq) + 1 \in 1..Len(evq')
    BY <1>1
  <2>2. QED
    BY <1>1, <1>4, <2>1 DEF EndQueued
<1>5. QED
  BY <1>3, <1>4

LEMMA EndTaken ==
  ASSUME TypeOK, NEW e \in Events, Take(e), e # "sta_disconnected"
  PROVE  EndQueued => EndQueued'
<1> SUFFICES ASSUME EndQueued PROVE EndQueued'
  OBVIOUS
<1>1. /\ Len(evq') \in Nat /\ Len(evq) = Len(evq') + 1 /\ evq[1] = e
      /\ \A i \in 1..Len(evq') : evq'[i] = evq[i + 1]
  BY TakeFacts DEF TypeOK
<1>2. PICK i \in 1..Len(evq) : evq[i] = "sta_disconnected"
  BY DEF EndQueued
<1>3. i - 1 \in 1..Len(evq') /\ (i - 1) + 1 = i
  BY <1>1, <1>2
<1>4. QED
  BY <1>1, <1>2, <1>3 DEF EndQueued

\* A call never leaves off being at work except by an accepted connect, which
\* also withdraws the disconnect request.
LEMMA WorkKept ==
  ASSUME TypeOK, NEW t \in Tasks, TaskStep(t), NEW u \in Tasks, AtWork(u)
  PROVE  \/ AtWork(u)'
         \/ pc[t] = "conn" /\ link' = "connecting" /\ ~disconnect_request'
<1> USE DEF TypeOK, Goto, Return, AtWork, Content, Sites, Results
<1>1. CASE u # t
  BY <1>1 DEF TaskStep, JoinCheck, DiscCheck, DiscLeave, DiscRequest,
     DiscDrop, DiscWait, JoinGate, JoinConfig, JoinConnect, JoinWaitIp,
     DisconnectReturns
<1>2. CASE u = t
  <2>1. CASE JoinCheck(t) \/ DiscLeave(t) \/ DiscRequest(t) \/ DiscDrop(t)
             \/ JoinGate(t)
    BY <1>2, <2>1 DEF JoinCheck, DiscLeave, DiscRequest, DiscDrop, JoinGate
  <2>2. CASE DiscCheck(t) \/ DiscWait(t)
    BY <1>2, <2>2 DEF DiscCheck, DiscWait, DisconnectReturns
  <2>3. CASE JoinConfig(t)
    BY <1>2, <2>3 DEF JoinConfig
  <2>4. CASE JoinConnect(t)
    BY <1>2, <2>4 DEF JoinConnect, ConnectStarts
  <2>5. CASE JoinWaitIp(t)
    BY <1>2, <2>5 DEF JoinWaitIp
  <2>6. QED
    BY <2>1, <2>2, <2>3, <2>4, <2>5 DEF TaskStep
<1>3. QED
  BY <1>1, <1>2

LEMMA NextRetry ==
  ASSUME ~DriverErrors, TypeOK, RetryInv, [Next]_vars PROVE RetryInv'
<1> USE DEF timer, retry, driver, ipstack, task, Events, LinkEvents
<1>0. RetryInv = /\ disconnect_request => \E t \in Tasks : AtWork(t)
                 /\ \/ link # "down" \/ config = NoNet \/ timerArmed
                    \/ cbPending \/ handler = "retry" \/ EndQueued
                    \/ \E t \in Tasks : AtWork(t)
  BY DEF RetryInv, EndQueued
<1>a. UNCHANGED <<pc, res>> => \A t \in Tasks : AtWork(t)' = AtWork(t)
  BY DEF AtWork, Content
<1>b. UNCHANGED evq => EndQueued' = EndQueued
  BY DEF EndQueued
<1>1. CASE UNCHANGED vars
  BY <1>0, <1>1, <1>a, <1>b DEF vars, RetryInv, EndQueued
<1>2. CASE Environment
  <2>1. CASE LinkUp
    BY <1>a, <2>1 DEF LinkUp, RetryInv
  <2>2. CASE LinkDown
    BY <1>a, <2>2, EndPosted DEF LinkDown, RetryInv, EndQueued
  <2>3. CASE GotAddress
    BY <1>a, <2>3, EndPosted DEF GotAddress, RetryInv, EndQueued
  <2>4. CASE LeaseLost
    BY <1>a, <2>4 DEF LeaseLost, RetryInv
  <2>5. CASE AddressGivenUp
    BY <1>a, <2>5, EndPosted DEF AddressGivenUp, RetryInv, EndQueued
  <2>6. QED
    BY <1>2, <2>1, <2>2, <2>3, <2>4, <2>5 DEF Environment
<1>3. CASE EventHandler
  <2>1. CASE StaConnected
    BY <1>a, <2>1, EndTaken DEF StaConnected, RetryInv, EndQueued
  <2>2. CASE StaDisconnected
    BY <1>a, <2>2 DEF StaDisconnected, RetryInv
  <2>3. CASE ScheduleRetry
    BY <1>a, <2>3 DEF ScheduleRetry, RetryInv
  <2>4. CASE StaGotIp
    BY <1>a, <2>4, EndTaken DEF StaGotIp, RetryInv, EndQueued
  <2>5. CASE StaLostIp
    BY <1>a, <2>5, EndTaken DEF StaLostIp, RetryInv, EndQueued
  <2>6. QED
    BY <1>3, <2>1, <2>2, <2>3, <2>4, <2>5 DEF EventHandler
<1>4. CASE TimerExpires
  BY <1>a, <1>4 DEF TimerExpires, RetryInv
<1>5. CASE RetryCb
  BY <1>a, <1>5 DEF RetryCb, ConnectStarts, ConnectRefused, RetryInv
<1>6. ASSUME NEW t \in Tasks, TaskStep(t) PROVE RetryInv'
  <2>1. CASE DiscLeave(t) \/ DiscRequest(t) \/ DiscDrop(t)
    <3>1. AtWork(t)'
      BY <2>1 DEF DiscLeave, DiscRequest, DiscDrop, Goto, AtWork, Content, TypeOK
    <3>2. QED
      BY <3>1 DEF RetryInv
  <2>2. CASE JoinConnect(t)
    <3>1. AtWork(t)
      BY <2>2 DEF JoinConnect, AtWork, Content
    <3>2. AtWork(t)' \/ link' = "connecting"
      BY <1>6, <3>1, WorkKept
    <3>3. QED
      BY <2>2, <3>2 DEF JoinConnect, RetryInv
  <2>3. CASE JoinConfig(t)
    <3>1. AtWork(t) /\ pc[t] # "conn"
      BY <2>3 DEF JoinConfig, AtWork, Content
    <3>2. AtWork(t)'
      BY <1>6, <3>1, WorkKept
    <3>3. QED
      BY <3>2 DEF RetryInv
  <2>4. CASE JoinCheck(t) \/ DiscCheck(t) \/ DiscWait(t) \/ JoinGate(t)
             \/ JoinWaitIp(t)
    <3>1. /\ UNCHANGED <<disconnect_request, link, config, timerArmed, cbPending,
                        handler, evq>>
          /\ pc[t] # "conn"
      BY <2>4 DEF JoinCheck, DiscCheck, DiscWait, JoinGate, JoinWaitIp
    <3>2. \A u \in Tasks : AtWork(u) => AtWork(u)'
      BY <1>6, <3>1, WorkKept
    <3>3. QED
      BY <3>1, <3>2 DEF RetryInv
  <2>5. QED
    BY <1>6, <2>1, <2>2, <2>3, <2>4 DEF TaskStep
<1>7. ASSUME NEW t \in Tasks, Command(t) PROVE RetryInv'
  <2>1. CASE (\E n \in Networks : JoinBegin(t, n)) \/ DisconnectBegin(t)
    <3>1. AtWork(t)'
      BY <2>1 DEF JoinBegin, DisconnectBegin, Goto, AtWork, Content, TypeOK
    <3>2. QED
      BY <3>1 DEF RetryInv
  <2>2. CASE ScanInitialise(t)
    BY <1>a, <2>2 DEF ScanInitialise, RetryInv
  <2>3. CASE ScanAborts(t)
    BY <2>3 DEF ScanAborts, RetryInv
  <2>4. QED
    BY <1>7, <2>1, <2>2, <2>3 DEF Command
<1>8. QED
  BY <1>1, <1>2, <1>3, <1>4, <1>5, <1>6, <1>7 DEF Next

\* A joined station that is down has its retry timer running or its callback
\* due, if the driver refuses a call only for the station's state
\* (cmd_wifi.c 78-82, 216-234, 473-505).
THEOREM RetryAlwaysCovered == ~DriverErrors => (Spec => []RetryCovered)
<1> SUFFICES ASSUME ~DriverErrors PROVE Spec => []RetryCovered
  OBVIOUS
<1>1. Init => RetryInv
  BY DEF Init, RetryInv
<1>2. TypeOK /\ RetryInv /\ [Next]_vars => RetryInv'
  BY NextRetry
<1>3. TypeOK /\ RetryInv => RetryCovered
  <2> SUFFICES ASSUME TypeOK, RetryInv, \A t \in Tasks : Content(t), Settled,
                      link = "down", config # NoNet
               PROVE  timerArmed \/ cbPending
    BY DEF RetryCovered
  <2>1. \A t \in Tasks : ~AtWork(t)
    BY DEF AtWork
  <2>2. Len(evq) = 0 /\ handler # "retry"
    BY DEF Settled
  <2>3. QED
    BY <2>1, <2>2 DEF RetryInv
<1>4. QED
  BY TypeCorrect, <1>1, <1>2, <1>3, PTL DEF Spec
-------------------------------------------------------------------------------
(* A join and its network, for tasks that take turns to issue commands.    *)
(* From the accepted esp_wifi_set_config on, whoever has the driver        *)
(* connect (the join or a retry that was due) connects to the target.      *)

OneAtATime == \A t, u \in Tasks : pc[t] # "idle" /\ pc[u] # "idle" => t = u

JoinInv == \A t \in Tasks :
  /\ pc[t] \in {"conn", "ipwait"} => config = target[t]
  /\ pc[t] = "ipwait" => ap = target[t]

LEMMA NextJoin ==
  ASSUME OneAtATime, OneAtATime', TypeOK, JoinInv, [Next]_vars PROVE JoinInv'
<1> USE DEF timer, retry, driver, ipstack, task, JoinInv
<1>1. CASE UNCHANGED <<driver, task>>
  BY <1>1
<1>2. CASE Environment
  BY <1>2 DEF Environment, LinkUp, LinkDown, GotAddress, LeaseLost, AddressGivenUp
<1>3. CASE EventHandler
  BY <1>3 DEF EventHandler, StaConnected, StaDisconnected, ScheduleRetry, StaGotIp,
     StaLostIp
<1>4. CASE TimerExpires \/ RetryCb
  BY <1>4 DEF TimerExpires, RetryCb, ConnectStarts, ConnectRefused
<1>5. ASSUME NEW t \in Tasks, TaskStep(t) PROVE JoinInv'
  <2> USE DEF Goto, Return, TypeOK
  <2>0. pc[t] # "idle" /\ \A u \in Tasks : u # t => pc[u] = "idle"
    BY <1>5 DEF TaskStep, JoinCheck, DiscCheck, DiscLeave, DiscRequest,
       DiscDrop, DiscWait, JoinGate, JoinConfig, JoinConnect, JoinWaitIp, OneAtATime
  <2>1. CASE JoinCheck(t) \/ DiscCheck(t) \/ DiscWait(t) \/ JoinGate(t)
    BY <2>0, <2>1 DEF JoinCheck, DiscCheck, DiscWait, JoinGate, DisconnectReturns
  <2>2. CASE DiscLeave(t) \/ DiscRequest(t) \/ DiscDrop(t)
    BY <2>0, <2>2 DEF DiscLeave, DiscRequest, DiscDrop, Disconnect
  <2>3. CASE JoinConfig(t)
    BY <2>0, <2>3 DEF JoinConfig, ConfigStored
  <2>4. CASE JoinConnect(t)
    BY <2>0, <2>4 DEF JoinConnect, ConnectStarts, ConnectRefused
  <2>5. CASE JoinWaitIp(t)
    BY <2>0, <2>5 DEF JoinWaitIp
  <2>6. QED
    BY <1>5, <2>1, <2>2, <2>3, <2>4, <2>5 DEF TaskStep
<1>6. ASSUME NEW t \in Tasks, Command(t) PROVE JoinInv'
  <2> USE DEF TypeOK, Goto
  <2>1. ASSUME pc[t] = "idle", UNCHANGED <<driver, res>>, NEW n,
               target' = [target EXCEPT ![t] = n],
               pc'[t] \notin {"conn", "ipwait"},
               \A u \in Tasks : u # t => pc'[u] = pc[u]
        PROVE  JoinInv'
    BY <2>1
  <2>2. ASSUME NEW n \in Networks, JoinBegin(t, n) PROVE JoinInv'
    BY <2>1, <2>2 DEF JoinBegin
  <2>3. CASE DisconnectBegin(t)
    BY <2>1, <2>3 DEF DisconnectBegin
  <2>4. CASE ScanInitialise(t)
    BY <2>4 DEF ScanInitialise
  <2>5. CASE ScanAborts(t)
    BY <2>5 DEF ScanAborts
  <2>6. QED
    BY <1>6, <2>2, <2>3, <2>4, <2>5 DEF Command
<1>7. QED
  BY <1>1, <1>2, <1>3, <1>4, <1>5, <1>6 DEF Next, vars

\* cmd_wifi.h 99-112, cmd_wifi.c 475-506: a wifi_join that returns true was for
\* the access point the driver is on, although it waits for no more than an
\* address, which an earlier join or a retry may have asked for; with no event
\* left to handle, that link is up.
THEOREM JoinGetsItsNetwork ==
  ~LateGotIp => (Spec /\ []OneAtATime => JoinTrueMeansTarget)
<1> SUFFICES ASSUME ~LateGotIp
             PROVE  Spec /\ []OneAtATime => JoinTrueMeansTarget
  OBVIOUS
<1>1. Init => JoinInv
  BY DEF Init, JoinInv
<1>2. TypeOK /\ JoinInv /\ OneAtATime /\ OneAtATime' /\ [Next]_vars => JoinInv'
  BY NextJoin
<1>3. TypeOK /\ JoinInv /\ IpImpliesWifi /\ BitsMatchLink /\ [Next]_vars =>
        [\A t \in Tasks : (pc[t] = "ipwait" /\ pc'[t] = "idle" /\ res'[t] = "ok")
           => ap = target[t] /\ (Settled => link = "up")]_vars
  <2> SUFFICES ASSUME TypeOK, JoinInv, IpImpliesWifi, BitsMatchLink, [Next]_vars,
                      NEW t \in Tasks,
                      pc[t] = "ipwait", pc'[t] = "idle", res'[t] = "ok"
               PROVE  ap = target[t] /\ (Settled => link = "up")
    OBVIOUS
  <2>1. ap = target[t]
    BY DEF JoinInv
  <2>2. "ip" \in bits
    <3> USE DEF timer, retry, driver, ipstack, task, Goto, Return, TypeOK
    <3>1. CASE Environment \/ EventHandler \/ TimerExpires \/ RetryCb
      BY <3>1 DEF Environment, LinkUp, LinkDown, GotAddress, LeaseLost,
         AddressGivenUp, EventHandler, StaConnected, StaDisconnected,
         ScheduleRetry, StaGotIp, StaLostIp, TimerExpires, RetryCb
    <3>2. ASSUME NEW u \in Tasks, TaskStep(u) PROVE "ip" \in bits
      <4>1. PICK site \in Sites : pc' = [pc EXCEPT ![u] = site]
        BY <3>2 DEF TaskStep, JoinCheck, DiscCheck, DiscLeave, DiscRequest,
           DiscDrop, DiscWait, JoinGate, JoinConfig, JoinConnect, JoinWaitIp,
           DisconnectReturns, Sites
      <4>2. u = t
        BY <4>1
      <4>3. QED
        BY <3>2, <4>2 DEF TaskStep, JoinCheck, DiscCheck, DiscLeave, DiscRequest,
           DiscDrop, DiscWait, JoinGate, JoinConfig, JoinConnect, JoinWaitIp
    <3>3. ASSUME NEW u \in Tasks, Command(u) PROVE FALSE
      <4>1. CASE (\E n \in Networks : JoinBegin(u, n)) \/ DisconnectBegin(u)
        BY <4>1 DEF JoinBegin, DisconnectBegin
      <4>2. CASE ScanInitialise(u)
        BY <4>2 DEF ScanInitialise
      <4>3. CASE ScanAborts(u)
        BY <4>3 DEF ScanAborts
      <4>4. QED
        BY <3>3, <4>1, <4>2, <4>3 DEF Command
    <3>4. QED
      BY <3>1, <3>2, <3>3 DEF Next, vars
  <2>3. QED
    BY <2>1, <2>2 DEF IpImpliesWifi, BitsMatchLink
<1>4. QED
  BY TypeCorrect, AddressNeedsLink, BitsFollowLink, <1>1, <1>2, <1>3, PTL
     DEF Spec, JoinTrueMeansTarget
===============================================================================
