------------------------------ MODULE BtCommProofs -----------------------------
(***************************************************************************)
(* Bluetooth, for any numbers of characteristics and connections, sizes of *)
(* the queues and failures.                                                *)
(***************************************************************************)
EXTENDS BtComm, TLAPS, WellFoundedInduction, SequenceTheorems

OtherKinds == {"REG", "CREATE", "ADD_CHAR", "ADD_CHAR_DESCR", "CONNECT", "DISCONNECT",
               "DIS_SRVC_CMPL", "CFG_MTU", "SEARCH_RES", "SEARCH_CMPL",
               "REG_FOR_NOTIFY"}
Other == [kind : OtherKinds, arg : Nat \cup BOOLEAN]
Events == [kind : Content, arg : {0, 1}] \cup Other

-------------------------------------------------------------------------------
(* The messages in a queue of events: what MessagesIn, which is recursive, *)
(* says of a queue with an event more or an event less.                    *)

LEMMA SetInduction ==
  ASSUME NEW S \in SUBSET Nat, 0 \in S, \A n \in S : n + 1 \in S
  PROVE  \A n \in Nat : n \in S
<1> SUFFICES ASSUME Nat \ S # {} PROVE FALSE
  OBVIOUS
<1> DEFINE R == OpToRel(<, Nat)
<1>1. \A x, y \in Nat : <<x, y>> \in R <=> x < y
  BY DEF OpToRel
<1>2. IsWellFoundedOn(R, Nat) BY NatLessThanWellFounded
<1> HIDE DEF R
<1>3. PICK x \in Nat \ S : \A y \in Nat \ S : ~ (<<y, x>> \in R)
  BY <1>2, WFMin
<1>4. x # 0 /\ x - 1 \in Nat OBVIOUS
<1>5. <<x - 1, x>> \in R BY <1>1, <1>4
<1>6. x - 1 \in S BY <1>3, <1>4, <1>5
<1>7. (x - 1) + 1 = x OBVIOUS
<1> QED BY <1>3, <1>6, <1>7

(* m collects the messages before each of the first places of q. *)
Upto(m, q, n) ==
  /\ m = [i \in 0..n |-> m[i]] /\ m[0] = <<>>
  /\ \A i \in 1..n : m[i] = m[i - 1] \o Payload(q[i])

LEMMA UptoExists ==
  ASSUME NEW q \in Seq(Events), NEW n \in Nat
  PROVE  \E m : Upto(m, q, n)
<1> DEFINE S == {k \in Nat : \E m : Upto(m, q, k)}
<1>1. 0 \in S
  <2>1. Upto([i \in 0..0 |-> <<>>], q, 0) BY DEF Upto
  <2> QED BY <2>1
<1>2. ASSUME NEW k \in Nat, NEW m, Upto(m, q, k) PROVE \E p : Upto(p, q, k + 1)
  <2> DEFINE a == m[k] \o Payload(q[k + 1])
             p == [i \in 0..(k + 1) |-> IF i <= k THEN m[i] ELSE a]
  <2>2. (\A i \in 0..k : p[i] = m[i]) /\ p[k + 1] = a OBVIOUS
  <2>3. p = [i \in 0..(k + 1) |-> p[i]] OBVIOUS
  <2> HIDE DEF p
  <2>4. ASSUME NEW i \in 1..(k + 1) PROVE p[i] = p[i - 1] \o Payload(q[i])
    <3>1. i - 1 \in 0..k /\ p[i - 1] = m[i - 1] BY <2>2
    <3>2. CASE i = k + 1
      <4>1. i - 1 = k BY <3>2
      <4> QED BY <2>2, <3>1, <3>2, <4>1
    <3>3. CASE i # k + 1
      <4>1. i \in 1..k /\ i \in 0..k BY <3>3
      <4>2. m[i] = m[i - 1] \o Payload(q[i]) BY <1>2, <4>1 DEF Upto
      <4> QED BY <2>2, <3>1, <4>1, <4>2
    <3> QED BY <3>2, <3>3
  <2>5. p[0] = <<>> BY <1>2, <2>2 DEF Upto
  <2>6. Upto(p, q, k + 1) BY <2>3, <2>4, <2>5 DEF Upto
  <2> QED BY <2>6
<1>3. \A k \in S : k + 1 \in S
  <2> SUFFICES ASSUME NEW k \in S PROVE k + 1 \in S OBVIOUS
  <2>1. k \in Nat /\ k + 1 \in Nat OBVIOUS
  <2>2. PICK m : Upto(m, q, k) OBVIOUS
  <2> QED BY <1>2, <2>1, <2>2
<1>4. S \in SUBSET Nat OBVIOUS
<1> HIDE DEF S
<1>5. n \in S BY <1>1, <1>3, <1>4, SetInduction
<1> QED BY <1>5 DEF S

(* The recursive function is one of these. *)
LEMMA MessagesUpto ==
  ASSUME NEW q \in Seq(Events)
  PROVE  \E m : Upto(m, q, Len(q)) /\ MessagesIn(q) = m[Len(q)]
<1> DEFINE Is(m) ==
      m = [i \in 0..Len(q) |->
            IF i = 0 THEN <<>>
            ELSE m[i - 1] \o Payload(q[i])]
<1>1. ASSUME NEW m PROVE Upto(m, q, Len(q)) => Is(m)
  <2> SUFFICES ASSUME Upto(m, q, Len(q)) PROVE Is(m) OBVIOUS
  <2>1. m = [i \in 0..Len(q) |-> m[i]] BY DEF Upto
  <2>2. ASSUME NEW i \in 0..Len(q)
        PROVE m[i] = IF i = 0 THEN <<>>
            ELSE m[i - 1] \o Payload(q[i])
    BY DEF Upto
  <2> QED BY <2>1, <2>2
<1>2. ASSUME NEW m, Is(m) PROVE Upto(m, q, Len(q))
  <2>1. ASSUME NEW i \in 0..Len(q)
        PROVE m[i] = IF i = 0 THEN <<>>
            ELSE m[i - 1] \o Payload(q[i])
    BY <1>2, Zenon
  <2>2. m = [i \in 0..Len(q) |-> m[i]]
    <3>1. DOMAIN m = 0..Len(q) BY <1>2, Zenon
    <3>2. m = [i \in DOMAIN m |-> m[i]] BY <1>2, Zenon
    <3> QED BY <3>1, <3>2, Zenon
  <2>3. Len(q) \in Nat OBVIOUS
  <2> HIDE DEF Is
  <2>4. m[0] = <<>> BY <2>1, <2>3
  <2>5. ASSUME NEW i \in 1..Len(q) PROVE m[i] = m[i - 1] \o Payload(q[i])
    <3>1. i \in 0..Len(q) /\ i # 0 BY <2>3
    <3> QED BY <2>1, <3>1
  <2> QED BY <2>2, <2>4, <2>5 DEF Upto
<1>3. MessagesIn(q) = (CHOOSE m : Is(m))[Len(q)] BY DEF MessagesIn
<1>4. \E m : Is(m) 
  <2>1. Len(q) \in Nat OBVIOUS
  <2> HIDE DEF Is
  <2> QED BY <1>1, <2>1, UptoExists
<1> HIDE DEF Is
<1>5. Is(CHOOSE m : Is(m)) BY <1>4
<1> QED BY <1>2, <1>3, <1>5


LEMMA PayloadType == ASSUME NEW e \in Events PROVE Payload(e) \in Seq({0, 1})
<1>1. e.kind \in Content => e.arg \in {0, 1}
  BY DEF Events, Content, Other, OtherKinds
<1>2. CASE e.kind \in Content
  <2>1. Payload(e) = <<e.arg>> BY <1>2 DEF Payload
  <2> QED BY <1>1, <1>2, <2>1
<1>3. CASE e.kind \notin Content
  <2>1. Payload(e) = <<>> BY <1>3 DEF Payload
  <2> QED BY <2>1
<1> QED BY <1>2, <1>3

LEMMA Associative ==
  ASSUME NEW s \in Seq({0, 1}), NEW t \in Seq({0, 1}), NEW u \in Seq({0, 1})
  PROVE  (s \o t) \o u = s \o (t \o u)
BY ConcatAssociative

LEMMA UptoType ==
  ASSUME NEW q \in Seq(Events), NEW m, Upto(m, q, Len(q))
  PROVE  \A i \in 0..Len(q) : m[i] \in Seq({0, 1})
<1> DEFINE S == {k \in Nat : k <= Len(q) => m[k] \in Seq({0, 1})}
<1>1. 0 \in S BY DEF Upto
<1>2. ASSUME NEW k \in S PROVE k + 1 \in S
  <2> SUFFICES ASSUME k + 1 <= Len(q) PROVE m[k + 1] \in Seq({0, 1}) OBVIOUS
  <2>1. k + 1 \in 1..Len(q) /\ m[k] \in Seq({0, 1}) /\ (k + 1) - 1 = k OBVIOUS
  <2>2. m[k + 1] = m[k] \o Payload(q[k + 1]) BY <2>1 DEF Upto
  <2>3. Payload(q[k + 1]) \in Seq({0, 1}) BY <2>1, ElementOfSeq, PayloadType
  <2> QED BY <2>1, <2>2, <2>3, ConcatProperties
<1>3. S \in SUBSET Nat OBVIOUS
<1>4. \A k \in Nat : k \in S
  <2> HIDE DEF S
  <2> QED BY <1>1, <1>2, <1>3, SetInduction
<1> QED BY <1>4

(* From the place d on, q goes on with what r begins with.                 *)
Part(q, r, d, n) ==
  n <= Len(r) /\ d + n <= Len(q) /\ \A i \in 1..n : r[i] = q[i + d]

Joined(m, d, p, n) == m[d + n] = m[d] \o p[n]

LEMMA RestAgrees ==
  ASSUME NEW q \in Seq(Events), NEW r \in Seq(Events),
         NEW m, NEW p, NEW d \in Nat, NEW n \in Nat,
         Upto(m, q, Len(q)), Upto(p, r, Len(r)), Part(q, r, d, n)
  PROVE  Joined(m, d, p, n)
<1> USE DEF Part, Joined
<1> DEFINE H(k) == m[d + k] = m[d] \o p[k]
           S == {k \in Nat : k <= n => H(k)}
<1>0. /\ \A i \in 0..Len(q) : m[i] \in Seq({0, 1})
      /\ \A i \in 0..Len(r) : p[i] \in Seq({0, 1})
  BY UptoType
<1>1. 0 \in S
  <2>1. m[d] \in Seq({0, 1}) /\ p[0] = <<>> BY <1>0 DEF Upto
  <2>2. H(0) BY <2>1, ConcatEmptySeq
  <2> HIDE DEF H
  <2> QED BY <2>2
<1>2. ASSUME NEW k \in S PROVE k + 1 \in S
  <2> SUFFICES ASSUME k \in Nat, k + 1 <= n, H(k) PROVE H(k + 1)
    <3> HIDE DEF H
    <3> QED OBVIOUS
  <2> HIDE DEF S
  <2> DEFINE a == Payload(q[d + (k + 1)])
  <2>1. /\ k + 1 \in 1..Len(r) /\ (k + 1) - 1 = k
        /\ d + (k + 1) \in 1..Len(q) /\ (d + (k + 1)) - 1 = d + k
    OBVIOUS
  <2>2. r[k + 1] = q[d + (k + 1)] OBVIOUS
  <2>3. p[k + 1] = p[k] \o a /\ m[d + (k + 1)] = m[d + k] \o a
    BY <2>1, <2>2 DEF Upto
  <2>4. m[d + k] = m[d] \o p[k] /\ m[d] \in Seq({0, 1}) /\ p[k] \in Seq({0, 1})
    BY <1>0
  <2>5. a \in Seq({0, 1}) BY <2>1, ElementOfSeq, PayloadType
  <2> HIDE DEF a
  <2>6. (m[d] \o p[k]) \o a = m[d] \o (p[k] \o a)
    BY <2>4, <2>5, Associative
  <2> QED BY <2>3, <2>4, <2>6
<1>3. S \in SUBSET Nat
  <2> HIDE DEF H
  <2> QED OBVIOUS
<1>4. n \in S
  <2> HIDE DEF S
  <2> QED BY <1>1, <1>2, <1>3, SetInduction
<1>5. H(n)
  <2> HIDE DEF H
  <2> QED BY <1>4
<1> QED BY <1>5

LEMMA MessagesType ==
  ASSUME NEW q \in Seq(Events)
  PROVE  MessagesIn(q) \in Seq({0, 1})
<1>1. PICK m : Upto(m, q, Len(q)) /\ MessagesIn(q) = m[Len(q)] BY MessagesUpto
<1>2. Len(q) \in 0..Len(q) OBVIOUS
<1> QED BY <1>1, <1>2, UptoType

LEMMA MessagesOfNone == MessagesIn(<<>>) = <<>>
<1>1. <<>> \in Seq(Events) /\ Len(<<>>) = 0 OBVIOUS
<1> QED BY <1>1, MessagesUpto DEF Upto

LEMMA Appended ==
  ASSUME NEW q \in Seq(Events), NEW e \in Events
  PROVE  /\ Append(q, e) \in Seq(Events) /\ Len(Append(q, e)) = Len(q) + 1
         /\ Append(q, e)[Len(q) + 1] = e
         /\ \A i \in 1..Len(q) : Append(q, e)[i] = q[i]
OBVIOUS

LEMMA MessagesAppend ==
  ASSUME NEW q \in Seq(Events), NEW e \in Events
  PROVE  MessagesIn(Append(q, e)) = MessagesIn(q) \o Payload(e)
<1> DEFINE r == Append(q, e)
<1>1. /\ r \in Seq(Events) /\ Len(r) = Len(q) + 1 /\ Len(q) \in Nat
      /\ r[Len(q) + 1] = e /\ \A i \in 1..Len(q) : r[i] = q[i]
  OBVIOUS
<1> HIDE DEF r
<1>2. PICK m : Upto(m, q, Len(q)) /\ MessagesIn(q) = m[Len(q)] BY MessagesUpto
<1>3. PICK p : Upto(p, r, Len(r)) /\ MessagesIn(r) = p[Len(r)] BY <1>1, MessagesUpto
<1>4. m[0 + Len(q)] = m[0] \o p[Len(q)]
  <2>1. ASSUME NEW d \in Nat, d = 0 PROVE Joined(m, d, p, Len(q))
    <3>1. Part(q, r, d, Len(q)) BY <1>1, <2>1 DEF Part
    <3> QED BY <1>1, <1>2, <1>3, <3>1, RestAgrees, Zenon
  <2> QED BY <2>1 DEF Joined
<1>5. p[Len(q)] \in Seq({0, 1}) /\ m[0] = <<>>
  <2>1. Len(q) \in 0..Len(r) BY <1>1
  <2> QED BY <1>1, <1>2, <1>3, <2>1, UptoType, Zenon DEF Upto
<1>6. m[Len(q)] = p[Len(q)] BY <1>1, <1>4, <1>5, ConcatEmptySeq
<1>7. p[Len(r)] = p[Len(q)] \o Payload(e)
  <2>1. Len(r) \in 1..Len(r) /\ Len(r) - 1 = Len(q) BY <1>1
  <2> QED BY <1>1, <1>3, <2>1 DEF Upto
<1> QED BY <1>2, <1>3, <1>6, <1>7 DEF r

LEMMA MessagesTail ==
  ASSUME NEW q \in Seq(Events), q # <<>>
  PROVE  MessagesIn(q) = Payload(Head(q)) \o MessagesIn(Tail(q))
<1> DEFINE r == Tail(q)
<1>1. /\ r \in Seq(Events) /\ Len(q) = Len(r) + 1 /\ Len(r) \in Nat
      /\ Head(q) = q[1] /\ q[1] \in Events /\ \A i \in 1..Len(r) : r[i] = q[i + 1]
  OBVIOUS
<1> HIDE DEF r
<1>2. PICK m : Upto(m, q, Len(q)) /\ MessagesIn(q) = m[Len(q)] BY MessagesUpto
<1>3. PICK p : Upto(p, r, Len(r)) /\ MessagesIn(r) = p[Len(r)] BY <1>1, MessagesUpto
<1>4. m[1 + Len(r)] = m[1] \o p[Len(r)]
  <2>1. Part(q, r, 1, Len(r)) /\ 1 \in Nat BY <1>1 DEF Part
  <2>2. Joined(m, 1, p, Len(r)) BY <1>1, <1>2, <1>3, <2>1, RestAgrees, Zenon
  <2> QED BY <2>2 DEF Joined
<1>5. m[1] = m[0] \o Payload(q[1]) /\ m[0] = <<>>
  <2>1. 1 \in 1..Len(q) /\ 1 - 1 = 0 BY <1>1
  <2> QED BY <1>2, <2>1 DEF Upto
<1>6. m[1] = Payload(Head(q))
  BY <1>1, <1>5, PayloadType, ConcatEmptySeq
<1>7. 1 + Len(r) = Len(q) BY <1>1
<1> QED BY <1>2, <1>3, <1>4, <1>6, <1>7 DEF r

-------------------------------------------------------------------------------
(* The same of the events that are no messages, and of OnTheirWay.         *)

LEMMA OthersAreNoMessages ==
  ASSUME NEW e \in Other
  PROVE  e \in Events /\ e.kind \notin Content /\ Payload(e) = <<>>
BY DEF Other, OtherKinds, Events, Content, Payload

LEMMA OtherEvents ==
  ASSUME NEW kind \in OtherKinds, NEW arg \in Nat
  PROVE  EvOf(kind, arg) \in Other /\ Ev(kind) \in Other
BY DEF Other, EvOf, Ev

LEMMA OtherAppended ==
  ASSUME NEW q \in Seq(Events), NEW e \in Other
  PROVE  /\ Append(q, e) \in Seq(Events)
         /\ MessagesIn(Append(q, e)) = MessagesIn(q)
<1>1. e \in Events /\ Payload(e) = <<>> BY OthersAreNoMessages
<1>2. MessagesIn(Append(q, e)) = MessagesIn(q) \o <<>> BY <1>1, MessagesAppend
<1>3. MessagesIn(q) \in Seq({0, 1}) BY MessagesType
<1> QED BY <1>1, <1>2, <1>3, ConcatEmptySeq

LEMMA OtherTaken ==
  ASSUME NEW q \in Seq(Events), q # <<>>, Head(q).kind \notin Content
  PROVE  /\ Tail(q) \in Seq(Events)
         /\ MessagesIn(Tail(q)) = MessagesIn(q)
<1>1. Tail(q) \in Seq(Events) OBVIOUS
<1>2. Payload(Head(q)) = <<>> BY DEF Payload
<1>3. MessagesIn(q) = <<>> \o MessagesIn(Tail(q)) BY <1>2, MessagesTail
<1>4. MessagesIn(Tail(q)) \in Seq({0, 1}) BY <1>1, MessagesType
<1> QED BY <1>1, <1>3, <1>4, ConcatEmptySeq

LEMMA MessageTaken ==
  ASSUME NEW q \in Seq(Events), q # <<>>, Head(q).kind \in Content
  PROVE  /\ Tail(q) \in Seq(Events) /\ Head(q).arg \in {0, 1}
         /\ MessagesIn(q) = <<Head(q).arg>> \o MessagesIn(Tail(q))
<1>1. Tail(q) \in Seq(Events) /\ Head(q) \in Events OBVIOUS
<1>2. Head(q).arg \in {0, 1} BY <1>1, OthersAreNoMessages DEF Events
<1>3. Payload(Head(q)) = <<Head(q).arg>> BY DEF Payload
<1> QED BY <1>1, <1>2, <1>3, MessagesTail

LEMMA MessageAppended ==
  ASSUME NEW q \in Seq(Events), NEW kind \in Content, NEW n \in {0, 1}
  PROVE  /\ Append(q, EvOf(kind, n)) \in Seq(Events)
         /\ MessagesIn(Append(q, EvOf(kind, n))) = MessagesIn(q) \o <<n>>
<1> DEFINE e == EvOf(kind, n)
<1>1. e \in Events /\ Payload(e) = <<n>> BY DEF EvOf, Events, Payload
<1> HIDE DEF e
<1>2. MessagesIn(Append(q, e)) = MessagesIn(q) \o Payload(e) BY <1>1, MessagesAppend
<1>3. Append(q, e) \in Seq(Events) BY <1>1
<1> QED BY <1>1, <1>2, <1>3 DEF e

-------------------------------------------------------------------------------
(* What the queues hold, in either build.  When the stack is not on, there *)
(* is nothing on its way, and no connection it could come over.            *)

Messages ==
  /\ recv \in Seq({0, 1}) /\ blocked \in Seq({0, 1}) /\ gatt \in Seq(Events)
  /\ link \in Nat
Quiet ==
  stack # "on" => /\ link = 0
                  /\ recv = <<>> /\ blocked = <<>> /\ MessagesIn(gatt) = <<>>

LEMMA NumberType == ASSUME Messages PROVE Number \in {0, 1} /\ OnTheirWay \in Seq({0, 1})
<1>1. MessagesIn(gatt) \in Seq({0, 1}) BY MessagesType DEF Messages
<1>2. OnTheirWay \in Seq({0, 1}) BY <1>1, ConcatProperties DEF Messages, OnTheirWay
<1> HIDE DEF OnTheirWay
<1>3. CASE OnTheirWay = <<>> BY <1>2, <1>3 DEF Number
<1>4. CASE OnTheirWay # <<>>
  <2>1. Len(OnTheirWay) \in 1..Len(OnTheirWay) BY <1>2, <1>4
  <2>2. OnTheirWay[Len(OnTheirWay)] \in {0, 1} BY <1>2, <2>1, ElementOfSeq
  <2> DEFINE n == OnTheirWay[Len(OnTheirWay)]
  <2>3. Number = 1 - n BY <1>4 DEF Number, Last
  <2> HIDE DEF n
  <2>4. n \in {0, 1} BY <2>2 DEF n
  <2>5. 1 - n \in {0, 1} BY <2>4
  <2> QED BY <1>2, <2>3, <2>5
<1> QED BY <1>3, <1>4

(* What a step may do to the messages.                                     *)
Order ==
  \/ OnTheirWay' = OnTheirWay
  \/ OnTheirWay' = Append(OnTheirWay, Number)
  \/ recv # <<>> /\ OnTheirWay' = Tail(OnTheirWay)
  \/ stack' = "off"

LEMMA NothingOnTheWay ==
  ASSUME Messages, Quiet, UNCHANGED <<gatt, link, recv, blocked>>,
         stack' = stack \/ stack = "off"
  PROVE  Messages' /\ Quiet' /\ Order
<1>1. OnTheirWay' = OnTheirWay BY DEF OnTheirWay
<1> QED BY <1>1 DEF Messages, Quiet, Order

LEMMA AllLost ==
  ASSUME stack' = "off", link' = 0, gatt' = <<>>, recv' = <<>>, blocked' = <<>>
  PROVE  Messages' /\ Quiet' /\ Order
<1>1. gatt' \in Seq(Events) /\ recv' \in Seq({0, 1}) /\ blocked' \in Seq({0, 1})
  OBVIOUS
<1>2. MessagesIn(gatt)' = <<>> BY MessagesOfNone
<1> QED BY <1>1, <1>2 DEF Messages, Quiet, Order

LEMMA EventPosted ==
  ASSUME Messages, Quiet, NEW e \in Other, gatt' = Append(gatt, e),
         UNCHANGED <<stack, recv, blocked>>, link' \in Nat,
         stack # "on" => link' = 0
  PROVE  Messages' /\ Quiet' /\ Order
<1>1. gatt' \in Seq(Events) /\ MessagesIn(gatt)' = MessagesIn(gatt)
  BY OtherAppended DEF Messages
<1>2. OnTheirWay' = OnTheirWay BY <1>1 DEF OnTheirWay
<1> QED BY <1>1, <1>2 DEF Messages, Quiet, Order

LEMMA EventTaken ==
  ASSUME Messages, Quiet, gatt # <<>>, Head(gatt).kind \notin Content,
         UNCHANGED <<stack, link, recv, blocked>>,
         gatt' = Tail(gatt) \/ \E e \in Other : gatt' = Append(Tail(gatt), e)
  PROVE  Messages' /\ Quiet' /\ Order
<1> DEFINE q == Tail(gatt)
<1>1. q \in Seq(Events) /\ MessagesIn(q) = MessagesIn(gatt)
  BY OtherTaken DEF Messages
<1> HIDE DEF q
<1>2. gatt' \in Seq(Events) /\ MessagesIn(gatt)' = MessagesIn(gatt)
  <2>1. CASE gatt' = q BY <1>1, <2>1
  <2>2. CASE \E e \in Other : gatt' = Append(q, e)
    <3>1. PICK e \in Other : gatt' = Append(q, e) BY <2>2
    <3> QED BY <1>1, <3>1, OtherAppended
  <2> QED BY <2>1, <2>2 DEF q
<1>3. OnTheirWay' = OnTheirWay BY <1>2 DEF OnTheirWay
<1> QED BY <1>2, <1>3 DEF Messages, Quiet, Order

(* A message the handler puts into the queue, or waits with, keeps its     *)
(* place behind those there are in recv.                                   *)
LEMMA MessageDelivered ==
  ASSUME Messages, Quiet, NEW kind \in Content, TakeGatt(kind),
         Enqueue(Head(gatt).arg), gatt' = Tail(gatt), UNCHANGED <<stack, link>>
  PROVE  Messages' /\ Quiet' /\ Order
<1> DEFINE a == Head(gatt).arg
           q == Tail(gatt)
           rest == MessagesIn(q)
<1>1. /\ q \in Seq(Events) /\ a \in {0, 1} /\ gatt \in Seq(Events)
      /\ MessagesIn(gatt) = <<a>> \o rest
  BY MessageTaken DEF Messages, TakeGatt
<1>2. rest \in Seq({0, 1}) BY <1>1, MessagesType
<1>3. recv \in Seq({0, 1}) /\ blocked = <<>> BY DEF Messages, TakeGatt, Handler
<1>4. \/ recv' = Append(recv, a) /\ blocked' = <<>>
      \/ recv' = recv /\ blocked' = <<a>>
  BY <1>3 DEF Enqueue
<1>5. MessagesIn(gatt)' = rest /\ gatt' = q OBVIOUS
<1> HIDE DEF a, q, rest
<1>6. <<a>> \in Seq({0, 1}) BY <1>1
<1>7. OnTheirWay = recv \o (<<a>> \o rest)
  BY <1>1, <1>3, ConcatEmptySeq DEF OnTheirWay
<1>8. recv \o (<<a>> \o rest) = (recv \o <<a>>) \o rest
  BY <1>2, <1>3, <1>6, Associative
<1>9. recv' \o blocked' = recv \o <<a>> /\ recv' \in Seq({0, 1}) /\ blocked' \in Seq({0, 1})
  <2>1. CASE recv' = Append(recv, a) /\ blocked' = <<>>
    <3>1. Append(recv, a) = recv \o <<a>> /\ Append(recv, a) \in Seq({0, 1})
      BY <1>1, <1>3, AppendIsConcat
    <3>2. Append(recv, a) \o <<>> = Append(recv, a) BY <3>1, ConcatEmptySeq
    <3> QED BY <2>1, <3>1, <3>2
  <2>2. CASE recv' = recv /\ blocked' = <<a>>
    <3>1. recv' \o blocked' = recv \o <<a>> BY <2>2
    <3> QED BY <1>3, <1>6, <2>2, <3>1
  <2> QED BY <1>4, <2>1, <2>2
<1>10. OnTheirWay' = (recv \o <<a>>) \o rest BY <1>5, <1>9 DEF OnTheirWay
<1>11. OnTheirWay' = OnTheirWay BY <1>7, <1>8, <1>10
<1>12. stack = "on"
  <2>1. <<a>> \o rest # <<>> BY <1>2, <1>6
  <2> QED BY <1>1, <2>1 DEF Quiet
<1> QED BY <1>1, <1>5, <1>9, <1>11, <1>12 DEF Messages, Quiet, Order

LEMMA MessageArrives ==
  ASSUME Messages, Quiet, NEW kind \in Content, Arrives(kind), link # 0,
         UNCHANGED <<stack, link, recv, blocked>>
  PROVE  Messages' /\ Quiet' /\ Order
<1> DEFINE n == Number
           before == recv \o blocked
           rest == MessagesIn(gatt)
<1>1. n \in {0, 1} /\ OnTheirWay \in Seq({0, 1}) BY NumberType
<1>2. gatt' = Append(gatt, EvOf(kind, n)) /\ stack = "on" BY DEF Arrives, Quiet
<1>3. OnTheirWay = before \o rest BY DEF OnTheirWay
<1> HIDE DEF n
<1>4. gatt' \in Seq(Events) /\ MessagesIn(gatt)' = rest \o <<n>>
  BY <1>1, <1>2, MessageAppended DEF Messages
<1>5. /\ rest \in Seq({0, 1}) /\ before \in Seq({0, 1}) /\ <<n>> \in Seq({0, 1})
  BY <1>1, MessagesType, ConcatProperties DEF Messages
<1>6. OnTheirWay' = before \o (rest \o <<n>>) BY <1>4 DEF OnTheirWay
<1> HIDE DEF rest, before
<1>7. before \o (rest \o <<n>>) = (before \o rest) \o <<n>> BY <1>5, Associative
<1>8. OnTheirWay \o <<n>> = Append(OnTheirWay, n) BY <1>1, AppendIsConcat
<1>9. OnTheirWay' = Append(OnTheirWay, n) BY <1>3, <1>6, <1>7, <1>8
<1> QED BY <1>2, <1>4, <1>9 DEF Messages, Quiet, Order, n

LEMMA MessageProcessed ==
  ASSUME Messages, Quiet, ProcessMessage
  PROVE  Messages' /\ Quiet' /\ Order
<1> DEFINE t == Tail(recv)
           rest == MessagesIn(gatt)
<1>1. /\ recv # <<>> /\ recv' = t \o blocked /\ blocked' = <<>>
      /\ UNCHANGED <<gatt, link, stack>>
  BY DEF ProcessMessage, events
<1>2. /\ recv \in Seq({0, 1}) /\ t \in Seq({0, 1}) /\ blocked \in Seq({0, 1})
      /\ rest \in Seq({0, 1}) /\ gatt \in Seq(Events) /\ link \in Nat
  BY <1>1, MessagesType DEF Messages
<1>3. recv' \in Seq({0, 1}) /\ recv' \o <<>> = recv'
  BY <1>1, <1>2, ConcatProperties, ConcatEmptySeq
<1>4. OnTheirWay' = (t \o blocked) \o rest BY <1>1, <1>3 DEF OnTheirWay
<1>5. OnTheirWay = (recv \o blocked) \o rest BY DEF OnTheirWay
<1> HIDE DEF rest
<1>6. Tail((recv \o blocked) \o rest) = (Tail(recv) \o blocked) \o rest
  <2> DEFINE b == blocked \o rest
  <2>1. b \in Seq({0, 1}) BY <1>2, ConcatProperties
  <2>2. (recv \o blocked) \o rest = recv \o b /\ (t \o blocked) \o rest = t \o b
    BY <1>2, Associative
  <2> HIDE DEF b
  <2>3. Tail(recv \o b) = Tail(recv) \o b
    <3> DEFINE u == recv \o b
               v == Tail(recv) \o b
    <3>1. /\ u \in Seq({0, 1}) /\ Len(u) = Len(recv) + Len(b)
          /\ \A i \in 1..Len(u) : u[i] = IF i <= Len(recv) THEN recv[i] ELSE b[i - Len(recv)]
      BY <1>2, <2>1, ConcatProperties
    <3>2. Len(recv) \in Nat \ {0} /\ Len(b) \in Nat BY <1>1, <1>2, <2>1
    <3>3. /\ t \in Seq({0, 1}) /\ Len(t) = Len(recv) - 1
          /\ \A i \in 1..Len(t) : t[i] = recv[i + 1]
      BY <1>1, <1>2
    <3>4. /\ v \in Seq({0, 1}) /\ Len(v) = Len(t) + Len(b)
          /\ \A i \in 1..Len(v) : v[i] = IF i <= Len(t) THEN t[i] ELSE b[i - Len(t)]
      BY <2>1, <3>3, ConcatProperties
    <3> HIDE DEF u, v, t
    <3>5. u # <<>> BY <3>1, <3>2
    <3>6. /\ Tail(u) \in Seq({0, 1}) /\ Len(Tail(u)) = Len(u) - 1
          /\ \A i \in 1..Len(Tail(u)) : Tail(u)[i] = u[i + 1]
      BY <3>1, <3>5, HeadTailProperties
    <3>7. \A i \in 1..Len(v) : Tail(u)[i] = v[i]
      <4> SUFFICES ASSUME NEW i \in 1..Len(v) PROVE Tail(u)[i] = v[i]
        OBVIOUS
      <4>1. /\ i \in 1..Len(Tail(u)) /\ i + 1 \in 1..Len(u)
            /\ Tail(u)[i] = u[i + 1]
        BY <3>1, <3>2, <3>3, <3>4, <3>6
      <4>2. CASE i <= Len(t)
        <5>1. i \in 1..Len(t) /\ i + 1 <= Len(recv) BY <3>2, <3>3, <4>2
        <5> QED BY <3>1, <3>3, <3>4, <4>1, <4>2, <5>1
      <4>3. CASE ~(i <= Len(t))
        <5>1. ~(i + 1 <= Len(recv)) /\ (i + 1) - Len(recv) = i - Len(t)
          BY <3>2, <3>3, <3>4, <4>3
        <5> QED BY <3>1, <3>4, <4>1, <4>3, <5>1
      <4> QED BY <4>2, <4>3
    <3>8. Len(Tail(u)) = Len(v) BY <3>1, <3>2, <3>3, <3>4, <3>6
    <3>9. Tail(u) = v BY <3>4, <3>6, <3>7, <3>8, SeqEqual
    <3> QED BY <3>9 DEF u, v, t
  <2> QED BY <2>2, <2>3
<1>7. stack = "on" BY <1>1 DEF Quiet
<1>8. OnTheirWay' = Tail(OnTheirWay) BY <1>4, <1>5, <1>6
<1>9. Messages' BY <1>1, <1>2, <1>3 DEF Messages
<1> QED BY <1>1, <1>7, <1>8, <1>9 DEF Quiet, Order

-------------------------------------------------------------------------------
(* The variables of the server.                                            *)

SrvFields == {"btConnected", "conn_id", "adv_config_done", "char_handle",
              "descr_handle", "refused", "repeated", "late", "halted"}
IsSrv(s) == DOMAIN s = SrvFields
SameHandles(s, t) ==
  /\ s.char_handle = t.char_handle /\ s.descr_handle = t.descr_handle
  /\ s.halted = t.halted
Up(s) == s.btConnected = TRUE
Down(s) == s.btConnected = FALSE
Repeated(s) == s.repeated = TRUE
Stopped(s) == s.halted = TRUE
SameLink(s, t) ==
  s.btConnected = t.btConnected /\ s.conn_id = t.conn_id /\ s.repeated = t.repeated

LEMMA FreshServerIs ==
  /\ IsSrv(FreshServer) /\ Down(FreshServer)
  /\ \A i \in Chars : FreshServer.char_handle[i] = 0 /\ FreshServer.descr_handle[i] = 0
BY DEF IsSrv, SrvFields, FreshServer, Down

LEMMA AdvertisingChanges ==
  ASSUME NEW s, IsSrv(s), NEW a, NEW b
  PROVE  LET t == [s EXCEPT !.adv_config_done = a, !.refused = b]
             u == [s EXCEPT !.adv_config_done = a, !.late = b]
         IN  /\ IsSrv(t) /\ SameHandles(t, s) /\ SameLink(t, s)
             /\ IsSrv(u) /\ SameHandles(u, s) /\ SameLink(u, s)
BY DEF IsSrv, SrvFields, SameHandles, SameLink

LEMMA ConfigureChanges ==
  ASSUME NEW s, IsSrv(s), NEW accepted, Configure(s, accepted)
  PROVE  IsSrv(srv') /\ SameHandles(srv', s) /\ SameLink(srv', s)
BY AdvertisingChanges DEF Configure

LEMMA DisconnectedIs ==
  ASSUME NEW s, IsSrv(s)
  PROVE  /\ IsSrv(Disconnected(s)) /\ SameHandles(Disconnected(s), s)
         /\ Down(Disconnected(s))
BY DEF IsSrv, SrvFields, SameHandles, Down, Disconnected

LEMMA ConnectedIs ==
  ASSUME NEW s, IsSrv(s), NEW c
  PROVE  LET t == [s EXCEPT !.conn_id = c, !.btConnected = TRUE, !.repeated = FALSE]
         IN  IsSrv(t) /\ SameHandles(t, s) /\ Up(t) /\ t.conn_id = c
BY DEF IsSrv, SrvFields, SameHandles, Up

LEMMA BegunIs ==
  ASSUME IsSrv(srv)
  PROVE  IsSrv(Begun) /\ SameHandles(Begun, srv) /\ Down(Begun)
BY DEF IsSrv, SrvFields, SameHandles, Down, Begun

LEMMA HaltedIs ==
  ASSUME NEW s, IsSrv(s)
  PROVE  /\ IsSrv(Halted(s)) /\ SameLink(Halted(s), s) /\ Stopped(Halted(s))
         /\ Halted(s).char_handle = s.char_handle
         /\ Halted(s).descr_handle = s.descr_handle
BY DEF IsSrv, SrvFields, SameLink, Stopped, Halted

LEMMA RefusedIs ==
  ASSUME IsSrv(srv), srv' = [Begun EXCEPT !.repeated = link # 0]
  PROVE  /\ IsSrv(srv') /\ SameHandles(srv', srv) /\ Down(srv')
         /\ link # 0 => Repeated(srv')
<1>1. IsSrv(srv') /\ SameHandles(srv', srv) /\ Down(srv')
  BY BegunIs DEF IsSrv, SrvFields, SameHandles, Down
<1>2. srv'.repeated = (link # 0)
  BY BegunIs, Zenon DEF IsSrv, SrvFields
<1> QED BY <1>1, <1>2, Zenon DEF Repeated

LEMMA StartedIs ==
  ASSUME IsSrv(srv),
         srv' = [ServiceInfo(Begun) EXCEPT !.refused = FALSE, !.repeated = FALSE,
                                           !.late = FALSE, !.halted = FALSE]
  PROVE  /\ IsSrv(srv') /\ Down(srv')
         /\ \A i \in Chars : srv'.char_handle[i] = 0 /\ srv'.descr_handle[i] = 0
BY BegunIs, FreshServerIs DEF IsSrv, SrvFields, Down, ServiceInfo

-------------------------------------------------------------------------------
(* The service table.  At most one answer of the stack is on its way, and  *)
(* which one says how far the table and the database are.                  *)

Builders == {"REG", "CREATE", "ADD_CHAR", "ADD_CHAR_DESCR"}
Built(s, chars, descrs) ==
  \A i \in Chars : /\ s.char_handle[i] = (IF i <= chars THEN 2 * i - 1 ELSE 0)
                   /\ s.descr_handle[i] = (IF i <= descrs THEN 2 * i ELSE 0)
Stage(e, s, d) ==
  /\ e.kind \in {"REG", "CREATE"} => d = <<>> /\ Built(s, 0, 0)
  /\ e.kind = "ADD_CHAR" =>
       \E k \in Chars : e.arg = 2 * k - 1 /\ Len(d) = 2 * k - 1 /\ Built(s, k - 1, k - 1)
  /\ e.kind = "ADD_CHAR_DESCR" =>
       \E k \in Chars : e.arg = 2 * k /\ Len(d) = 2 * k /\ Built(s, k, k - 1)

\* No answer is to come: either all is there, or the stack refused a step.
Ended(s, d) ==
  \E n, m \in 0..NumChars :
    /\ m <= n /\ n <= m + 1 /\ Len(d) = n + m /\ Built(s, n, m)
    /\ m = NumChars \/ Stopped(s)

Table ==
  /\ IsSrv(srv)
  /\ srv.char_handle \in [Chars -> Nat] /\ srv.descr_handle \in [Chars -> Nat]
  /\ db \in Seq({"char", "descr"} \X Chars)
Entries ==
  \A i \in Chars : /\ 2 * i - 1 <= Len(db) => db[2 * i - 1] = <<"char", i>>
                   /\ 2 * i <= Len(db) => db[2 * i] = <<"descr", i>>
OneAnswer ==
  \A i, j \in 1..Len(gatt) :
    gatt[i].kind \in Builders /\ gatt[j].kind \in Builders => i = j
Progress ==
  /\ \A i \in 1..Len(gatt) : Stage(gatt[i], srv, db)
  /\ (\A i \in 1..Len(gatt) : gatt[i].kind \notin Builders)
       => Ended(srv, db)
Service ==
  /\ Table /\ Entries /\ OneAnswer
  /\ IF stack = "on" THEN Progress ELSE gatt = <<>> /\ db = <<>>

LEMMA NumCharsIs == NumChars \in Nat \ {0} /\ \A i \in Chars : i \in Nat \ {0} /\ i <= NumChars
BY ServerConstants DEF Chars

(* Events that do not build leave the service alone.                       *)
SameService ==
  /\ UNCHANGED <<stack, db>>
  /\ IsSrv(srv') /\ SameHandles(srv', srv)

LEMMA ServiceSame ==
  ASSUME Service, SameService, gatt' = gatt
  PROVE  Service'
<1>1. Ended(srv', db') <=> Ended(srv, db)
  BY DEF SameService, SameHandles, Ended, Built, Stopped
<1>2. ASSUME NEW e PROVE Stage(e, srv', db') = Stage(e, srv, db)
  BY DEF SameService, SameHandles, Stage, Built
<1>3. Progress' = Progress BY <1>1, <1>2 DEF Progress, SameService
<1>4. Table' /\ Entries' /\ OneAnswer'
  BY DEF Service, SameService, SameHandles, Table, Entries, OneAnswer
<1> QED BY <1>3, <1>4 DEF Service, SameService

LEMMA ServiceTaken ==
  ASSUME Messages, Service, SameService, gatt # <<>>, gatt' = Tail(gatt),
         Head(gatt).kind \notin Builders
  PROVE  Service'
<1>1. stack = "on" /\ stack' = "on" BY DEF Service, SameService
<1>2. /\ Len(gatt') = Len(gatt) - 1 /\ Len(gatt) \in Nat
      /\ \A i \in 1..Len(gatt') : i + 1 \in 1..Len(gatt) /\ gatt'[i] = gatt[i + 1]
      /\ \A i \in 1..Len(gatt) : i # 1 => (i - 1 \in 1..Len(gatt') /\ gatt'[i - 1] = gatt[i])
      /\ Head(gatt) = gatt[1]
  <2>1. /\ Len(gatt') = Len(gatt) - 1 /\ Len(gatt) \in Nat /\ Head(gatt) = gatt[1]
        /\ \A i \in 1..Len(gatt') : gatt'[i] = gatt[i + 1]
    BY HeadTailProperties DEF Messages
  <2>2. \A i \in 1..Len(gatt') : i + 1 \in 1..Len(gatt) BY <2>1
  <2>3. ASSUME NEW i \in 1..Len(gatt), i # 1
        PROVE  i - 1 \in 1..Len(gatt') /\ gatt'[i - 1] = gatt[i]
    <3>1. i - 1 \in 1..Len(gatt') /\ (i - 1) + 1 = i BY <2>1, <2>3
    <3>2. gatt'[i - 1] = gatt[(i - 1) + 1] BY <2>1, <3>1
    <3> QED BY <3>1, <3>2
  <2> QED BY <2>1, <2>2, <2>3
<1>3. Ended(srv', db') <=> Ended(srv, db)
  BY DEF SameService, SameHandles, Ended, Built, Stopped
<1>4. ASSUME NEW e PROVE Stage(e, srv', db') = Stage(e, srv, db)
  BY DEF SameService, SameHandles, Stage, Built
<1>5. Progress'
  <2>1. \A i \in 1..Len(gatt') : Stage(gatt'[i], srv, db)
    BY <1>1, <1>2 DEF Progress, Service
  <2>2. ASSUME \A i \in 1..Len(gatt') : gatt'[i].kind \notin Builders
        PROVE  Ended(srv', db')
    <3>1. \A i \in 1..Len(gatt) : gatt[i].kind \notin Builders BY <1>2, <2>2
    <3> QED BY <1>1, <1>3, <3>1 DEF Progress, Service, SameService
  <2>3. \A i \in 1..Len(gatt') : Stage(gatt'[i], srv', db') BY <1>4, <2>1
  <2> QED BY <2>2, <2>3 DEF Progress
<1>6. OneAnswer'
  <2> SUFFICES ASSUME NEW i \in 1..Len(gatt'), NEW j \in 1..Len(gatt'),
                      gatt'[i].kind \in Builders, gatt'[j].kind \in Builders
               PROVE  i = j
    BY DEF OneAnswer
  <2>1. i + 1 = j + 1 BY <1>2 DEF Service, OneAnswer
  <2> QED BY <2>1
<1>7. Table' /\ Entries'
  BY DEF Service, SameService, SameHandles, Table, Entries
<1> QED BY <1>1, <1>5, <1>6, <1>7 DEF Service

LEMMA ServicePosted ==
  ASSUME Messages, Service, SameService, stack = "on",
         NEW e \in Events, gatt' = Append(gatt, e), e.kind \notin Builders
  PROVE  Service'
<1>1. /\ Len(gatt') = Len(gatt) + 1 /\ Len(gatt) \in Nat
      /\ \A i \in 1..Len(gatt) : i \in 1..Len(gatt') /\ gatt'[i] = gatt[i]
      /\ \A i \in 1..Len(gatt') : i \in 1..Len(gatt) \/ i = Len(gatt')
      /\ gatt'[Len(gatt')] = e
  BY DEF Messages
<1>2. Ended(srv', db') <=> Ended(srv, db)
  BY DEF SameService, SameHandles, Ended, Built, Stopped
<1>3. ASSUME NEW f PROVE Stage(f, srv', db') = Stage(f, srv, db)
  BY DEF SameService, SameHandles, Stage, Built
<1>4. Stage(e, srv, db) BY DEF Stage, Builders
<1>5. Progress'
  <2>1. \A i \in 1..Len(gatt') : Stage(gatt'[i], srv, db)
    BY <1>1, <1>4 DEF Progress, Service
  <2>2. ASSUME \A i \in 1..Len(gatt') : gatt'[i].kind \notin Builders
        PROVE  Ended(srv', db')
    <3>1. \A i \in 1..Len(gatt) : gatt[i].kind \notin Builders BY <1>1, <2>2
    <3> QED BY <1>2, <3>1 DEF Progress, Service, SameService
  <2>3. \A i \in 1..Len(gatt') : Stage(gatt'[i], srv', db') BY <1>3, <2>1
  <2> QED BY <2>2, <2>3 DEF Progress
<1>6. OneAnswer'
  <2> SUFFICES ASSUME NEW i \in 1..Len(gatt'), NEW j \in 1..Len(gatt'),
                      gatt'[i].kind \in Builders, gatt'[j].kind \in Builders
               PROVE  i = j
    BY DEF OneAnswer
  <2>1. i \in 1..Len(gatt) /\ j \in 1..Len(gatt) BY <1>1
  <2> QED BY <1>1, <2>1 DEF Service, OneAnswer
<1>7. Table' /\ Entries'
  BY DEF Service, SameService, SameHandles, Table, Entries
<1> QED BY <1>5, <1>6, <1>7 DEF Service, SameService

(* The answer is handled; it was the only one.                             *)
LEMMA OnlyAnswer ==
  ASSUME Messages, Service, gatt # <<>>, Head(gatt).kind \in Builders
  PROVE  /\ stack = "on" /\ Stage(Head(gatt), srv, db)
         /\ Tail(gatt) \in Seq(Events) /\ Len(Tail(gatt)) \in Nat
         /\ \A i \in 1..Len(Tail(gatt)) : Tail(gatt)[i].kind \notin Builders
<1>1. stack = "on" BY DEF Service
<1>2. /\ Len(gatt) \in Nat /\ 1 \in 1..Len(gatt) /\ Head(gatt) = gatt[1]
      /\ Tail(gatt) \in Seq(Events) /\ Len(Tail(gatt)) \in Nat
      /\ \A i \in 1..Len(Tail(gatt)) :
           i + 1 \in 1..Len(gatt) /\ Tail(gatt)[i] = gatt[i + 1] /\ i + 1 # 1
  BY DEF Messages
<1>3. Stage(Head(gatt), srv, db) BY <1>1, <1>2 DEF Service, Progress
<1>4. ASSUME NEW i \in 1..Len(Tail(gatt)), Tail(gatt)[i].kind \in Builders
      PROVE  FALSE
  BY <1>2, <1>4 DEF Service, OneAnswer
<1> QED BY <1>1, <1>2, <1>3, <1>4

LEMMA ServiceNext ==
  ASSUME Messages, Service, gatt # <<>>, Head(gatt).kind \in Builders,
         NEW e \in Events, gatt' = Append(Tail(gatt), e), e.kind \in Builders,
         stack' = stack, Table', Entries', Stage(e, srv', db')
  PROVE  Service'
<1> DEFINE q == Tail(gatt)
<1>1. /\ stack = "on" /\ q \in Seq(Events) /\ Len(q) \in Nat
      /\ \A i \in 1..Len(q) : q[i].kind \notin Builders
  BY OnlyAnswer
<1> HIDE DEF q
<1>2. /\ Len(gatt') = Len(q) + 1 /\ gatt'[Len(q) + 1] = e
      /\ \A i \in 1..Len(gatt') : i # Len(q) + 1 => (i \in 1..Len(q) /\ gatt'[i] = q[i])
  <2>1. gatt' = Append(q, e) BY DEF q
  <2>2. /\ Len(gatt') = Len(q) + 1 /\ gatt'[Len(q) + 1] = e
        /\ \A i \in 1..Len(q) : gatt'[i] = q[i]
    BY <1>1, <2>1, Appended
  <2> QED BY <1>1, <2>2
<1>3. \A i \in 1..Len(gatt') : gatt'[i].kind \in Builders => i = Len(q) + 1
  BY <1>1, <1>2
<1>4. OneAnswer' BY <1>3 DEF OneAnswer
<1>5. Progress'
  <2>1. ASSUME NEW i \in 1..Len(gatt') PROVE Stage(gatt'[i], srv', db')
    <3>1. CASE i = Len(q) + 1 BY <1>2, <3>1
    <3>2. CASE i # Len(q) + 1
      <4>1. gatt'[i].kind \notin Builders BY <1>3, <3>2
      <4> QED BY <4>1 DEF Stage, Builders
    <3> QED BY <3>1, <3>2
  <2>2. Len(q) + 1 \in 1..Len(gatt') BY <1>1, <1>2
  <2> QED BY <1>2, <2>1, <2>2 DEF Progress
<1> QED BY <1>1, <1>4, <1>5 DEF Service

LEMMA ServiceEnds ==
  ASSUME Messages, Service, gatt # <<>>, Head(gatt).kind \in Builders,
         gatt' = Tail(gatt), stack' = stack, Table', Entries', Ended(srv', db')
  PROVE  Service'
<1>1. /\ stack = "on" /\ \A i \in 1..Len(gatt') : gatt'[i].kind \notin Builders
  BY OnlyAnswer
<1>2. Progress' BY <1>1 DEF Progress, Stage, Builders
<1>3. OneAnswer' BY <1>1 DEF OneAnswer
<1> QED BY <1>1, <1>2, <1>3 DEF Service

(* The stack refuses the next step: what there is stays as it is.          *)
LEMMA ServiceStops ==
  ASSUME Messages, Service, gatt # <<>>, Head(gatt).kind \in Builders,
         gatt' = Tail(gatt), stack' = stack, db' = db, Table',
         NEW s, IsSrv(s), srv'.char_handle = s.char_handle,
         srv'.descr_handle = s.descr_handle, Stopped(srv'),
         NEW n \in 0..NumChars, NEW m \in 0..NumChars,
         m <= n, n <= m + 1, Len(db) = n + m, Built(s, n, m)
  PROVE  Service'
<1>1. Entries' BY DEF Service, Entries
<1>2. Built(srv', n, m) BY DEF Built
<1>3. Ended(srv', db') BY <1>2 DEF Ended
<1> QED BY <1>1, <1>3, ServiceEnds

(* Each answer adds what comes next.                                       *)
LEMMA EntryAdded ==
  ASSUME Table, Entries, NEW k \in Chars, NEW what \in {"char", "descr"},
         db' = Append(db, <<what, k>>),
         Len(db) + 1 = IF what = "char" THEN 2 * k - 1 ELSE 2 * k
  PROVE  Entries' /\ Len(db') = Len(db) + 1 /\ db' \in Seq({"char", "descr"} \X Chars)
<1> DEFINE a == <<what, k>>
<1>1. db \in Seq({"char", "descr"} \X Chars) /\ a \in {"char", "descr"} \X Chars
  BY DEF Table
<1> HIDE DEF a
<1>2. /\ Len(db') = Len(db) + 1 /\ db'[Len(db) + 1] = a /\ Len(db) \in Nat
      /\ \A i \in 1..Len(db) : db'[i] = db[i]
      /\ db' \in Seq({"char", "descr"} \X Chars)
  BY <1>1 DEF a
<1>3. ASSUME NEW i \in Chars, 2 * i - 1 <= Len(db') PROVE db'[2 * i - 1] = <<"char", i>>
  <2>1. i \in Nat \ {0} /\ k \in Nat \ {0} BY NumCharsIs
  <2>2. CASE 2 * i - 1 <= Len(db)
    <3>1. 2 * i - 1 \in 1..Len(db) BY <1>2, <2>1, <2>2
    <3> QED BY <1>2, <2>2, <3>1 DEF Entries
  <2>3. CASE ~(2 * i - 1 <= Len(db))
    <3>1. 2 * i - 1 = Len(db) + 1 BY <1>2, <1>3, <2>1, <2>3
    <3>2. what = "char" /\ i = k BY <2>1, <3>1
    <3> QED BY <1>2, <3>1, <3>2 DEF a
  <2> QED BY <2>2, <2>3
<1>4. ASSUME NEW i \in Chars, 2 * i <= Len(db') PROVE db'[2 * i] = <<"descr", i>>
  <2>1. i \in Nat \ {0} /\ k \in Nat \ {0} BY NumCharsIs
  <2>2. CASE 2 * i <= Len(db)
    <3>1. 2 * i \in 1..Len(db) BY <1>2, <2>1, <2>2
    <3> QED BY <1>2, <2>2, <3>1 DEF Entries
  <2>3. CASE ~(2 * i <= Len(db))
    <3>1. 2 * i = Len(db) + 1
      <4>1. 2 * i \in Nat /\ 2 * i <= Len(db) + 1 BY <1>2, <1>4, <2>1
      <4> QED BY <1>2, <2>3, <4>1
    <3>2. what = "descr" /\ i = k BY <2>1, <3>1
    <3> QED BY <1>2, <3>1, <3>2 DEF a
  <2> QED BY <2>2, <2>3
<1> QED BY <1>2, <1>3, <1>4 DEF Entries

LEMMA BuilderTaken ==
  ASSUME Messages, Service, NEW kind \in Builders, TakeGatt(kind)
  PROVE  /\ gatt # <<>> /\ Head(gatt).kind = kind /\ Head(gatt).kind \notin Content
         /\ Stage(Head(gatt), srv, db) /\ stack = "on"
BY OnlyAnswer DEF TakeGatt, Builders, Content

LEMMA RegKeeps ==
  ASSUME Messages, Service, RegEvt
  PROVE  /\ Service' /\ Head(gatt).kind \notin Content /\ gatt # <<>>
         /\ \/ gatt' = Tail(gatt)
            \/ \E e \in Other : e.kind \in Builders /\ gatt' = Append(Tail(gatt), e)
<1> DEFINE e == Ev("CREATE")
<1>1. TakeGatt("REG") /\ stack' = stack /\ db' = db
  BY DEF RegEvt, stacked
<1>2. /\ gatt # <<>> /\ Head(gatt).kind = "REG" /\ Head(gatt).kind \notin Content
      /\ Stage(Head(gatt), srv, db)
  BY <1>1, BuilderTaken DEF Builders
<1>3. e \in Other /\ e \in Events /\ e.kind = "CREATE"
  BY OtherEvents, OthersAreNoMessages DEF Ev, OtherKinds
<1>4. IsSrv(srv) /\ db = <<>> /\ Len(db) = 0 /\ Built(srv, 0, 0)
  BY <1>2 DEF Stage, Service, Table
<1>5. CASE \E accepted : Configure(srv, accepted) /\ gatt' = Append(Tail(gatt), e)
  <2> HIDE DEF e
  <2>1. IsSrv(srv') /\ SameHandles(srv', srv)
    BY <1>4, <1>5, ConfigureChanges
  <2>2. Stage(e, srv', db')
    BY <1>1, <1>3, <1>4, <2>1 DEF Stage, Built, SameHandles
  <2>3. Table' /\ Entries' BY <1>1, <2>1 DEF Service, Table, Entries, SameHandles
  <2>4. Service' BY <1>1, <1>2, <1>3, <1>5, <2>2, <2>3, ServiceNext DEF Builders
  <2> QED BY <1>2, <1>3, <1>5, <2>4 DEF Builders
<1>6. CASE \E accepted : Configure(Halted(srv), accepted) /\ gatt' = Tail(gatt)
  <2>1. IsSrv(srv') /\ SameHandles(srv', Halted(srv))
    BY <1>4, <1>6, HaltedIs, ConfigureChanges
  <2>2. /\ srv'.char_handle = srv.char_handle /\ srv'.descr_handle = srv.descr_handle
        /\ Stopped(srv')
    BY <1>4, <2>1, HaltedIs DEF SameHandles, Stopped
  <2>3. Table' BY <1>1, <2>1, <2>2 DEF Service, Table
  <2>4. 0 \in 0..NumChars /\ 0 <= 0 + 1 /\ 0 + 0 = 0 BY NumCharsIs
  <2>5. Service'
    BY <1>1, <1>2, <1>4, <1>6, <2>2, <2>3, <2>4, ServiceStops DEF Builders
  <2> QED BY <1>2, <1>6, <2>5
<1> QED BY <1>5, <1>6 DEF RegEvt

LEMMA CreateKeeps ==
  ASSUME Messages, Service, CreateEvt
  PROVE  /\ Service' /\ Head(gatt).kind \notin Content /\ gatt # <<>>
         /\ \/ gatt' = Tail(gatt)
            \/ \E e \in Other : e.kind \in Builders /\ gatt' = Append(Tail(gatt), e)
<1> DEFINE e == EvOf("ADD_CHAR", Len(db) + 1)
<1>1. TakeGatt("CREATE") /\ stack' = stack
  BY DEF CreateEvt, stacked
<1>2. /\ gatt # <<>> /\ Head(gatt).kind = "CREATE" /\ Head(gatt).kind \notin Content
      /\ Stage(Head(gatt), srv, db)
  BY <1>1, BuilderTaken DEF Builders
<1>3. IsSrv(srv) /\ db = <<>> /\ Built(srv, 0, 0) /\ Len(db) = 0
  BY <1>2 DEF Stage, Service, Table
<1>4. e \in Other /\ e \in Events /\ e.kind = "ADD_CHAR" /\ e.arg = 1
  BY <1>3, OtherEvents, OthersAreNoMessages DEF EvOf, OtherKinds
<1>5. CASE /\ gatt' = Append(Tail(gatt), e) /\ srv' = srv
           /\ db' = Append(db, <<"char", 1>>)
  <2> HIDE DEF e
  <2>1. 1 \in Chars BY NumCharsIs DEF Chars
  <2>2. Entries' /\ Len(db') = 1 /\ db' \in Seq({"char", "descr"} \X Chars)
    BY <1>3, <1>5, <2>1, EntryAdded DEF Service
  <2>3. 2 * 1 - 1 = 1 /\ 1 - 1 = 0 OBVIOUS
  <2>4. Stage(e, srv', db')
    BY <1>3, <1>4, <1>5, <2>1, <2>2, <2>3 DEF Stage
  <2>5. Table' BY <1>5, <2>2 DEF Service, Table
  <2>6. Service' BY <1>1, <1>2, <1>4, <1>5, <2>2, <2>4, <2>5, ServiceNext DEF Builders
  <2> QED BY <1>2, <1>4, <1>5, <2>6 DEF Builders
<1>6. CASE gatt' = Tail(gatt) /\ srv' = Halted(srv) /\ db' = db
  <2>1. Table' BY <1>3, <1>6, HaltedIs DEF Service, Table
  <2>2. 0 \in 0..NumChars /\ 0 <= 0 + 1 /\ 0 + 0 = 0 BY NumCharsIs
  <2>3. Service'
    BY <1>1, <1>2, <1>3, <1>6, <2>1, <2>2, HaltedIs, ServiceStops DEF Builders
  <2> QED BY <1>2, <1>6, <2>3
<1> QED BY <1>5, <1>6 DEF CreateEvt, Adds

LEMMA AddCharKeeps ==
  ASSUME Messages, Service, AddCharEvt
  PROVE  /\ Service' /\ Head(gatt).kind \notin Content /\ gatt # <<>>
         /\ \/ gatt' = Tail(gatt)
            \/ \E e \in Other : e.kind \in Builders /\ gatt' = Append(Tail(gatt), e)
<1> DEFINE e == EvOf("ADD_CHAR_DESCR", Len(db) + 1)
           h == Head(gatt).arg
           i == db[h][2]
           s == [srv EXCEPT !.char_handle[i] = h]
<1>1. /\ TakeGatt("ADD_CHAR") /\ stack' = stack
      /\ Adds(s, Tail(gatt), <<"descr", i>>, "ADD_CHAR_DESCR")
  BY DEF AddCharEvt, stacked
<1>2. /\ gatt # <<>> /\ Head(gatt).kind = "ADD_CHAR" /\ Head(gatt).kind \notin Content
      /\ Stage(Head(gatt), srv, db)
  BY <1>1, BuilderTaken DEF Builders
<1>3. PICK k \in Chars : h = 2 * k - 1 /\ Len(db) = 2 * k - 1 /\ Built(srv, k - 1, k - 1)
  BY <1>2 DEF Stage
<1>4. k \in Nat \ {0} /\ k <= NumChars /\ NumChars \in Nat BY NumCharsIs
<1>5. e \in Other /\ e \in Events /\ e.kind = "ADD_CHAR_DESCR" /\ e.arg = 2 * k
  <2>1. Len(db) + 1 = 2 * k /\ Len(db) + 1 \in Nat BY <1>3, <1>4
  <2> QED BY <2>1, OtherEvents, OthersAreNoMessages DEF EvOf, OtherKinds
<1>6. i = k
  <2>1. db[h] = <<"char", k>> BY <1>3, <1>4 DEF Service, Entries
  <2> QED BY <2>1
<1>7. \/ /\ gatt' = Append(Tail(gatt), e) /\ srv' = s
         /\ db' = Append(db, <<"descr", k>>)
      \/ gatt' = Tail(gatt) /\ srv' = Halted(s) /\ db' = db
  BY <1>1, <1>6 DEF Adds
<1>8. s = [srv EXCEPT !.char_handle[k] = 2 * k - 1] BY <1>3, <1>6
<1> HIDE DEF e, h, i, s
<1>9. /\ IsSrv(s) /\ s.descr_handle = srv.descr_handle
      /\ s.char_handle = [srv.char_handle EXCEPT ![k] = 2 * k - 1]
  BY <1>8 DEF Service, Table, IsSrv, SrvFields
<1>10. s.char_handle \in [Chars -> Nat] /\ Built(s, k, k - 1)
  <2>1. s.char_handle \in [Chars -> Nat] BY <1>4, <1>9 DEF Service, Table
  <2>2. \A j \in Chars : s.char_handle[j] = IF j = k THEN 2 * k - 1 ELSE srv.char_handle[j]
    BY <1>9 DEF Service, Table
  <2>3. Built(s, k, k - 1) BY <1>3, <1>4, <1>9, <2>2, NumCharsIs DEF Built
  <2> QED BY <2>1, <2>3
<1>11. CASE /\ gatt' = Append(Tail(gatt), e) /\ srv' = s
            /\ db' = Append(db, <<"descr", k>>)
  <2>1. Len(db) + 1 = 2 * k BY <1>3, <1>4
  <2>2. Entries' /\ Len(db') = 2 * k /\ db' \in Seq({"char", "descr"} \X Chars)
    BY <1>11, <2>1, EntryAdded DEF Service
  <2>3. Table' BY <1>9, <1>10, <1>11, <2>2 DEF Service, Table
  <2>4. Stage(e, srv', db') BY <1>5, <1>10, <1>11, <2>2 DEF Stage
  <2>5. Service' BY <1>1, <1>2, <1>5, <1>11, <2>2, <2>3, <2>4, ServiceNext DEF Builders
  <2> QED BY <1>2, <1>5, <1>11, <2>5 DEF Builders
<1>12. CASE gatt' = Tail(gatt) /\ srv' = Halted(s) /\ db' = db
  <2>1. Table' BY <1>9, <1>10, <1>12, HaltedIs DEF Service, Table
  <2>2. /\ k \in 0..NumChars /\ k - 1 \in 0..NumChars /\ k - 1 <= k /\ k <= (k - 1) + 1
        /\ Len(db) = k + (k - 1)
    BY <1>3, <1>4
  <2>3. Service'
    BY <1>1, <1>2, <1>9, <1>10, <1>12, <2>1, <2>2, HaltedIs, ServiceStops DEF Builders
  <2> QED BY <1>2, <1>12, <2>3
<1> QED BY <1>7, <1>11, <1>12

(* The descriptor goes to the first characteristic without one, and that   *)
(* is the last one added; the next is the first one without a handle.      *)
LEMMA FirstIs ==
  ASSUME NEW S \in SUBSET Nat, NEW k \in S, \A j \in S : k <= j
  PROVE  First(S) = k
<1>1. \A i \in S : (\A j \in S : i <= j) => i = k OBVIOUS
<1> QED BY <1>1 DEF First

LEMMA AddDescrKeeps ==
  ASSUME Messages, Service, AddDescrEvt
  PROVE  /\ Service' /\ Head(gatt).kind \notin Content /\ gatt # <<>>
         /\ \/ gatt' = Tail(gatt)
            \/ \E e \in Other : e.kind \in Builders /\ gatt' = Append(Tail(gatt), e)
<1> DEFINE h == Head(gatt).arg
           s == WithDescr(h)
<1>1. TakeGatt("ADD_CHAR_DESCR") /\ stack' = stack
  BY DEF AddDescrEvt, stacked
<1>2. /\ gatt # <<>> /\ Head(gatt).kind = "ADD_CHAR_DESCR"
      /\ Head(gatt).kind \notin Content /\ Stage(Head(gatt), srv, db)
  BY <1>1, BuilderTaken DEF Builders
<1>3. PICK k \in Chars : h = 2 * k /\ Len(db) = 2 * k /\ Built(srv, k, k - 1)
  BY <1>2 DEF Stage
<1>4. k \in Nat \ {0} /\ k <= NumChars /\ NumChars \in Nat BY NumCharsIs
<1>5. First(Lacking(srv.descr_handle)) = k /\ Lacking(srv.descr_handle) # {}
  <2>1. Lacking(srv.descr_handle) = {i \in Chars : ~(i <= k - 1)}
    BY <1>3, NumCharsIs DEF Lacking, Built
  <2>2. \A i \in {i \in Chars : ~(i <= k - 1)} : k <= i BY <1>4, NumCharsIs
  <2>3. ~(k <= k - 1) BY <1>4
  <2>4. k \in {i \in Chars : ~(i <= k - 1)} BY <2>3
  <2>5. {i \in Chars : ~(i <= k - 1)} \in SUBSET Nat BY NumCharsIs
  <2> QED BY <2>1, <2>2, <2>4, <2>5, FirstIs
<1>6. s = [srv EXCEPT !.descr_handle[k] = h] BY <1>5 DEF WithDescr
<1>7. IF Lacking(srv.char_handle) = {}
      THEN srv' = s /\ gatt' = Tail(gatt) /\ db' = db
      ELSE Adds(s, Tail(gatt), <<"char", First(Lacking(srv.char_handle))>>, "ADD_CHAR")
  BY DEF AddDescrEvt
<1> HIDE DEF s
<1>8. /\ IsSrv(s) /\ s.char_handle = srv.char_handle
      /\ s.descr_handle = [srv.descr_handle EXCEPT ![k] = 2 * k]
  BY <1>3, <1>6 DEF Service, Table, IsSrv, SrvFields
<1>9. Built(s, k, k) /\ s.descr_handle \in [Chars -> Nat]
  <2>1. s.descr_handle \in [Chars -> Nat] BY <1>4, <1>8 DEF Service, Table
  <2>2. \A j \in Chars : s.descr_handle[j] = IF j = k THEN 2 * k ELSE srv.descr_handle[j]
    BY <1>8 DEF Service, Table
  <2>3. Built(s, k, k) BY <1>3, <1>4, <1>8, <2>2, NumCharsIs DEF Built
  <2> QED BY <2>1, <2>3
<1>10. Lacking(srv.char_handle) = {i \in Chars : ~(i <= k)}
  BY <1>3, NumCharsIs DEF Lacking, Built
<1>11. /\ k \in 0..NumChars /\ k <= k + 1 /\ Len(db) = k + k
  BY <1>3, <1>4
<1> HIDE DEF h
<1>12. CASE k = NumChars
  <2>1. Lacking(srv.char_handle) = {} BY <1>10, <1>12, NumCharsIs
  <2>2. srv' = s /\ gatt' = Tail(gatt) /\ db' = db BY <1>7, <2>1
  <2>3. Table' /\ Entries' BY <1>8, <1>9, <2>2 DEF Service, Table, Entries
  <2>4. Ended(srv', db') BY <1>9, <1>11, <1>12, <2>2 DEF Ended
  <2>5. Service' BY <1>1, <1>2, <2>2, <2>3, <2>4, ServiceEnds DEF Builders
  <2> QED BY <1>2, <2>2, <2>5
<1>13. CASE k # NumChars
  <2> DEFINE e == EvOf("ADD_CHAR", Len(db) + 1)
  <2>1. k + 1 \in Chars BY <1>4, <1>13 DEF Chars
  <2>2. First(Lacking(srv.char_handle)) = k + 1 /\ Lacking(srv.char_handle) # {}
    <3>1. \A i \in {i \in Chars : ~(i <= k)} : k + 1 <= i BY <1>4, NumCharsIs
    <3>2. ~(k + 1 <= k) BY <1>4
    <3>3. k + 1 \in {i \in Chars : ~(i <= k)} BY <2>1, <3>2
    <3>4. {i \in Chars : ~(i <= k)} \in SUBSET Nat BY NumCharsIs
    <3> QED BY <1>10, <3>1, <3>3, <3>4, FirstIs
  <2>3. \/ /\ srv' = s /\ db' = Append(db, <<"char", k + 1>>)
           /\ gatt' = Append(Tail(gatt), e)
        \/ srv' = Halted(s) /\ gatt' = Tail(gatt) /\ db' = db
    BY <1>7, <2>2 DEF Adds
  <2>4. /\ 2 * (k + 1) - 1 = Len(db) + 1 /\ Len(db) + 1 \in Nat
        /\ (k + 1) - 1 = k
    BY <1>3, <1>4
  <2>5. e \in Other /\ e \in Events /\ e.kind = "ADD_CHAR" /\ e.arg = 2 * (k + 1) - 1
    BY <2>4, OtherEvents, OthersAreNoMessages DEF EvOf, OtherKinds
  <2> HIDE DEF e
  <2>6. CASE /\ srv' = s /\ db' = Append(db, <<"char", k + 1>>)
             /\ gatt' = Append(Tail(gatt), e)
    <3>1. Entries' /\ Len(db') = 2 * (k + 1) - 1 /\ db' \in Seq({"char", "descr"} \X Chars)
      BY <2>1, <2>4, <2>6, EntryAdded DEF Service
    <3>2. Table' BY <1>8, <1>9, <2>6, <3>1 DEF Service, Table
    <3>3. Stage(e, srv', db') BY <1>9, <2>1, <2>4, <2>5, <2>6, <3>1 DEF Stage
    <3>4. Service' BY <1>1, <1>2, <2>5, <2>6, <3>1, <3>2, <3>3, ServiceNext DEF Builders
    <3> QED BY <1>2, <2>5, <2>6, <3>4 DEF Builders
  <2>7. CASE srv' = Halted(s) /\ gatt' = Tail(gatt) /\ db' = db
    <3>1. Table' BY <1>8, <1>9, <2>7, HaltedIs DEF Service, Table
    <3>2. Service'
      BY <1>1, <1>2, <1>8, <1>9, <1>11, <2>7, <3>1, HaltedIs, ServiceStops DEF Builders
    <3> QED BY <1>2, <2>7, <3>2
  <2> QED BY <2>3, <2>6, <2>7
<1> QED BY <1>12, <1>13

-------------------------------------------------------------------------------
(* The flag.  The last beginning or end of a connection that waits says    *)
(* what there is; when none waits, the flag does, or "bt start" cleared it.*)

LinkKinds == {"CONNECT", "DISCONNECT"}
Says(e, l) ==
  /\ e.kind = "CONNECT" => l # 0 /\ e.arg = l
  /\ e.kind = "DISCONNECT" => l = 0
Told(q, l) ==
  \A i \in 1..Len(q) :
    (\A j \in (i + 1)..Len(q) : q[j].kind \notin LinkKinds) => Says(q[i], l)
Untold(q) == \A i \in 1..Len(q) : q[i].kind \notin LinkKinds
Right(s, l) ==
  /\ l # 0 => (Up(s) /\ s.conn_id = l)
  /\ l = 0 => Down(s)
Flags ==
  /\ Told(gatt, link) /\ (stack # "on" => link = 0)
  /\ stack = "on" /\ Untold(gatt) => Repeated(srv) \/ Right(srv, link)

SameFlags == UNCHANGED <<stack, link>> /\ SameLink(srv', srv)

LEMMA FlagsSame ==
  ASSUME Flags, SameFlags, gatt' = gatt
  PROVE  Flags'
<1>1. Right(srv', link) = Right(srv, link) /\ Repeated(srv') = Repeated(srv)
  BY DEF SameFlags, SameLink, Right, Repeated, Up, Down
<1> QED BY <1>1 DEF Flags, SameFlags

(* An event less, an event more.                                           *)
LEMMA TailTells ==
  ASSUME NEW q \in Seq(Events), q # <<>>, NEW l, Told(q, l)
  PROVE  /\ Told(Tail(q), l)
         /\ Untold(Tail(q)) => Says(Head(q), l)
         /\ Head(q).kind \notin LinkKinds => (Untold(Tail(q)) <=> Untold(q))
<1> DEFINE r == Tail(q)
<1>1. /\ Len(r) = Len(q) - 1 /\ Len(q) \in Nat \ {0} /\ Head(q) = q[1]
      /\ \A i \in 1..Len(r) : r[i] = q[i + 1]
  BY HeadTailProperties
<1> HIDE DEF r
<1>2. \A i \in 1..Len(r) : i + 1 \in 1..Len(q) BY <1>1
<1>3. ASSUME NEW i \in 1..Len(q), i # 1
      PROVE  i - 1 \in 1..Len(r) /\ r[i - 1] = q[i]
  <2>1. i - 1 \in 1..Len(r) /\ (i - 1) + 1 = i BY <1>1, <1>3
  <2>2. r[i - 1] = q[(i - 1) + 1] BY <1>1, <2>1
  <2> QED BY <2>1, <2>2
<1>4. ASSUME NEW i \in 1..Len(r), \A j \in (i + 1)..Len(r) : r[j].kind \notin LinkKinds
      PROVE  Says(r[i], l)
  <2>1. ASSUME NEW j \in ((i + 1) + 1)..Len(q) PROVE q[j].kind \notin LinkKinds
    <3>1. j \in 1..Len(q) /\ j # 1 /\ j - 1 \in (i + 1)..Len(r) BY <1>1
    <3>2. r[j - 1] = q[j] BY <1>3, <3>1
    <3> QED BY <1>4, <3>1, <3>2
  <2>2. i + 1 \in 1..Len(q) /\ r[i] = q[i + 1] BY <1>1, <1>2
  <2> QED BY <2>1, <2>2 DEF Told
<1>5. ASSUME Untold(r) PROVE Says(Head(q), l)
  <2>1. ASSUME NEW j \in (1 + 1)..Len(q) PROVE q[j].kind \notin LinkKinds
    <3>1. j \in 1..Len(q) /\ j # 1 BY <1>1
    <3> QED BY <1>3, <1>5, <3>1 DEF Untold
  <2>2. 1 \in 1..Len(q) BY <1>1
  <2> QED BY <1>1, <2>1, <2>2 DEF Told
<1>6. Head(q).kind \notin LinkKinds => (Untold(r) <=> Untold(q))
  BY <1>1, <1>2, <1>3 DEF Untold
<1> QED BY <1>4, <1>5, <1>6 DEF Told, r

LEMMA AppendTells ==
  ASSUME NEW q \in Seq(Events), NEW e \in Events, NEW l, NEW l2,
         IF e.kind \in LinkKinds THEN Says(e, l2) ELSE l2 = l /\ Told(q, l)
  PROVE  /\ Told(Append(q, e), l2)
         /\ Untold(Append(q, e)) <=> (Untold(q) /\ e.kind \notin LinkKinds)
<1> DEFINE r == Append(q, e)
           n == Len(q) + 1
<1>1. /\ Len(r) = n /\ Len(q) \in Nat /\ r[n] = e
      /\ \A i \in 1..Len(q) : r[i] = q[i]
  BY Appended
<1> HIDE DEF r
<1>2. ASSUME NEW i \in 1..Len(r), \A j \in (i + 1)..Len(r) : r[j].kind \notin LinkKinds
      PROVE  Says(r[i], l2)
  <2>1. CASE e.kind \in LinkKinds
    <3>1. i = n
      <4> SUFFICES ASSUME i # n PROVE FALSE OBVIOUS
      <4>1. n \in (i + 1)..Len(r) BY <1>1
      <4> QED BY <1>1, <1>2, <2>1, <4>1
    <3> QED BY <1>1, <2>1, <3>1
  <2>2. CASE e.kind \notin LinkKinds /\ i = n
    BY <1>1, <2>2 DEF Says, LinkKinds
  <2>3. CASE e.kind \notin LinkKinds /\ i # n
    <3>1. i \in 1..Len(q) BY <1>1, <2>3
    <3>2. ASSUME NEW j \in (i + 1)..Len(q) PROVE q[j].kind \notin LinkKinds
      <4>1. j \in (i + 1)..Len(r) /\ j \in 1..Len(q) BY <1>1
      <4> QED BY <1>1, <1>2, <4>1
    <3> QED BY <1>1, <2>3, <3>1, <3>2 DEF Told
  <2> QED BY <2>1, <2>2, <2>3
<1>3. Untold(r) <=> (Untold(q) /\ e.kind \notin LinkKinds)
  <2>1. n \in 1..Len(r) /\ \A i \in 1..Len(q) : i \in 1..Len(r) BY <1>1
  <2>2. \A i \in 1..Len(r) : i = n \/ i \in 1..Len(q) BY <1>1
  <2> QED BY <1>1, <2>1, <2>2 DEF Untold
<1> QED BY <1>2, <1>3 DEF Told, r

LEMMA FlagsTaken ==
  ASSUME Messages, Flags, SameFlags, gatt # <<>>, Head(gatt).kind \notin LinkKinds,
         \/ gatt' = Tail(gatt)
         \/ \E e \in Events : gatt' = Append(Tail(gatt), e) /\ e.kind \notin LinkKinds
  PROVE  Flags'
<1> DEFINE q == Tail(gatt)
<1>1. q \in Seq(Events) /\ Told(q, link) /\ (Untold(q) <=> Untold(gatt))
  BY TailTells DEF Messages, Flags
<1>2. Told(gatt', link) /\ (Untold(gatt') <=> Untold(gatt))
  <2> HIDE DEF q
  <2>1. CASE gatt' = q BY <1>1, <2>1
  <2>2. CASE \E e \in Events : gatt' = Append(q, e) /\ e.kind \notin LinkKinds
    <3>1. PICK e \in Events : gatt' = Append(q, e) /\ e.kind \notin LinkKinds BY <2>2
    <3> QED BY <1>1, <3>1, AppendTells
  <2> QED BY <2>1, <2>2 DEF q
<1>3. Right(srv', link) = Right(srv, link) /\ Repeated(srv') = Repeated(srv)
  BY DEF SameFlags, SameLink, Right, Repeated, Up, Down
<1> QED BY <1>2, <1>3 DEF Flags, SameFlags

LEMMA FlagsPosted ==
  ASSUME Messages, Flags, NEW e \in Events, gatt' = Append(gatt, e), stack' = stack,
         stack = "on", srv' = srv,
         IF e.kind \in LinkKinds THEN Says(e, link') ELSE link' = link
  PROVE  Flags'
<1>1. Told(gatt', link') /\ (Untold(gatt') <=> Untold(gatt) /\ e.kind \notin LinkKinds)
  BY AppendTells DEF Messages, Flags
<1> QED BY <1>1 DEF Flags

LEMMA FlagsHandled ==
  ASSUME Messages, Flags, gatt # <<>>, gatt' = Tail(gatt), UNCHANGED <<stack, link>>,
         Says(Head(gatt), link) => Right(srv', link)
  PROVE  Flags'
<1>1. Told(gatt', link) /\ (Untold(gatt') => Says(Head(gatt), link))
  BY TailTells DEF Messages, Flags
<1> QED BY <1>1 DEF Flags

-------------------------------------------------------------------------------
(* Starting and stopping, as a server.                                     *)

LEMMA StackOff ==
  ASSUME stack' = "off", gatt' = <<>>, db' = <<>>, link' = 0, IsSrv(srv'),
         srv'.char_handle \in [Chars -> Nat], srv'.descr_handle \in [Chars -> Nat]
  PROVE  Service' /\ Flags'
<1>1. Len(gatt') = 0 /\ Len(db') = 0 OBVIOUS
<1>2. Table' BY DEF Table
<1>3. Entries' /\ OneAnswer' BY <1>1, NumCharsIs DEF Entries, OneAnswer
<1>4. Told(gatt', link') BY <1>1 DEF Told
<1> QED BY <1>2, <1>3, <1>4 DEF Service, Flags

LEMMA RebootKeeps == ASSUME Reboot PROVE Service' /\ Flags'
<1>1. FreshServer.char_handle \in [Chars -> Nat] /\ FreshServer.descr_handle \in [Chars -> Nat]
  BY DEF FreshServer
<1>2. /\ stack' = "off" /\ gatt' = <<>> /\ db' = <<>> /\ link' = 0 /\ srv' = FreshServer
  BY DEF Reboot
<1> QED BY <1>1, <1>2, FreshServerIs, StackOff

LEMMA StopKeeps == ASSUME Service, BtStop PROVE Service' /\ Flags'
<1>1. /\ stack' = "off" /\ gatt' = <<>> /\ db' = <<>> /\ link' = 0
      /\ srv' = Disconnected(srv) \/ srv' = srv
  BY DEF BtStop
<1>2. IsSrv(srv') /\ SameHandles(srv', srv)
  BY <1>1, DisconnectedIs DEF Service, Table, SameHandles
<1>3. srv'.char_handle \in [Chars -> Nat] /\ srv'.descr_handle \in [Chars -> Nat]
  BY <1>2 DEF Service, Table, SameHandles
<1> QED BY <1>1, <1>2, <1>3, StackOff

LEMMA InitRefusedKeeps ==
  ASSUME build = "server", Service, Flags, InitRefused
  PROVE  Service' /\ Flags'
<1>1. /\ srv' = [Begun EXCEPT !.repeated = link # 0]
      /\ stack' = stack /\ gatt' = gatt /\ link' = link /\ db' = db
  BY DEF InitRefused, events
<1>2. /\ IsSrv(srv') /\ SameHandles(srv', srv) /\ Down(srv')
      /\ link # 0 => Repeated(srv')
  BY <1>1, RefusedIs DEF Service, Table
<1>3. Service' BY <1>1, <1>2, ServiceSame DEF SameService
<1>4. Repeated(srv') \/ Right(srv', link) BY <1>2 DEF Right
<1> QED BY <1>1, <1>3, <1>4 DEF Flags

LEMMA InitFailsKeeps ==
  ASSUME Service, Flags, InitFails
  PROVE  Service' /\ Flags'
<1>1. /\ srv' = Begun /\ stack = "off" /\ stack' = "part"
      /\ gatt' = gatt /\ link' = link /\ db' = db
  BY DEF InitFails, events
<1>2. IsSrv(srv') /\ SameHandles(srv', srv)
  BY <1>1, BegunIs DEF Service, Table
<1>3. Table' /\ Entries' /\ OneAnswer'
  BY <1>1, <1>2 DEF Service, Table, Entries, OneAnswer, SameHandles
<1>4. Service' BY <1>1, <1>3 DEF Service
<1>5. Flags' BY <1>1 DEF Flags
<1> QED BY <1>4, <1>5

LEMMA InitSucceedsKeeps ==
  ASSUME build = "server", Service, Flags, InitSucceeds
  PROVE  Service' /\ Flags'
<1>1. /\ stack = "off" /\ stack' = "on" /\ link' = link /\ link = 0
      /\ db' = db /\ db = <<>> /\ gatt' = <<Ev("REG")>>
      /\ srv' = [ServiceInfo(Begun) EXCEPT !.refused = FALSE, !.repeated = FALSE,
                                           !.late = FALSE, !.halted = FALSE]
  BY DEF InitSucceeds, Service, Flags
<1>2. /\ IsSrv(srv') /\ Down(srv')
      /\ \A i \in Chars : srv'.char_handle[i] = 0 /\ srv'.descr_handle[i] = 0
  BY <1>1, StartedIs DEF Service, Table
<1>3. /\ srv'.char_handle = FreshServer.char_handle
      /\ srv'.descr_handle = FreshServer.descr_handle
  BY <1>1, BegunIs DEF Service, Table, ServiceInfo, IsSrv, SrvFields
<1>4. /\ srv'.char_handle \in [Chars -> Nat] /\ srv'.descr_handle \in [Chars -> Nat]
  BY <1>3 DEF FreshServer
<1>5. Len(gatt') = 1 /\ gatt'[1].kind = "REG" /\ Len(db') = 0 BY <1>1 DEF Ev
<1>6. \A i \in 1..Len(gatt') : i = 1 BY <1>5
<1>7. Table' /\ Entries'
  BY <1>1, <1>2, <1>4, <1>5, NumCharsIs DEF Table, Entries
<1>8. OneAnswer' BY <1>6 DEF OneAnswer
<1>9. Built(srv', 0, 0) BY <1>2, NumCharsIs DEF Built
<1>10. Progress'
  BY <1>1, <1>5, <1>6, <1>9 DEF Progress, Stage, Builders
<1>11. Service' BY <1>1, <1>7, <1>8, <1>10 DEF Service
<1>12. Right(srv', link') BY <1>1, <1>2 DEF Right
<1>13. Told(gatt', link') BY <1>5, <1>6 DEF Told, Says
<1> QED BY <1>1, <1>11, <1>12, <1>13 DEF Flags

-------------------------------------------------------------------------------
(* The steps of a server: its handlers, its program and its peers.         *)

Kept == Messages' /\ Quiet' /\ Order /\ Service' /\ Flags'

LEMMA BuildersAreOthers ==
  /\ \A kind \in Builders : kind \notin LinkKinds /\ kind \notin Content
  /\ \A kind \in LinkKinds : kind \notin Builders /\ kind \notin Content
  /\ \A kind \in Content : kind \notin Builders /\ kind \notin LinkKinds
BY DEF Builders, LinkKinds, Content

LEMMA BuilderKeeps ==
  ASSUME Messages, Quiet, Service, Flags,
         RegEvt \/ CreateEvt \/ AddCharEvt \/ AddDescrEvt
  PROVE  Kept
<1>1. PICK kind \in Builders : TakeGatt(kind)
  BY DEF RegEvt, CreateEvt, AddCharEvt, AddDescrEvt, Builders
<1>2. gatt # <<>> /\ Head(gatt).kind \notin LinkKinds /\ Head(gatt).kind \notin Content
  BY <1>1, BuildersAreOthers DEF TakeGatt
<1>3. UNCHANGED <<stack, link, recv, blocked>>
  BY DEF RegEvt, CreateEvt, AddCharEvt, AddDescrEvt, stacked, shared
<1>4. /\ Service'
      /\ \/ gatt' = Tail(gatt)
         \/ \E e \in Other : e.kind \in Builders /\ gatt' = Append(Tail(gatt), e)
  BY RegKeeps, CreateKeeps, AddCharKeeps, AddDescrKeeps
<1>5. Messages' /\ Quiet' /\ Order BY <1>2, <1>3, <1>4, EventTaken
<1>6. SameLink(srv', srv)
  <2>1. IsSrv(srv) BY DEF Service, Table
  <2>2. CASE RegEvt
    <3>1. PICK accepted : Configure(srv, accepted) \/ Configure(Halted(srv), accepted)
      BY <2>2 DEF RegEvt
    <3>2. SameLink(srv', srv) \/ SameLink(srv', Halted(srv))
      BY <2>1, <3>1, HaltedIs, ConfigureChanges
    <3> QED BY <2>1, <3>2, HaltedIs DEF SameLink
  <2>3. ASSUME NEW s, NEW q, NEW attribute, NEW event, IsSrv(s), SameLink(s, srv),
               Adds(s, q, attribute, event)
        PROVE  SameLink(srv', srv)
    BY <2>3, HaltedIs DEF Adds, SameLink
  <2>4. CASE CreateEvt BY <2>1, <2>3, <2>4 DEF CreateEvt, SameLink
  <2>5. CASE AddCharEvt
    <3>1. \E i, h, q, a, e : Adds([srv EXCEPT !.char_handle[i] = h], q, a, e)
      BY <2>5 DEF AddCharEvt
    <3>2. \A i, h : /\ IsSrv([srv EXCEPT !.char_handle[i] = h])
                    /\ SameLink([srv EXCEPT !.char_handle[i] = h], srv)
      BY <2>1 DEF SameLink, IsSrv, SrvFields
    <3> QED BY <2>3, <3>1, <3>2
  <2>6. CASE AddDescrEvt
    <3> DEFINE s == WithDescr(Head(gatt).arg)
    <3>1. srv' = s \/ \E q, a, e : Adds(s, q, a, e)
      BY <2>6 DEF AddDescrEvt
    <3>2. IsSrv(s) /\ SameLink(s, srv)
      BY <2>1 DEF WithDescr, SameLink, IsSrv, SrvFields
    <3> QED BY <2>3, <3>1, <3>2
  <2> QED BY <2>2, <2>4, <2>5, <2>6
<1>7. \/ gatt' = Tail(gatt)
      \/ \E e \in Events : gatt' = Append(Tail(gatt), e) /\ e.kind \notin LinkKinds
  BY <1>4, OthersAreNoMessages, BuildersAreOthers
<1>8. Flags' BY <1>2, <1>3, <1>6, <1>7, FlagsTaken DEF SameFlags
<1> QED BY <1>4, <1>5, <1>8 DEF Kept

LEMMA WriteKeeps ==
  ASSUME Messages, Quiet, Service, Flags, WriteEvt
  PROVE  Kept
<1>1. /\ TakeGatt("WRITE") /\ Enqueue(Head(gatt).arg) /\ gatt' = Tail(gatt)
      /\ UNCHANGED <<stack, link, srv, db>>
  BY DEF WriteEvt, stacked, server
<1>2. /\ gatt # <<>> /\ Head(gatt).kind \notin LinkKinds
      /\ Head(gatt).kind \notin Builders /\ "WRITE" \in Content
  BY <1>1, BuildersAreOthers DEF TakeGatt, Content
<1>3. Messages' /\ Quiet' /\ Order BY <1>1, <1>2, MessageDelivered
<1>4. SameService /\ SameFlags
  BY <1>1 DEF SameService, SameFlags, SameHandles, SameLink, Service, Table
<1>5. Service' BY <1>1, <1>2, <1>4, ServiceTaken
<1>6. Flags' BY <1>1, <1>2, <1>4, FlagsTaken
<1> QED BY <1>3, <1>5, <1>6 DEF Kept

LEMMA LinkEvtKeeps ==
  ASSUME Messages, Quiet, Service, Flags, ConnectEvt \/ DisconnectEvt
  PROVE  Kept
<1>1. /\ gatt # <<>> /\ Head(gatt).kind \in LinkKinds /\ gatt' = Tail(gatt)
      /\ UNCHANGED <<stack, link, db, recv, blocked>>
  BY DEF ConnectEvt, DisconnectEvt, TakeGatt, stacked, shared, LinkKinds
<1>2. Head(gatt).kind \notin Builders /\ Head(gatt).kind \notin Content
  BY <1>1, BuildersAreOthers
<1>3. Messages' /\ Quiet' /\ Order BY <1>1, <1>2, EventTaken
<1>4. /\ IsSrv(srv') /\ SameHandles(srv', srv)
      /\ Says(Head(gatt), link) => Right(srv', link)
  <2>1. CASE ConnectEvt
    <3>1. /\ Head(gatt).kind = "CONNECT"
          /\ srv' = [srv EXCEPT !.conn_id = Head(gatt).arg, !.btConnected = TRUE,
                                !.repeated = FALSE]
      BY <2>1 DEF ConnectEvt, TakeGatt
    <3>2. IsSrv(srv') /\ SameHandles(srv', srv) /\ Up(srv') /\ srv'.conn_id = Head(gatt).arg
      BY <3>1, ConnectedIs DEF Service, Table
    <3> QED BY <3>1, <3>2 DEF Says, Right
  <2>2. CASE DisconnectEvt
    <3> DEFINE d == Disconnected(srv)
    <3>1. Head(gatt).kind = "DISCONNECT" /\ \E accepted \in Accepted : Configure(d, accepted)
      BY <2>2 DEF DisconnectEvt, TakeGatt
    <3>2. IsSrv(d) /\ SameHandles(d, srv) /\ Down(d)
      BY DisconnectedIs DEF Service, Table
    <3> HIDE DEF d
    <3>3. IsSrv(srv') /\ SameHandles(srv', d) /\ SameLink(srv', d)
      BY <3>1, <3>2, ConfigureChanges
    <3>4. SameHandles(srv', srv) /\ Down(srv')
      BY <3>2, <3>3 DEF SameHandles, SameLink, Down
    <3> QED BY <3>1, <3>3, <3>4 DEF Says, Right
  <2> QED BY <2>1, <2>2
<1>5. Service' BY <1>1, <1>2, <1>4, ServiceTaken DEF SameService
<1>6. Flags' BY <1>1, <1>4, FlagsHandled
<1> QED BY <1>3, <1>5, <1>6 DEF Kept

LEMMA ServerLeavesEvents ==
  ASSUME Messages, Quiet, Service, Flags,
         ServerGapTurn \/ StartAdv \/ StartAdvNext \/ StartAdvEnds
  PROVE  Kept
<1>1. UNCHANGED <<stack, link, gatt, db, recv, blocked>>
  BY DEF ServerGapTurn, DataSetCompleteEvt, StartAdv, StartAdvNext, StartAdvEnds,
         stacked, shared, server
<1>2. IsSrv(srv) BY DEF Service, Table
<1>3. IsSrv(srv') /\ SameHandles(srv', srv) /\ SameLink(srv', srv)
  <2>1. ASSUME NEW flag, SetFlag(flag)
        PROVE  IsSrv(srv') /\ SameHandles(srv', srv) /\ SameLink(srv', srv)
    <3> DEFINE a == srv.adv_config_done \cup {flag}
               b == srv.late \/ ~\E i \in DOMAIN gap : gap[i].kind = flag
    <3>1. srv' = [srv EXCEPT !.adv_config_done = a, !.late = b]
      BY <2>1 DEF SetFlag
    <3> HIDE DEF a, b
    <3> QED BY <1>2, <3>1, AdvertisingChanges
  <2>2. CASE ServerGapTurn
    <3>1. PICK kind \in {"adv", "rsp"} : DataSetCompleteEvt(kind)
      BY <2>2 DEF ServerGapTurn
    <3> DEFINE a == DataSet(kind)
               b == srv.late /\ a # {}
    <3>2. srv' = [srv EXCEPT !.adv_config_done = a, !.late = b]
      BY <3>1 DEF DataSetCompleteEvt
    <3> HIDE DEF a, b
    <3> QED BY <1>2, <3>2, AdvertisingChanges
  <2>3. CASE StartAdv BY <1>2, <2>3 DEF StartAdv, server, SameHandles, SameLink
  <2>4. CASE StartAdvNext \/ StartAdvEnds
    BY <2>1, <2>4 DEF StartAdvNext, StartAdvEnds
  <2> QED BY <2>2, <2>3, <2>4
<1>4. Messages' /\ Quiet' /\ Order BY <1>1, NothingOnTheWay
<1>5. Service' BY <1>1, <1>3, ServiceSame DEF SameService
<1>6. Flags' BY <1>1, <1>3, FlagsSame DEF SameFlags
<1> QED BY <1>4, <1>5, <1>6 DEF Kept

LEMMA PeerKeeps ==
  ASSUME Messages, Quiet, Service, Flags, ServerPeer
  PROVE  Kept
<1>1. stack = "on" /\ stack' = "on"
  BY DEF ServerPeer, PeerConnects, PeerDisconnects, PeerWrites, Quiet, stacked
<1>2. srv' = srv /\ db' = db
  BY DEF ServerPeer, PeerConnects, PeerDisconnects, PeerWrites, server
<1>3. SameService
  BY <1>1, <1>2 DEF SameService, SameHandles, Service, Table
<1>4. CASE PeerConnects
  <2>1. PICK c \in Conns : link' = c /\ gatt' = Append(gatt, EvOf("CONNECT", c))
    BY <1>4 DEF PeerConnects
  <2> DEFINE e == EvOf("CONNECT", c)
  <2>2. c \in Nat \ {0} BY ServerConstants
  <2>3. e \in Other /\ e.kind = "CONNECT" /\ e.arg = c
    BY <2>2, OtherEvents DEF EvOf, OtherKinds
  <2>4. gatt' = Append(gatt, e) BY <2>1
  <2>5. UNCHANGED <<stack, recv, blocked>> BY <1>4 DEF PeerConnects, shared
  <2> HIDE DEF e
  <2>6. e \in Events /\ e.kind \in LinkKinds /\ e.kind \notin Builders /\ Says(e, link')
    BY <2>1, <2>2, <2>3, OthersAreNoMessages DEF LinkKinds, Builders, Says
  <2>7. Messages' /\ Quiet' /\ Order BY <1>1, <2>1, <2>2, <2>3, <2>4, <2>5, EventPosted
  <2>8. Service' BY <1>1, <1>3, <2>4, <2>6, ServicePosted
  <2>9. Flags' BY <1>1, <1>2, <2>4, <2>6, FlagsPosted
  <2> QED BY <2>7, <2>8, <2>9 DEF Kept
<1>5. CASE PeerDisconnects
  <2> DEFINE e == EvOf("DISCONNECT", link)
  <2>1. link' = 0 /\ gatt' = Append(gatt, e) /\ UNCHANGED <<stack, recv, blocked>>
    BY <1>5 DEF PeerDisconnects, shared
  <2>2. link \in Nat BY DEF Messages
  <2>3. e \in Other /\ e.kind = "DISCONNECT"
    BY <2>2, OtherEvents DEF EvOf, OtherKinds
  <2> HIDE DEF e
  <2>4. e \in Events /\ e.kind \in LinkKinds /\ e.kind \notin Builders /\ Says(e, link')
    BY <2>1, <2>3, OthersAreNoMessages DEF LinkKinds, Builders, Says
  <2>5. Messages' /\ Quiet' /\ Order BY <2>1, <2>3, EventPosted
  <2>6. Service' BY <1>1, <1>3, <2>1, <2>4, ServicePosted
  <2>7. Flags' BY <1>1, <1>2, <2>1, <2>4, FlagsPosted
  <2> QED BY <2>5, <2>6, <2>7 DEF Kept
<1>6. CASE PeerWrites
  <2> DEFINE e == EvOf("WRITE", Number)
  <2>1. /\ Arrives("WRITE") /\ link # 0 /\ UNCHANGED <<stack, link, recv, blocked>>
        /\ gatt' = Append(gatt, e)
    BY <1>6 DEF PeerWrites, Arrives, stacked
  <2>2. e \in Events /\ e.kind = "WRITE"
    BY NumberType DEF EvOf, Events, Content
  <2> HIDE DEF e
  <2>3. e.kind \notin LinkKinds /\ e.kind \notin Builders /\ "WRITE" \in Content
    BY <2>2, BuildersAreOthers DEF Content
  <2>4. Messages' /\ Quiet' /\ Order BY <2>1, <2>3, MessageArrives
  <2>5. Service' BY <1>1, <1>3, <2>1, <2>2, <2>3, ServicePosted
  <2>6. Flags' BY <1>1, <1>2, <2>1, <2>2, <2>3, FlagsPosted
  <2> QED BY <2>4, <2>5, <2>6 DEF Kept
<1> QED BY <1>4, <1>5, <1>6 DEF ServerPeer

-------------------------------------------------------------------------------
(* The steps of either build.                                              *)

LEMMA InitKeepsMessages ==
  ASSUME Messages, Quiet, BtcommInit
  PROVE  Messages' /\ Quiet' /\ Order
<1>1. CASE InitAborts BY <1>1, AllLost DEF InitAborts, Reboot
<1>2. CASE InitRefused
  <2>1. UNCHANGED <<stack, gatt, link, recv, blocked>>
    BY <1>2 DEF InitRefused, events, shared
  <2> QED BY <2>1, NothingOnTheWay
<1>3. CASE InitFails
  <2>1. stack = "off" /\ UNCHANGED <<gatt, link, recv, blocked>>
    BY <1>3 DEF InitFails, events
  <2> QED BY <2>1, NothingOnTheWay
<1>4. CASE InitSucceeds
  <2>1. /\ stack = "off" /\ stack' = "on" /\ recv' = <<>> /\ blocked' = blocked
        /\ link' = link /\ (gatt' = <<Ev("REG")>> \/ gatt' = <<>>)
    BY <1>4 DEF InitSucceeds
  <2>2. recv = <<>> /\ blocked = <<>> /\ MessagesIn(gatt) = <<>>
    BY <2>1 DEF Quiet
  <2>3. gatt' \in Seq(Events) /\ MessagesIn(gatt)' = <<>>
    <3>1. CASE gatt' = <<>>
      <4>1. gatt' \in Seq(Events) BY <3>1
      <4> QED BY <3>1, <4>1, MessagesOfNone
    <3>2. CASE gatt' = <<Ev("REG")>>
      <4> DEFINE e == Ev("REG")
      <4>1. e \in Other BY OtherEvents DEF OtherKinds
      <4> HIDE DEF e
      <4>2. gatt' = <<e>> BY <3>2 DEF e
      <4>3. <<>> \in Seq(Events) /\ gatt' = Append(<<>>, e) BY <4>2
      <4> QED BY <4>1, <4>3, OtherAppended, MessagesOfNone
    <3> QED BY <2>1, <3>1, <3>2
  <2>4. OnTheirWay' = OnTheirWay BY <2>1, <2>2, <2>3 DEF OnTheirWay
  <2> QED BY <2>1, <2>2, <2>3, <2>4 DEF Messages, Quiet, Order
<1> QED BY <1>1, <1>2, <1>3, <1>4 DEF BtcommInit

LEMMA LosingKeepsMessages ==
  ASSUME BtStop \/ SendMessage, blocked = <<>> \/ SendMessage
  PROVE  Messages' /\ Quiet' /\ Order
<1>1. /\ stack' = "off" /\ link' = 0 /\ gatt' = <<>> /\ recv' = <<>> /\ blocked' = <<>>
  BY DEF BtStop, SendMessage, Reboot, Handler
<1> QED BY <1>1, AllLost

-------------------------------------------------------------------------------
(* The steps of a client.                                                  *)

LEMMA AnswerEvents ==
  ASSUME NEW kind \in OtherKinds, NEW ok \in BOOLEAN
  PROVE  EvOf(kind, ok) \in Other
<1>1. ok \in Nat \cup BOOLEAN BY Zenon
<1> HIDE DEF OtherKinds
<1> QED BY <1>1, Zenon DEF Other, EvOf

LEMMA TwoInARow ==
  ASSUME NEW S, NEW e \in S, NEW f \in S
  PROVE  <<e>> \o <<f>> = <<e, f>>
<1> DEFINE s == <<e>> \o <<f>>
<1>1. <<e>> \in Seq(S) /\ <<f>> \in Seq(S) /\ <<e, f>> \in Seq(S) OBVIOUS
<1>2. s \in Seq(S) /\ Len(s) = 2 /\ Len(<<e, f>>) = 2 BY <1>1, ConcatProperties
<1>3. s[1] = e /\ s[2] = f BY <1>1, ConcatProperties
<1>4. \A i \in 1..2 : i = 1 \/ i = 2 OBVIOUS
<1>5. \A i \in 1..2 : s[i] = <<e, f>>[i] BY <1>3, <1>4
<1> QED BY <1>1, <1>2, <1>5, SeqEqual

LEMMA AnswersAre ==
  ASSUME NEW request \in Requests, NEW ok \in BOOLEAN
  PROVE  \E e, f \in Other : Answers(request, ok) \in {<<>>, <<e>>, <<e, f>>}
<1> DEFINE disc == EvOf("DIS_SRVC_CMPL", ok)
           mtu == EvOf("CFG_MTU", ok)
           cmpl == EvOf("SEARCH_CMPL", ok)
           reg == EvOf("REG_FOR_NOTIFY", ok)
           res == Ev("SEARCH_RES")
           found == ok /\ air.device \in Servers
<1>1. disc \in Other /\ mtu \in Other /\ cmpl \in Other /\ reg \in Other
  BY AnswerEvents DEF OtherKinds
<1>2. res \in Other BY OtherEvents DEF OtherKinds
<1>3. /\ request = "discovery" => Answers(request, ok) = <<disc>>
      /\ request = "mtu" => Answers(request, ok) = <<mtu>>
      /\ request = "search" =>
           Answers(request, ok) = (IF found THEN <<res>> ELSE <<>>) \o <<cmpl>>
      /\ request = "register" => Answers(request, ok) = <<reg>>
      /\ request = "descr" => Answers(request, ok) = <<>>
  BY DEF Answers
<1> HIDE DEF disc, mtu, cmpl, reg, res, found
<1>4. (IF found THEN <<res>> ELSE <<>>) \o <<cmpl>> \in {<<cmpl>>, <<res, cmpl>>}
  <2>1. <<res>> \o <<cmpl>> = <<res, cmpl>> BY <1>1, <1>2, TwoInARow
  <2>2. <<>> \o <<cmpl>> = <<cmpl>>
    <3>1. <<cmpl>> \in Seq(Other) BY <1>1
    <3> QED BY <3>1, ConcatEmptySeq
  <2>3. CASE found BY <2>1, <2>3
  <2>4. CASE ~found BY <2>2, <2>4
  <2> QED BY <2>3, <2>4
<1> HIDE DEF Answers
<1> QED BY <1>1, <1>2, <1>3, <1>4 DEF Requests

LEMMA EventsAdded ==
  ASSUME NEW q \in Seq(Events), NEW e \in Other, NEW f \in Other,
         NEW new \in {<<>>, <<e>>, <<e, f>>}
  PROVE  /\ (q \o new) \in Seq(Events)
         /\ MessagesIn(q \o new) = MessagesIn(q)
<1>1. e \in Events /\ f \in Events BY OthersAreNoMessages
<1>2. CASE new = <<>> BY <1>2, ConcatEmptySeq
<1>3. CASE new = <<e>>
  <2>1. q \o <<e>> = Append(q, e) BY <1>1, AppendIsConcat
  <2> QED BY <1>3, <2>1, OtherAppended
<1>4. CASE new = <<e, f>>
  <2> DEFINE r == Append(q, e)
  <2>1. r \in Seq(Events) /\ MessagesIn(r) = MessagesIn(q) BY OtherAppended
  <2>2. q \o <<e, f>> = Append(r, f) BY <1>1
  <2> HIDE DEF r
  <2>3. Append(r, f) \in Seq(Events) /\ MessagesIn(Append(r, f)) = MessagesIn(r)
    BY <2>1, OtherAppended
  <2> QED BY <1>4, <2>1, <2>2, <2>3
<1> QED BY <1>2, <1>3, <1>4

LEMMA EventsPosted ==
  ASSUME Messages, Quiet, NEW e \in Other, NEW f \in Other,
         NEW new \in {<<>>, <<e>>, <<e, f>>}, gatt' = gatt \o new,
         UNCHANGED <<stack, recv, blocked>>, link' \in Nat, stack # "on" => link' = 0
  PROVE  Messages' /\ Quiet' /\ Order
<1>1. gatt \o new \in Seq(Events) /\ MessagesIn(gatt \o new) = MessagesIn(gatt)
  BY EventsAdded DEF Messages
<1> DEFINE r == gatt \o new
<1>2. r \in Seq(Events) /\ MessagesIn(r) = MessagesIn(gatt) /\ gatt' = r BY <1>1
<1> HIDE DEF r
<1>3. OnTheirWay' = OnTheirWay BY <1>2 DEF OnTheirWay
<1> QED BY <1>2, <1>3 DEF Messages, Quiet, Order

LEMMA ClientTurnKeeps ==
  ASSUME Messages, Quiet, ClientGattTurn
  PROVE  Messages' /\ Quiet' /\ Order
<1>1. CASE NotifyEvt
  <2>1. /\ TakeGatt("NOTIFY") /\ Enqueue(Head(gatt).arg) /\ gatt' = Tail(gatt)
        /\ UNCHANGED <<stack, link>> /\ "NOTIFY" \in Content
    BY <1>1 DEF NotifyEvt, radio, Content
  <2> QED BY <2>1, MessageDelivered
<1>2. CASE ~NotifyEvt
  <2>1. /\ gatt # <<>> /\ Head(gatt).kind \notin Content /\ gatt' = Tail(gatt)
        /\ UNCHANGED <<stack, link, recv, blocked>>
    BY <1>2 DEF ClientGattTurn, ClientConnectEvt, DisSrvcCmplEvt, CfgMtuEvt, SearchResEvt,
         SearchCmplEvt, RegForNotifyEvt, ClientDisconnectEvt, TakeGatt, radio, shared,
         Content
  <2> QED BY <2>1, EventTaken
<1> QED BY <1>1, <1>2

LEMMA ClientAppKeeps ==
  ASSUME Messages, Quiet, ClientGapTurn \/ StartScan \/ Connect2BleDevice \/ OpenDevice
  PROVE  Messages' /\ Quiet' /\ Order
<1>1. CASE ClientGapTurn \/ StartScan \/ Connect2BleDevice
  <2>1. UNCHANGED <<stack, gatt, link, recv, blocked>>
    BY <1>1 DEF ClientGapTurn, ScanParamSetEvt, ScanResultEvt, StartScan,
         Connect2BleDevice, radio, shared
  <2> QED BY <2>1, NothingOnTheWay
<1>2. CASE OpenDevice
  <2>1. UNCHANGED <<stack, recv, blocked>> BY <1>2 DEF OpenDevice, shared
  <2>2. CASE UNCHANGED <<link, gatt>>
    BY <2>1, <2>2, NothingOnTheWay
  <2>3. CASE ~UNCHANGED <<link, gatt>>
    <3> DEFINE e == EvOf("CONNECT", 1)
    <3>1. stack = "on" /\ link = 0 /\ Room(gatt)
      <4> SUFFICES ASSUME ~(stack = "on" /\ link = 0 /\ Room(gatt)) PROVE FALSE
        OBVIOUS
      <4> QED BY <1>2, <2>3, Zenon DEF OpenDevice
    <3>2. e \in Other BY OtherEvents DEF OtherKinds
    <3>3. PICK connects \in BOOLEAN :
            /\ link' = IF connects THEN 1 ELSE 0
            /\ gatt' = gatt \o IF connects THEN <<e>> ELSE <<>>
      BY <1>2, <3>1, Zenon DEF OpenDevice
    <3> HIDE DEF e
    <3>4. link' \in Nat /\ \E new \in {<<>>, <<e>>, <<e, e>>} : gatt' = gatt \o new
      <4>1. CASE connects BY <3>3, <4>1
      <4>2. CASE ~connects BY <3>3, <4>2
      <4> QED BY <4>1, <4>2
    <3> QED BY <2>1, <3>1, <3>2, <3>4, EventsPosted
  <2> QED BY <2>2, <2>3
<1> QED BY <1>1, <1>2

LEMMA ClientAirKeeps ==
  ASSUME Messages, Quiet,
         Heard \/ ScanEnds \/ LinkLost \/ PeerNotifies \/ StackAnswers
  PROVE  Messages' /\ Quiet' /\ Order
<1>1. CASE Heard \/ ScanEnds
  <2>1. UNCHANGED <<stack, gatt, link, recv, blocked>>
    BY <1>1 DEF Heard, ScanEnds, radio, shared
  <2> QED BY <2>1, NothingOnTheWay
<1>2. CASE LinkLost
  <2>1. Ev("DISCONNECT") \in Other BY OtherEvents DEF OtherKinds
  <2>2. /\ gatt' = Append(gatt, Ev("DISCONNECT")) /\ link' = 0
        /\ UNCHANGED <<stack, recv, blocked>>
    BY <1>2 DEF LinkLost, shared
  <2> QED BY <2>1, <2>2, EventPosted
<1>3. CASE PeerNotifies
  <2>1. /\ Arrives("NOTIFY") /\ link # 0 /\ UNCHANGED <<stack, link, recv, blocked>>
        /\ "NOTIFY" \in Content
    BY <1>3 DEF PeerNotifies, radio, Content
  <2> QED BY <2>1, MessageArrives
<1>4. CASE StackAnswers
  <2>1. PICK request \in Requests, ok \in BOOLEAN : gatt' = gatt \o Answers(request, ok)
    BY <1>4 DEF StackAnswers
  <2>2. PICK e \in Other, f \in Other : Answers(request, ok) \in {<<>>, <<e>>, <<e, f>>}
    BY AnswersAre
  <2>3. UNCHANGED <<stack, link, recv, blocked>> /\ link' \in Nat
    BY <1>4 DEF StackAnswers, radio, shared, Messages
  <2>4. stack # "on" => link' = 0 BY <2>3 DEF Quiet
  <2> HIDE DEF Answers
  <2> QED BY <2>1, <2>2, <2>3, <2>4, EventsPosted
<1> QED BY <1>1, <1>2, <1>3, <1>4

-------------------------------------------------------------------------------
(* The invariant, and the theorems.                                        *)

BtInv ==
  /\ build \in {"server", "client"} /\ Messages /\ Quiet
  /\ build = "server" => Service /\ Flags

LEMMA BtInvInit == Init => BtInv
<1> SUFFICES ASSUME Init PROVE BtInv
  OBVIOUS
<1>1. build \in {"server", "client"} BY BluetoothConstants DEF Init
<1>2. /\ stack = "off" /\ gatt = <<>> /\ db = <<>> /\ link = 0
      /\ recv = <<>> /\ blocked = <<>> /\ srv = FreshServer
  BY DEF Init
<1>3. gatt \in Seq(Events) /\ recv \in Seq({0, 1}) /\ blocked \in Seq({0, 1})
  BY <1>2
<1>4. Messages /\ Quiet BY <1>2, <1>3, MessagesOfNone DEF Messages, Quiet
<1>5. FreshServer.char_handle \in [Chars -> Nat] /\ FreshServer.descr_handle \in [Chars -> Nat]
  BY DEF FreshServer
<1>6. Len(gatt) = 0 /\ Len(db) = 0 BY <1>2
<1>7. Service
  BY <1>2, <1>5, <1>6, FreshServerIs, NumCharsIs DEF Service, Table, Entries, OneAnswer
<1>8. Flags BY <1>2, <1>6 DEF Flags, Told
<1> QED BY <1>1, <1>4, <1>7, <1>8 DEF BtInv

LEMMA ServerStep ==
  ASSUME build = "server", Messages, Quiet, Service, Flags, Next
  PROVE  Kept
<1>1. CASE BtcommInit
  <2>1. Messages' /\ Quiet' /\ Order BY <1>1, InitKeepsMessages
  <2>2. Service' /\ Flags'
    BY <1>1, RebootKeeps, InitRefusedKeeps, InitFailsKeeps, InitSucceedsKeeps
    DEF BtcommInit, InitAborts
  <2> QED BY <2>1, <2>2 DEF Kept
<1>2. CASE BtStop
  <2>1. Messages' /\ Quiet' /\ Order BY <1>2, LosingKeepsMessages DEF BtStop, Handler
  <2> QED BY <1>2, <2>1, StopKeeps DEF Kept
<1>3. CASE SendMessage
  <2>1. Messages' /\ Quiet' /\ Order BY <1>3, LosingKeepsMessages
  <2> QED BY <1>3, <2>1, RebootKeeps DEF SendMessage, Kept
<1>4. CASE ProcessMessage
  <2>1. Messages' /\ Quiet' /\ Order BY <1>4, MessageProcessed
  <2>2. UNCHANGED <<stack, gatt, link, srv, db>> BY <1>4 DEF ProcessMessage, events, server
  <2>3. SameService /\ SameFlags
    BY <2>2 DEF SameService, SameFlags, SameHandles, SameLink, Service, Table
  <2> QED BY <2>1, <2>2, <2>3, ServiceSame, FlagsSame DEF Kept
<1>5. CASE GattTurn
  <2>1. ServerGattTurn BY <1>5 DEF GattTurn
  <2> QED BY <2>1, BuilderKeeps, WriteKeeps, LinkEvtKeeps DEF ServerGattTurn
<1>6. CASE GapTurn \/ ServerApp
  <2>1. ServerGapTurn \/ StartAdv \/ StartAdvNext \/ StartAdvEnds
    BY <1>6 DEF GapTurn, ServerApp
  <2> QED BY <2>1, ServerLeavesEvents
<1>7. CASE Air
  <2>1. ServerPeer BY <1>7 DEF Air
  <2> QED BY <2>1, PeerKeeps
<1>8. CASE ClientApp \/ Answer BY <1>8 DEF ClientApp, Answer
<1> QED BY <1>1, <1>2, <1>3, <1>4, <1>5, <1>6, <1>7, <1>8 DEF Next

LEMMA ClientStep ==
  ASSUME build = "client", Messages, Quiet, Next
  PROVE  Messages' /\ Quiet' /\ Order
<1>1. CASE BtcommInit BY <1>1, InitKeepsMessages
<1>2. CASE BtStop BY <1>2, LosingKeepsMessages DEF BtStop, Handler
<1>3. CASE SendMessage BY <1>3, LosingKeepsMessages
<1>4. CASE ProcessMessage BY <1>4, MessageProcessed
<1>5. CASE GattTurn
  <2>1. ClientGattTurn BY <1>5 DEF GattTurn
  <2> QED BY <2>1, ClientTurnKeeps
<1>6. CASE GapTurn \/ ClientApp
  <2>1. ClientGapTurn \/ StartScan \/ Connect2BleDevice \/ OpenDevice
    BY <1>6 DEF GapTurn, ClientApp
  <2> QED BY <2>1, ClientAppKeeps
<1>7. CASE Air \/ Answer
  <2>1. Heard \/ ScanEnds \/ LinkLost \/ PeerNotifies \/ StackAnswers
    BY <1>7 DEF Air, Answer
  <2> QED BY <2>1, ClientAirKeeps
<1>8. CASE ServerApp BY <1>8 DEF ServerApp
<1> QED BY <1>1, <1>2, <1>3, <1>4, <1>5, <1>6, <1>7, <1>8 DEF Next

LEMMA BuildStays == Next => build' = build
BY DEF Next, BtcommInit, InitAborts, InitRefused, InitFails, InitSucceeds, BtStop,
  SendMessage, Reboot, ProcessMessage, GattTurn, GapTurn, ServerApp, ClientApp, Air,
  Answer, ServerGattTurn, ClientGattTurn, ServerGapTurn, ClientGapTurn, ServerPeer,
  RegEvt, CreateEvt, AddCharEvt, AddDescrEvt, WriteEvt, ConnectEvt, DisconnectEvt,
  DataSetCompleteEvt, StartAdv, StartAdvNext, StartAdvEnds, PeerConnects,
  PeerDisconnects, PeerWrites, ClientConnectEvt, DisSrvcCmplEvt, CfgMtuEvt,
  SearchResEvt, SearchCmplEvt, RegForNotifyEvt, NotifyEvt, ClientDisconnectEvt,
  ScanParamSetEvt, ScanResultEvt, StartScan, Connect2BleDevice, OpenDevice, Heard,
  ScanEnds, LinkLost, PeerNotifies, StackAnswers, stacked, radio

LEMMA BtInvNext == BtInv /\ [Next]_vars => BtInv' /\ (Order \/ UNCHANGED vars)
<1> SUFFICES ASSUME BtInv, [Next]_vars PROVE BtInv' /\ (Order \/ UNCHANGED vars)
  OBVIOUS
<1>1. CASE Next
  <2>1. build' = build BY <1>1, BuildStays
  <2>2. CASE build = "server"
    <3>1. Kept BY <1>1, <2>2, ServerStep DEF BtInv
    <3> QED BY <2>1, <3>1 DEF BtInv, Kept
  <2>3. CASE build = "client"
    <3>1. Messages' /\ Quiet' /\ Order BY <1>1, <2>3, ClientStep DEF BtInv
    <3> QED BY <2>1, <2>3, <3>1 DEF BtInv
  <2> QED BY <2>2, <2>3 DEF BtInv
<1>2. CASE UNCHANGED vars
  <2>1. UNCHANGED <<build, stack, gatt, link, recv, blocked, srv, db>>
    BY <1>2 DEF vars, events, shared, server
  <2>2. Messages' /\ Quiet' BY <2>1, NothingOnTheWay DEF BtInv
  <2>3. ASSUME Service, Flags PROVE Service' /\ Flags'
    <3>1. SameService /\ SameFlags
      BY <2>1, <2>3 DEF SameService, SameFlags, SameHandles, SameLink, Service, Table
    <3> QED BY <2>1, <2>3, <3>1, ServiceSame, FlagsSame
  <2> QED BY <1>2, <2>1, <2>2, <2>3 DEF BtInv
<1> QED BY <1>1, <1>2

THEOREM BtInvariant == Spec => []BtInv
<1> USE DEF BtInv
<1> QED BY BtInvInit, BtInvNext, PTL DEF Spec

(* With no beginning or end of a connection left to handle, btConnected    *)
(* and conn_id of the server say what connection there is (ble_server.c    *)
(* 450-483), for any number of connections that come and go meanwhile.     *)
THEOREM BtFlagFollowsLink == Spec => []FlagFollowsLink
<1>1. BtInv => FlagFollowsLink
  <2> SUFFICES ASSUME BtInv, build = "server", stack = "on", ~srv.repeated,
                      ~Holds({"CONNECT", "DISCONNECT"})
               PROVE  srv.btConnected = (link # 0) /\ (link # 0 => srv.conn_id = link)
    BY DEF FlagFollowsLink
  <2>1. gatt \in Seq(Events) /\ DOMAIN gatt = 1..Len(gatt)
    BY LenProperties DEF BtInv, Messages
  <2>2. Untold(gatt) BY <2>1 DEF Holds, Untold, LinkKinds
  <2>3. ~Repeated(srv) BY Zenon DEF Repeated
  <2>4. Right(srv, link) BY <2>2, <2>3 DEF BtInv, Flags
  <2>5. link = 0 \/ link # 0 OBVIOUS
  <2>6. CASE link = 0
    <3>1. srv.btConnected = FALSE BY <2>4, <2>6 DEF Right, Down
    <3> QED BY <2>6, <3>1, Zenon
  <2>7. CASE link # 0
    <3>1. srv.btConnected = TRUE /\ srv.conn_id = link BY <2>4, <2>7, Zenon DEF Right, Up
    <3> QED BY <2>7, <3>1, Zenon
  <2> QED BY <2>6, <2>7
<1> QED BY <1>1, BtInvariant, PTL

(* When the stack has answered, the table has the handles of this          *)
(* registration, each descriptor behind its characteristic, however earlier *)
(* ones ended; and all of them unless the stack refused to add one          *)
(* (ble_server.c 238-351).                                                 *)
THEOREM BtServiceBuilt == Spec => []ServiceBuilt
<1>1. BtInv => ServiceBuilt
  <2> SUFFICES ASSUME BtInv, build = "server", stack = "on",
                      ~Holds({"REG", "CREATE", "ADD_CHAR", "ADD_CHAR_DESCR"}),
                      NEW i \in Chars
               PROVE  LET c == srv.char_handle[i]
                          d == srv.descr_handle[i]
                      IN  /\ c # 0 => c \in DOMAIN db /\ db[c] = <<"char", i>>
                          /\ d # 0 => /\ c # 0 /\ d = c + 1 /\ d \in DOMAIN db
                                      /\ db[d] = <<"descr", i>>
                          /\ d # 0 \/ srv.halted
    BY DEF ServiceBuilt
  <2>1. gatt \in Seq(Events) /\ DOMAIN gatt = 1..Len(gatt)
    BY LenProperties DEF BtInv, Messages
  <2>2. \A j \in 1..Len(gatt) : gatt[j].kind \notin Builders
    BY <2>1 DEF Holds, Builders
  <2>3. Ended(srv, db) /\ Entries
    BY <2>2 DEF BtInv, Service, Progress
  <2>4. PICK n \in 0..NumChars, m \in 0..NumChars :
          /\ m <= n /\ n <= m + 1 /\ Len(db) = n + m /\ Built(srv, n, m)
          /\ m = NumChars \/ Stopped(srv)
    BY <2>3 DEF Ended
  <2>5. DOMAIN db = 1..Len(db) BY LenProperties DEF BtInv, Service, Table
  <2>6. i \in Nat \ {0} /\ i <= NumChars /\ NumChars \in Nat BY NumCharsIs
  <2>7. /\ srv.char_handle[i] = IF i <= n THEN 2 * i - 1 ELSE 0
        /\ srv.descr_handle[i] = IF i <= m THEN 2 * i ELSE 0
    BY <2>4, <2>6 DEF Built
  <2>8. i <= n => /\ 2 * i - 1 \in DOMAIN db /\ 2 * i - 1 # 0
                  /\ db[2 * i - 1] = <<"char", i>>
    <3>1. i <= n => 2 * i - 1 \in 1..Len(db) BY <2>4, <2>6
    <3> QED BY <2>3, <2>5, <2>6, <3>1 DEF Entries
  <2>9. i <= m => /\ i <= n /\ 2 * i \in DOMAIN db /\ 2 * i # 0 /\ 2 * i = (2 * i - 1) + 1
                  /\ db[2 * i] = <<"descr", i>>
    <3>1. i <= m => i <= n /\ 2 * i \in 1..Len(db) BY <2>4, <2>6
    <3> QED BY <2>3, <2>5, <2>6, <3>1 DEF Entries
  <2>10. i <= m \/ srv.halted
    <3>1. CASE m = NumChars BY <2>6, <3>1
    <3>2. CASE Stopped(srv) BY <3>2, Zenon DEF Stopped
    <3> QED BY <2>4, <3>1, <3>2
  <2>11. /\ srv.char_handle[i] # 0 => i <= n
         /\ srv.descr_handle[i] # 0 => i <= m
    BY <2>7
  <2>12. srv.descr_handle[i] # 0 \/ srv.halted
    <3>1. i <= m => srv.descr_handle[i] # 0 BY <2>7, <2>9
    <3> QED BY <2>10, <3>1, Zenon
  <2> QED BY <2>7, <2>8, <2>9, <2>11, <2>12
<1> QED BY <1>1, BtInvariant, PTL

(* A message that arrives is processed after those before it and is never  *)
(* left out until the stack stops (ble_server.c 364-393, btcomm.c          *)
(* 101-114), in either build and with queues of any size.                  *)
THEOREM BtMessagesInOrder == Spec => MessagesInOrder
<1> DEFINE Step == \/ OnTheirWay' = OnTheirWay
                   \/ OnTheirWay' = Append(OnTheirWay, Number)
                   \/ recv # <<>> /\ OnTheirWay' = Tail(OnTheirWay)
                   \/ stack' = "off"
<1>1. BtInv /\ [Next]_vars => [Step]_vars
  BY BtInvNext DEF Order
<1> QED BY <1>1, BtInvariant, PTL DEF Spec, MessagesInOrder
====
