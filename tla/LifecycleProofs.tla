--------------------------- MODULE LifecycleProofs ---------------------------
(***************************************************************************)
(* Proofs about Lifecycle for every set of faults, every queue bound and   *)
(* every set of versions, roles, pids and nonces.                          *)
(***************************************************************************)
EXTENDS Lifecycle, SequenceTheorems, TLAPS

(***************************************************************************)
(* Who has to reap the child: before spawn there is none, from spawn to    *)
(* the last reap there is one, and reap is reached with an exited one.     *)
(***************************************************************************)
Custody ==
  /\ pc = "new" => child = "none"
  /\ pc \in InSpawn \cup InRun \cup {"kill", "reap"} => child \in Running \cup {"exited"}
  /\ pc = "reap" => child = "exited"
  /\ pc = "done" => child \in {"none", "reaped"}

LEMMA InitCustody == Init => TypeOK /\ Custody
BY DEF Init, TypeOK, Custody, InSpawn, InRun, Ended, Running

(* The messages the two programs send are messages, and what a queue       *)
(* yields and what it keeps are of its type.                               *)
LEMMA MessageTypes ==
  /\ Expected \in HelloClaims
  /\ HelloAck(TRUE) \in ToChild /\ HelloAck(FALSE) \in ToChild
  /\ Ping(1) \in ToChild /\ Shutdown \in ToChild
  /\ Hello(Expected) \in ToBrowser
  /\ \A n \in Nonces : Pong(n) \in ToBrowser
<1>1. HelloAck(TRUE) \in ToChild /\ HelloAck(FALSE) \in ToChild /\ Shutdown \in ToChild
  BY DEF ToChild
<1>2. Ping(1) \in ToChild
  BY NonceAssumption DEF ToChild
<1>3. Expected \in HelloClaims /\ Hello(Expected) \in ToBrowser
  BY ExpectedAssumption DEF ToBrowser
<1>4. \A n \in Nonces : Pong(n) \in ToBrowser
  BY DEF ToBrowser
<1> QED BY <1>1, <1>2, <1>3, <1>4

LEMMA MessageFields ==
  /\ \A m \in ToChild : m.kind = "Ping" => m.nonce \in Nonces
  /\ \A m \in ToChild : m.kind = "HelloAck" /\ m.accepted => m = HelloAck(TRUE)
  /\ \A m \in ToBrowser : m.kind = "Hello" => m.claims \in HelloClaims
<1>1. ASSUME NEW m \in ToChild, m.kind = "Ping" PROVE m.nonce \in Nonces
  <2>1. CASE \E n \in Nonces : m = Ping(n)
    BY <2>1 DEF Ping
  <2> QED BY <1>1, <2>1 DEF ToChild, HelloAck, Shutdown
<1>2. ASSUME NEW m \in ToChild, m.kind = "HelloAck", m.accepted PROVE m = HelloAck(TRUE)
  <2>1. PICK a \in BOOLEAN : m = HelloAck(a)
    BY <1>2 DEF ToChild, Ping, Shutdown
  <2> QED BY <1>2, <2>1 DEF HelloAck
<1>3. ASSUME NEW m \in ToBrowser, m.kind = "Hello" PROVE m.claims \in HelloClaims
  <2>1. CASE \E c \in HelloClaims : m = Hello(c)
    BY <2>1 DEF Hello
  <2> QED BY <1>3, <2>1 DEF ToBrowser, Pong, Undecodable
<1> QED BY <1>1, <1>2, <1>3

LEMMA Dequeue ==
  ASSUME NEW S, NEW q \in Seq(S), q # <<>>
  PROVE  Head(q) \in S /\ Tail(q) \in Seq(S)
BY HeadTailProperties

LEMMA TypeInvariant == TypeOK /\ [Next]_vars => TypeOK'
<1> SUFFICES ASSUME TypeOK, [Next]_vars PROVE TypeOK'
  OBVIOUS
<1> USE DEF TypeOK, InSpawn, InRun, Ended, Running, browserVars, childVars, queues
<1>m. /\ Expected \in HelloClaims
      /\ HelloAck(TRUE) \in ToChild /\ HelloAck(FALSE) \in ToChild
      /\ Ping(1) \in ToChild /\ Shutdown \in ToChild
      /\ Hello(Expected) \in ToBrowser
      /\ \A n \in Nonces : Pong(n) \in ToBrowser
      /\ \A m \in ToChild : m.kind = "Ping" => m.nonce \in Nonces
      /\ \A m \in ToBrowser : m.kind = "Hello" => m.claims \in HelloClaims
  BY MessageTypes, MessageFields
<1>q. /\ toBrowser # <<>> => Head(toBrowser) \in ToBrowser /\ Tail(toBrowser) \in Seq(ToBrowser)
      /\ toChild # <<>> => Head(toChild) \in ToChild /\ Tail(toChild) \in Seq(ToChild)
  BY Dequeue
<1>c. wrong' \subseteq Faults
  BY DEF vars, Next, BrowserStep, ChildStep, fault, silence, spawn, accept_with_timeout,
    browser_side, send_ping, await_pong, send_shutdown, wait, drop, kill, reap, HelperStep,
    BrowserCrash, apply_sandbox, connect_child, send_hello, await_ack, serve, ChildCrash,
    Misbehave, Rest
<1>1. CASE spawn
  BY <1>1, <1>c DEF spawn, exit
<1>2. CASE accept_with_timeout
  BY <1>2, <1>c DEF accept_with_timeout
<1>3. CASE browser_side
  <2>1. toBrowser' \in Seq(ToBrowser)
    BY <1>3, <1>q DEF browser_side, silence
  <2>2. toChild' \in Seq(ToChild)
    <3>1. \/ toChild' = toChild
          \/ toChild' = Append(toChild, HelloAck(TRUE))
          \/ toChild' = Append(toChild, HelloAck(FALSE))
      BY <1>3 DEF browser_side, sent, undelivered
    <3>2. toChild \in Seq(ToChild)
      OBVIOUS
    <3>3. ASSUME NEW m \in ToChild PROVE Append(toChild, m) \in Seq(ToChild)
      BY ONLY <3>2, <3>3, AppendProperties
    <3> QED BY ONLY <3>1, <3>2, <3>3, <1>m
  <2>3. hello' \in HelloClaims \cup {<<>>}
    <3>1. CASE hello' = hello
      BY <3>1
    <3>2. CASE /\ toBrowser # <<>> /\ hello' = Head(toBrowser).claims
               /\ browser_verdict(Head(toBrowser)) = "accept"
      <4>1. Head(toBrowser) \in ToBrowser
        BY <3>2, <1>q
      <4> QED BY <3>2, <4>1, <1>m DEF browser_verdict
    <3> QED BY <1>3, <3>1, <3>2 DEF browser_side
  <2>4. pc' \in {"kill", "ping"}
    BY <1>3 DEF browser_side
  <2>5. UNCHANGED <<result, helper, wire, childVars>>
    BY <1>3 DEF browser_side
  <2> QED BY <2>1, <2>2, <2>3, <2>4, <2>5, <1>c
<1>4. CASE send_ping
  <2>1. toChild' \in Seq(ToChild)
    <3>1. toChild' \in {toChild, Append(toChild, Ping(1))}
      BY <1>4 DEF send_ping, sent, undelivered
    <3>2. toChild \in Seq(ToChild)
      OBVIOUS
    <3> QED BY ONLY <3>1, <3>2, <1>m, AppendProperties
  <2>2. pc' \in {"pong", "drop"}
    BY <1>4 DEF send_ping
  <2>3. UNCHANGED <<result, helper, wire, childVars, toBrowser, hello>>
    BY <1>4 DEF send_ping
  <2> QED BY <2>1, <2>2, <2>3, <1>c
<1>5. CASE await_pong
  <2>1. toBrowser' \in Seq(ToBrowser) /\ pc' \in {"drop", "up"}
    BY <1>5, <1>q DEF await_pong, silence
  <2>2. UNCHANGED <<result, helper, wire, childVars, toChild, hello>>
    BY <1>5 DEF await_pong, silence
  <2> QED BY <2>1, <2>2, <1>c
<1>6. CASE send_shutdown
  BY <1>6, <1>m, <1>c DEF send_shutdown, sent, undelivered
<1>7. CASE wait \/ drop \/ kill \/ reap
  BY <1>7, <1>c DEF wait, drop, kill, reap, exit
<1>8. CASE HelperStep
  BY <1>8, <1>c DEF HelperStep
<1>9. CASE BrowserCrash
  BY <1>9, <1>c DEF BrowserCrash
<1>10. CASE apply_sandbox \/ connect_child
  BY <1>10, <1>c DEF apply_sandbox, connect_child, leave
<1>11. CASE send_hello
  BY <1>11, <1>m, <1>c DEF send_hello, Reply, leave
<1>12. CASE await_ack
  <2>1. toChild' \in Seq(ToChild) /\ toBrowser' = toBrowser
    BY <1>12, <1>q DEF await_ack, hangup, leave
  <2>2. child' \in {"exited", "serve"} /\ status' \in {status, "error"}
    BY <1>12 DEF await_ack, hangup, leave
  <2>3. UNCHANGED <<pc, result, hello, helper, wire>>
    BY <1>12 DEF await_ack
  <2> QED BY ONLY <2>1, <2>2, <2>3, <1>c, TypeOK DEF TypeOK, browserVars, childVars
<1>13. CASE serve
  <2>1. toBrowser' \in Seq(ToBrowser)
    <3>1. CASE toBrowser' = toBrowser
      BY <3>1
    <3>2. CASE /\ toChild # <<>> /\ Head(toChild).kind = "Ping"
               /\ toBrowser' = Append(toBrowser, Pong(Head(toChild).nonce))
      <4>1. Pong(Head(toChild).nonce) \in ToBrowser
        BY <3>2, <1>m, <1>q
      <4>2. toBrowser \in Seq(ToBrowser)
        OBVIOUS
      <4> QED BY ONLY <3>2, <4>1, <4>2, AppendProperties
    <3> QED BY <1>13, <3>1, <3>2 DEF serve, hangup, Reply
  <2>2. toChild' \in Seq(ToChild)
    BY <1>13, <1>q DEF serve, hangup
  <2>3. child' \in {"serve", "exited"} /\ status' \in {status, "error", "success"}
    BY <1>13 DEF serve, hangup, Reply, leave
  <2>4. UNCHANGED <<browserVars, helper, wire>>
    BY <1>13 DEF serve
  <2> QED BY <1>c, <2>1, <2>2, <2>3, <2>4
<1>14. CASE ChildCrash
  BY <1>14, <1>c DEF ChildCrash, leave
<1>15. CASE Misbehave
  BY <1>15, <1>c DEF Misbehave, leave
<1>16. CASE Rest \/ UNCHANGED vars
  BY <1>16 DEF Rest, vars
<1> QED
  BY <1>1, <1>2, <1>3, <1>4, <1>5, <1>6, <1>7, <1>8, <1>9, <1>10, <1>11, <1>12, <1>13,
     <1>14, <1>15, <1>16 DEF Next, BrowserStep, ChildStep

(* The child's own steps take a running child to a running or exited one.  *)
LEMMA CustodyKept == TypeOK /\ Custody /\ [Next]_vars => Custody'
<1> SUFFICES ASSUME TypeOK, Custody, [Next]_vars PROVE Custody'
  OBVIOUS
<1> USE DEF TypeOK, Custody, InSpawn, InRun, Ended, Running, browserVars, childVars
<1>1. CASE spawn \/ accept_with_timeout \/ browser_side
  BY <1>1 DEF spawn, exit, accept_with_timeout, browser_side
<1>2. CASE send_ping \/ await_pong \/ send_shutdown
  BY <1>2 DEF send_ping, await_pong, send_shutdown
<1>3. CASE wait \/ drop \/ kill \/ reap
  BY <1>3 DEF wait, drop, kill, reap, exit
<1>4. CASE HelperStep \/ BrowserCrash
  BY <1>4 DEF HelperStep, BrowserCrash
<1>5. CASE ChildStep
  BY <1>5 DEF ChildStep, apply_sandbox, connect_child, send_hello, await_ack, serve,
    hangup, Reply, leave
<1>6. CASE ChildCrash \/ Misbehave
  BY <1>6 DEF ChildCrash, Misbehave, leave
<1>7. CASE Rest \/ UNCHANGED vars
  BY <1>7 DEF Rest, vars
<1> QED BY <1>1, <1>2, <1>3, <1>4, <1>5, <1>6, <1>7 DEF Next, BrowserStep

LEMMA CustodyInvariance == Spec => [](TypeOK /\ Custody)
BY InitCustody, TypeInvariant, CustodyKept, PTL DEF Spec

(* Every variable of Lifecycle keeps its type.                             *)
THEOREM TypeCorrect == Spec => []TypeOK
BY CustodyInvariance, PTL

(* On no path does run return with the child it spawned not reaped, and no *)
(* wait, kill or reap meets a child that has been reaped already.          *)
THEOREM ReapedOnce == Spec => []ChildIsReapedOnce
<1>1. Custody => NothingOutlivesItsHandle
  BY DEF Custody, NothingOutlivesItsHandle
<1>2. Custody => SignalsOnlyItsChild
  BY DEF Custody, SignalsOnlyItsChild, InSpawn, InRun, Running
<1>3. Custody => ChildIsReapedOnce
  BY <1>1, <1>2 DEF ChildIsReapedOnce
<1> QED BY <1>3, CustodyInvariance, PTL
-----------------------------------------------------------------------------
(***************************************************************************)
(* What is in the queue to the child.  Until the browser has answered the  *)
(* hello nothing is; the answer is the first message there ever is, and    *)
(* the only one of its kind.                                               *)
(***************************************************************************)
Unserved == {"none", "start", "connect", "hello", "ack"}

AnswerComesFirst ==
  /\ pc \in {"new", "accept", "hello"} => toChild = <<>> /\ child # "serve"
  /\ pc \in InRun /\ child \in Unserved => toChild # <<>>
  /\ child \in Unserved /\ toChild # <<>> => Head(toChild).kind = "HelloAck"
  /\ \A i \in DOMAIN toChild : i # 1 => toChild[i].kind # "HelloAck"
  /\ child = "serve" => \A i \in DOMAIN toChild : toChild[i].kind # "HelloAck"

QueueInv == TypeOK /\ AnswerComesFirst /\ AcceptedChildIsProven

\* The ends of a queue after appending to it, and what is left of it after its
\* head is taken.
LEMMA Enqueued ==
  ASSUME NEW S, NEW q \in Seq(S), NEW m \in S
  PROVE  /\ Append(q, m) # <<>>
         /\ Head(Append(q, m)) = IF q = <<>> THEN m ELSE Head(q)
<1>1. Append(q, m) # <<>> /\ Head(Append(q, m)) = Append(q, m)[1]
  OBVIOUS
<1>2. CASE q = <<>>
  BY <1>1, <1>2
<1>3. CASE q # <<>>
  <2>1. Len(q) >= 1 /\ Append(q, m)[1] = q[1] /\ Head(q) = q[1]
    BY <1>3
  <2> QED BY <1>1, <1>3, <2>1
<1> QED BY <1>1, <1>2, <1>3

LEMMA Dequeued ==
  ASSUME NEW S, NEW q \in Seq(S), q # <<>>
  PROVE  /\ Head(q) = q[1]
         /\ DOMAIN Tail(q) = 1 .. Len(q) - 1
         /\ \A i \in DOMAIN Tail(q) : Tail(q)[i] = q[i + 1] /\ i + 1 \in DOMAIN q
OBVIOUS

\* Claims that validate finds nothing wrong with are those of the child spawned.
LEMMA ValidClaims ==
  ASSUME NEW c \in HelloClaims, validate(c) = "Ok"
  PROVE  c = Expected
BY DEF validate, HelloClaims, Expected

LEMMA InitQueue == Init => QueueInv
BY InitCustody DEF Init, QueueInv, AnswerComesFirst, AcceptedChildIsProven, InRun, Unserved

(* A step that leaves the queue, the handle's claims and the child's       *)
(* progress towards serving alone, or ends the child, keeps the parts.     *)
LEMMA QueueUntouched ==
  ASSUME TypeOK, AnswerComesFirst, AcceptedChildIsProven,
         toChild' = toChild, hello' = hello,
         child' = "serve" => child = "serve",
         child' \in Unserved => child \in Unserved,
         pc' \in InRun => pc \in InRun,
         pc' \in {"new", "accept", "hello"} => pc \in {"new", "accept", "hello"}
  PROVE  AnswerComesFirst' /\ AcceptedChildIsProven'
<1>1. AcceptedChildIsProven'
  BY DEF AcceptedChildIsProven
<1>2. AnswerComesFirst'
  BY DEF AnswerComesFirst
<1> QED BY <1>1, <1>2

(* The answer of browser_side is the first message in the queue.           *)
LEMMA BrowserAnswers ==
  ASSUME TypeOK, AnswerComesFirst, AcceptedChildIsProven, browser_side
  PROVE  AnswerComesFirst' /\ AcceptedChildIsProven'
<1>1. pc = "hello" /\ child' = child /\ pc' \in {"kill", "ping"}
  BY DEF browser_side, childVars
<1>2. CASE toChild' = toChild /\ hello' = hello /\ pc' = "kill"
  BY <1>1, <1>2, QueueUntouched DEF InRun, Unserved
<1>3. CASE \E a \in BOOLEAN : /\ toChild' = Append(toChild, HelloAck(a))
                             /\ IF a THEN hello' = Expected ELSE pc' = "kill"
  <2>1. toChild = <<>> /\ child # "serve"
    BY <1>1 DEF AnswerComesFirst
  <2>2. PICK a \in BOOLEAN : /\ toChild' = Append(toChild, HelloAck(a))
                            /\ IF a THEN hello' = Expected ELSE pc' = "kill"
    BY <1>3
  <2>3. toChild' = <<HelloAck(a)>>
    BY <2>1, <2>2
  <2>4. /\ toChild' # <<>> /\ DOMAIN toChild' = {1}
        /\ toChild'[1] = HelloAck(a) /\ Head(toChild') = HelloAck(a)
    BY <2>3
  <2>5. AnswerComesFirst'
    BY <1>1, <2>1, <2>4 DEF AnswerComesFirst, HelloAck
  <2>6. AcceptedChildIsProven'
    <3>1. CASE a
      BY <2>2, <3>1 DEF AcceptedChildIsProven
    <3>2. CASE ~ a
      <4>1. HelloAck(TRUE) \notin {toChild'[i] : i \in DOMAIN toChild'}
        BY <2>4, <3>2 DEF HelloAck
      <4> QED BY <1>1, <2>1, <2>2, <3>2, <4>1 DEF AcceptedChildIsProven, InRun
    <3> QED BY <3>1, <3>2
  <2> QED BY <2>5, <2>6
<1>4. ASSUME toBrowser # <<>>, browser_verdict(Head(toBrowser)) = "accept"
      PROVE  Head(toBrowser).claims = Expected
  <2>1. Head(toBrowser) \in ToBrowser
    BY <1>4, Dequeue DEF TypeOK
  <2>2. Head(toBrowser).kind = "Hello" /\ validate(Head(toBrowser).claims) = "Ok"
    BY <1>4 DEF browser_verdict
  <2> QED BY <2>1, <2>2, MessageFields, ValidClaims
<1> QED BY <1>2, <1>3, <1>4 DEF browser_side, sent, undelivered, queues

(* The browser's later messages come after the answer and are none.        *)
LEMMA BrowserSends ==
  ASSUME TypeOK, AnswerComesFirst, AcceptedChildIsProven,
         NEW m \in {Ping(1), Shutdown}, sent(m), pc \in InRun,
         pc' \in InRun, UNCHANGED <<hello, child>>
  PROVE  AnswerComesFirst' /\ AcceptedChildIsProven'
<1>1. m \in ToChild /\ m.kind # "HelloAck" /\ toChild \in Seq(ToChild)
  BY MessageTypes DEF Ping, Shutdown, TypeOK
<1>2. /\ toChild' = Append(toChild, m) /\ toChild' # <<>>
      /\ toChild # <<>> => Head(toChild') = Head(toChild)
      /\ \A i \in DOMAIN toChild' : toChild'[i] = m \/ (i \in DOMAIN toChild /\ toChild'[i] = toChild[i])
  <2>1. toChild' = Append(toChild, m)
    BY DEF sent
  <2>2. /\ Append(toChild, m) # <<>>
        /\ Head(Append(toChild, m)) = IF toChild = <<>> THEN m ELSE Head(toChild)
    BY ONLY <1>1, Enqueued
  <2>3. \A i \in DOMAIN toChild' : toChild'[i] = m \/ (i \in DOMAIN toChild /\ toChild'[i] = toChild[i])
    <3>1. ASSUME NEW s, s = Append(toChild, m), NEW i \in DOMAIN s
          PROVE  s[i] = m \/ (i \in DOMAIN toChild /\ s[i] = toChild[i])
      BY ONLY <3>1, <1>1
    <3> QED BY ONLY <2>1, <3>1
  <2>4. /\ toChild' # <<>>
        /\ toChild # <<>> => Head(toChild') = Head(toChild)
    BY ONLY <2>1, <2>2
  <2> QED BY <2>1, <2>3, <2>4
<1>3. AnswerComesFirst'
  BY <1>1, <1>2 DEF AnswerComesFirst, InRun
<1>4. AcceptedChildIsProven'
  BY <1>1, <1>2 DEF AcceptedChildIsProven, InRun
<1> QED BY <1>3, <1>4

(* A message taken by the child was the first one.                         *)
LEMMA ChildReads ==
  ASSUME TypeOK, AnswerComesFirst, AcceptedChildIsProven,
         toChild # <<>>, toChild' = Tail(toChild), UNCHANGED <<pc, hello>>,
         \/ child = "ack" /\ child' = "serve" /\ child_verdict(Head(toChild)) = "serve"
         \/ child = "serve" /\ child' = "serve"
         \/ child \in {"ack", "serve"} /\ child' = "exited"
  PROVE  AnswerComesFirst' /\ AcceptedChildIsProven'
<1>1. toChild \in Seq(ToChild) /\ Head(toChild) \in ToChild
  BY Dequeue DEF TypeOK
<1>2. /\ Head(toChild) = toChild[1] /\ 1 \in DOMAIN toChild
      /\ \A i \in DOMAIN toChild' : /\ i + 1 \in DOMAIN toChild /\ i + 1 # 1
                                   /\ toChild'[i] = toChild[i + 1]
  BY <1>1, Dequeued
<1>3. \A i \in DOMAIN toChild' : toChild'[i].kind # "HelloAck"
  BY <1>2 DEF AnswerComesFirst
<1>4. pc \notin {"new", "accept", "hello"}
  BY DEF AnswerComesFirst
<1>5. AnswerComesFirst'
  BY <1>3, <1>4 DEF AnswerComesFirst, Unserved
<1>6. child' = "serve" => hello = Expected
  <2>1. CASE child = "serve"
    BY <2>1 DEF AcceptedChildIsProven
  <2>2. CASE child_verdict(Head(toChild)) = "serve"
    <3>1. Head(toChild) = HelloAck(TRUE)
      BY <1>1, <2>2, MessageFields DEF child_verdict
    <3> QED BY <1>2, <3>1 DEF AcceptedChildIsProven
  <2> QED BY <2>1, <2>2
<1>7. AcceptedChildIsProven'
  BY <1>2, <1>6 DEF AcceptedChildIsProven
<1> QED BY <1>5, <1>7

LEMMA QueueKept == QueueInv /\ [Next]_vars => QueueInv'
<1> SUFFICES ASSUME TypeOK, AnswerComesFirst, AcceptedChildIsProven, [Next]_vars
             PROVE  AnswerComesFirst' /\ AcceptedChildIsProven'
  BY TypeInvariant DEF QueueInv
<1> USE DEF browserVars, childVars, queues, Unserved
<1>1. CASE spawn
  <2>1. pc = "new" /\ child # "serve" /\ pc' \in {"done", "kill", "accept"}
    BY <1>1 DEF spawn, exit, AnswerComesFirst
  <2>2. child' \in {child, "start"} /\ UNCHANGED <<toChild, hello>> /\ toChild = <<>>
    BY <1>1 DEF spawn, AnswerComesFirst
  <2> QED BY <2>1, <2>2 DEF AnswerComesFirst, AcceptedChildIsProven, InRun
<1>2. CASE accept_with_timeout
  BY <1>2, QueueUntouched DEF accept_with_timeout, InRun
<1>3. CASE browser_side
  BY <1>3, BrowserAnswers
<1>4. CASE send_ping
  <2>1. CASE sent(Ping(1))
    BY <1>4, <2>1, BrowserSends DEF send_ping, InRun, undelivered, sent
  <2>2. CASE undelivered
    BY <1>4, <2>2, QueueUntouched DEF send_ping, InRun, undelivered, sent
  <2> QED BY <1>4, <2>1, <2>2 DEF send_ping
<1>5. CASE await_pong
  BY <1>5, QueueUntouched DEF await_pong, InRun
<1>6. CASE send_shutdown
  <2>1. CASE sent(Shutdown)
    BY <1>6, <2>1, BrowserSends DEF send_shutdown, InRun, undelivered, sent
  <2>2. CASE toChild' = toChild
    BY <1>6, <2>2, QueueUntouched DEF send_shutdown, InRun, undelivered, sent
  <2> QED BY <1>6, <2>1, <2>2 DEF send_shutdown, undelivered
<1>7. CASE wait \/ drop \/ kill \/ reap
  BY <1>7, QueueUntouched DEF wait, drop, kill, reap, exit, InRun
<1>8. CASE HelperStep \/ BrowserCrash
  BY <1>8, QueueUntouched DEF HelperStep, BrowserCrash, InRun
<1>9. CASE apply_sandbox \/ connect_child \/ send_hello
  BY <1>9, QueueUntouched DEF apply_sandbox, connect_child, send_hello, Reply, leave
<1>10. CASE await_ack \/ serve
  <2>1. CASE hangup
    BY <1>10, <2>1, QueueUntouched DEF await_ack, serve, hangup, leave
  <2>2. CASE ~ hangup
    BY <1>10, <2>2, ChildReads DEF await_ack, serve, Reply, leave
  <2> QED BY <2>1, <2>2
<1>11. CASE ChildCrash \/ Misbehave
  BY <1>11, QueueUntouched DEF ChildCrash, Misbehave, leave
<1>12. CASE Rest \/ UNCHANGED vars
  BY <1>12, QueueUntouched DEF Rest, vars
<1> QED
  BY <1>1, <1>2, <1>3, <1>4, <1>5, <1>6, <1>7, <1>8, <1>9, <1>10, <1>11, <1>12
  DEF Next, BrowserStep, ChildStep

LEMMA QueueInvariance == Spec => []QueueInv
BY InitQueue, QueueKept, PTL DEF Spec

(* Only a child whose claims were checked against the process that was     *)
(* spawned is accepted, whatever the child sends and whatever fails, and   *)
(* the child is never sent anything but the answer before it serves, nor a *)
(* second answer after: neither of its two bail-outs is ever taken.        *)
THEOREM HandshakeIsSound == Spec => []HandshakeHolds
<1>1. QueueInv => AcceptedChildIsProven
  BY DEF QueueInv
<1>2. QueueInv => ChildNeverSurprised
  BY DEF QueueInv, AnswerComesFirst, ChildNeverSurprised, Unserved
<1>3. QueueInv => HandshakeHolds
  BY <1>1, <1>2 DEF HandshakeHolds
<1> QED BY <1>3, QueueInvariance, PTL
-----------------------------------------------------------------------------
(***************************************************************************)
(* Where Shutdown can be.  The browser sends it once, as its last message, *)
(* before it waits; so a child of child.rs that has read it has read       *)
(* everything, and a child that has left keeps its status for wait to see. *)
(***************************************************************************)
ShutdownIsLast ==
  \A i \in DOMAIN toChild :
    toChild[i].kind = "Shutdown" => i = Len(toChild) /\ pc \in {"wait"} \cup Ended

LastWord ==
  /\ ShutdownIsLast
  /\ status # "none" => child \in {"exited", "reaped"}
  /\ status = "success" => "misbehave" \in wrong \/ toChild = <<>>
  /\ result = "ok" => pc = "done" /\ status = "success" /\ hello = Expected

(***************************************************************************)
(* While the browser goes on, all that has gone wrong is that the child    *)
(* runs another program, or that it has ended with another status than     *)
(* that of success, which stays for wait to see.                           *)
(***************************************************************************)
GoesOn == pc \in {"new", "accept", "hello", "ping", "pong", "up", "wait"} \/ result = "ok"

Blameless == wrong \subseteq {"misbehave"} \/ status \in {"error", "config", "killed"}

FailuresStop == GoesOn => Blameless

OrderInv == TypeOK /\ Custody /\ AcceptedChildIsProven /\ LastWord /\ FailuresStop

LEMMA InitOrder == Init => OrderInv
BY InitCustody, InitQueue
DEF Init, OrderInv, QueueInv, LastWord, ShutdownIsLast, FailuresStop, GoesOn, Blameless

(* A step that leaves the queue to the child alone.                        *)
LEMMA LastWordUntouched ==
  ASSUME TypeOK, LastWord, toChild' = toChild,
         hello' = hello \/ result' # "ok",
         pc \in {"wait"} \cup Ended => pc' \in {"wait"} \cup Ended,
         \/ UNCHANGED status
         \/ status' # "success" /\ child' \in {"exited", "reaped"} /\ result' # "ok"
         \/ "misbehave" \in wrong' /\ child' \in {"exited", "reaped"} /\ result' # "ok",
         child \in {"exited", "reaped"} => child' \in {"exited", "reaped"},
         wrong \subseteq wrong',
         result' = "ok" => /\ pc' = "done"
                           /\ result = "ok" \/ (status = "success" /\ hello = Expected)
  PROVE  LastWord'
<1>1. ShutdownIsLast'
  BY DEF LastWord, ShutdownIsLast
<1>2. status' # "none" => child' \in {"exited", "reaped"}
  BY DEF LastWord
<1>3. status' = "success" => "misbehave" \in wrong' \/ toChild' = <<>>
  BY DEF LastWord
<1>4. result' = "ok" => pc' = "done" /\ status' = "success" /\ hello' = Expected
  BY DEF LastWord
<1> QED BY <1>1, <1>2, <1>3, <1>4 DEF LastWord

(* A message is sent to a running child, and none after Shutdown.          *)
LEMMA LastWordSent ==
  ASSUME TypeOK, LastWord, NEW m \in ToChild, sent(m), pc \notin {"wait"} \cup Ended,
         m.kind = "Shutdown" => pc' = "wait",
         UNCHANGED <<child, status, result>>
  PROVE  LastWord'
<1>1. toChild \in Seq(ToChild) /\ toChild' = Append(toChild, m)
  BY DEF TypeOK, sent
<1>2. status = "none" /\ status' = "none" /\ result' # "ok"
  BY DEF LastWord, sent, Running
<1>3. ASSUME NEW i \in DOMAIN toChild', toChild'[i].kind = "Shutdown"
      PROVE  i = Len(toChild') /\ toChild'[i] = m
  <2>1. \/ i = Len(toChild') /\ toChild'[i] = m
        \/ i \in DOMAIN toChild /\ toChild'[i] = toChild[i]
    <3>1. ASSUME NEW s, s = Append(toChild, m), NEW k \in DOMAIN s
          PROVE  (k = Len(s) /\ s[k] = m) \/ (k \in DOMAIN toChild /\ s[k] = toChild[k])
      BY ONLY <3>1, <1>1
    <3> QED BY ONLY <1>1, <1>3, <3>1
  <2> QED BY <1>3, <2>1 DEF LastWord, ShutdownIsLast
<1> QED BY <1>2, <1>3 DEF LastWord, ShutdownIsLast

(* The child takes the first message; if that is Shutdown, nothing is left *)
LEMMA LastWordRead ==
  ASSUME TypeOK, LastWord, child \in {"ack", "serve"},
         toChild # <<>>, toChild' = Tail(toChild), UNCHANGED <<pc, hello, result, wrong>>,
         status' # "none" => child' = "exited",
         status' = "success" => Head(toChild).kind = "Shutdown"
  PROVE  LastWord'
<1>1. toChild \in Seq(ToChild)
  BY DEF TypeOK
<1>2. /\ Head(toChild) = toChild[1] /\ 1 \in DOMAIN toChild
      /\ DOMAIN toChild' = 1 .. Len(toChild) - 1 /\ Len(toChild') = Len(toChild) - 1
      /\ \A i \in DOMAIN toChild' : toChild'[i] = toChild[i + 1] /\ i + 1 \in DOMAIN toChild
  BY <1>1, Dequeued
<1>3. status = "none" /\ result # "ok"
  BY DEF LastWord
<1>4. ASSUME NEW i \in DOMAIN toChild', toChild'[i].kind = "Shutdown"
      PROVE  i = Len(toChild') /\ pc' \in {"wait"} \cup Ended
  BY <1>1, <1>2, <1>4 DEF LastWord, ShutdownIsLast
<1>5. status' = "success" => toChild' = <<>>
  <2>1. SUFFICES ASSUME status' = "success" PROVE toChild' = <<>>
    OBVIOUS
  <2>2. Len(toChild) = 1
    BY <1>2, <2>1 DEF LastWord, ShutdownIsLast
  <2> QED BY <1>1, <2>2
<1> QED BY <1>3, <1>4, <1>5 DEF LastWord, ShutdownIsLast

LEMMA LastWordKept == OrderInv /\ [Next]_vars => LastWord'
<1> SUFFICES ASSUME TypeOK, Custody, AcceptedChildIsProven, LastWord, [Next]_vars
             PROVE  LastWord'
  BY DEF OrderInv
<1> USE DEF TypeOK, InSpawn, InRun, Ended, Running, browserVars, childVars, queues, fault
<1>r. result = "ok" => pc = "done"
  BY DEF LastWord
<1>1. CASE spawn
  BY <1>1, <1>r, LastWordUntouched DEF spawn, exit, Custody
<1>2. CASE accept_with_timeout
  BY <1>2, <1>r, LastWordUntouched DEF accept_with_timeout
<1>3. CASE browser_side
  <2>1. CASE toChild' = toChild /\ hello' = hello
    BY <1>3, <2>1, <1>r, LastWordUntouched DEF browser_side, silence
  <2>2. CASE \E a \in BOOLEAN : sent(HelloAck(a))
    <3>1. PICK a \in BOOLEAN : sent(HelloAck(a))
      BY <2>2
    <3>2. HelloAck(a) \in ToChild /\ HelloAck(a).kind # "Shutdown"
      BY DEF ToChild, HelloAck
    <3> QED BY <1>3, <3>1, <3>2, LastWordSent DEF browser_side
  <2> QED BY <1>3, <2>1, <2>2 DEF browser_side, undelivered
<1>4. CASE send_ping
  <2>1. CASE sent(Ping(1))
    BY <1>4, <2>1, MessageTypes, LastWordSent DEF send_ping, Ping
  <2>2. CASE undelivered
    BY <1>4, <2>2, <1>r, LastWordUntouched DEF send_ping, undelivered, sent
  <2> QED BY <1>4, <2>1, <2>2 DEF send_ping
<1>5. CASE await_pong
  BY <1>5, <1>r, LastWordUntouched DEF await_pong, silence
<1>6. CASE send_shutdown
  <2>1. CASE sent(Shutdown) /\ pc' = "wait"
    BY <1>6, <2>1, MessageTypes, LastWordSent DEF send_shutdown
  <2>2. CASE toChild' = toChild
    BY <1>6, <2>2, <1>r, LastWordUntouched DEF send_shutdown
  <2> QED BY <1>6, <2>1, <2>2 DEF send_shutdown, undelivered
<1>7. CASE wait
  BY <1>7, LastWordUntouched DEF wait, exit, AcceptedChildIsProven
<1>8. CASE drop \/ reap
  BY <1>8, <1>r, LastWordUntouched DEF drop, reap, exit
<1>9. CASE kill
  BY <1>9, <1>r, LastWordUntouched DEF kill, LastWord
<1>10. CASE HelperStep \/ BrowserCrash
  BY <1>10, <1>r, LastWordUntouched DEF HelperStep, BrowserCrash
<1>11. CASE apply_sandbox \/ connect_child \/ send_hello
  BY <1>11, <1>r, LastWordUntouched
  DEF apply_sandbox, connect_child, send_hello, Reply, leave, LastWord
<1>12. CASE await_ack \/ serve
  <2>1. CASE hangup
    BY <1>12, <2>1, <1>r, LastWordUntouched DEF await_ack, serve, hangup, leave, LastWord
  <2>2. CASE ~ hangup
    BY <1>12, <2>2, LastWordRead DEF await_ack, serve, Reply, leave, LastWord
  <2> QED BY <2>1, <2>2
<1>13. CASE ChildCrash \/ Misbehave
  BY <1>13, <1>r, LastWordUntouched DEF ChildCrash, Misbehave, leave, LastWord
<1>14. CASE Rest \/ UNCHANGED vars
  BY <1>14, <1>r, LastWordUntouched DEF Rest, vars
<1> QED
  BY <1>1, <1>2, <1>3, <1>4, <1>5, <1>6, <1>7, <1>8, <1>9, <1>10, <1>11, <1>12, <1>13, <1>14
  DEF Next, BrowserStep, ChildStep

(* A failure the browser sees makes it give up; one of the child leaves a  *)
(* status that is none of success, and the child does not get another.     *)
LEMMA FailuresStopKept == OrderInv /\ [Next]_vars => FailuresStop'
<1> SUFFICES ASSUME TypeOK, Custody, LastWord, FailuresStop, [Next]_vars
             PROVE  FailuresStop'
  BY DEF OrderInv
<1> USE DEF FailuresStop, GoesOn, Blameless, InSpawn, InRun, Ended, Running,
            browserVars, childVars, fault
<1>r. /\ child \in Running \cup {"none"} => status = "none"
      /\ result = "ok" => pc = "done" /\ status = "success"
  BY DEF LastWord, TypeOK
<1>1. CASE spawn \/ accept_with_timeout \/ browser_side
  BY <1>1, <1>r DEF spawn, exit, accept_with_timeout, browser_side, silence
<1>2. CASE send_ping \/ await_pong \/ send_shutdown
  BY <1>2, <1>r DEF send_ping, await_pong, send_shutdown, silence
<1>3. CASE wait \/ drop \/ kill \/ reap
  BY <1>3, <1>r DEF wait, drop, kill, reap, exit, LastWord, Custody
<1>4. CASE HelperStep \/ BrowserCrash
  BY <1>4, <1>r DEF HelperStep, BrowserCrash, LastWord, Custody
<1>5. CASE ChildStep
  BY <1>5, <1>r DEF ChildStep, apply_sandbox, connect_child, send_hello, await_ack, serve,
    hangup, Reply, leave
<1>6. CASE ChildCrash \/ Misbehave
  BY <1>6, <1>r DEF ChildCrash, Misbehave, leave
<1>7. CASE Rest \/ UNCHANGED vars
  BY <1>7 DEF Rest, vars
<1> QED BY <1>1, <1>2, <1>3, <1>4, <1>5, <1>6, <1>7 DEF Next, BrowserStep

(* run returns success only if the child had proved its identity and ended *)
(* with the status of success, and if nothing at all went wrong but that   *)
(* the child ran another program; one that ran child.rs has read           *)
(* everything it was sent.                                                 *)
THEOREM SuccessProven == Spec => []SuccessIsOrderly
<1>1. Init => QueueInv /\ OrderInv
  BY InitQueue, InitOrder
<1>2. QueueInv /\ OrderInv /\ [Next]_vars => (QueueInv /\ OrderInv)'
  BY QueueKept, LastWordKept, FailuresStopKept, CustodyKept DEF OrderInv, QueueInv
<1>3. QueueInv /\ OrderInv => SuccessIsOrderly
  BY DEF OrderInv, LastWord, FailuresStop, GoesOn, Blameless, SuccessIsOrderly
<1> QED BY <1>1, <1>2, <1>3, PTL DEF Spec
===============================================================================
