-------------------------- MODULE ElectrumRPCProofs --------------------------
(***************************************************************************)
(* Proofs about ElectrumRPC, for any number of connections, lines and      *)
(* statuses and any capacity of the channels.  When the main thread finds  *)
(* the server stopped, the thread "rpc" has joined all it had a handle of: *)
(* that these are all there are needs to know which threads exist at every *)
(* step (ThreadsKnown), and that a connection is accepted once             *)
(* (AcceptedOnce).                                                         *)
(***************************************************************************)
EXTENDS ElectrumRPC, TLAPS

\* What is in the acceptor's channel: a connection is there once, before it has
\* a handler.
AcceptedOnce ==
  /\ \A i, j \in DOMAIN accepted :
       accepted[i] = accepted[j] /\ i # j => accepted[i] = Exit
  /\ \A i \in DOMAIN accepted :
       accepted[i] # Exit =>
         conn[accepted[i]] # "none" /\ handler[accepted[i]] = "off"
  /\ \A p \in Peers : conn[p] = "none" => handler[p] = "off"

\* Which threads there are: a handler that runs has its handle in threads; a
\* reader runs after its handler has started, and not when it has ended.
ThreadsKnown ==
  /\ \A p \in Peers : handler[p] \notin {"off", "ended"} => p \in threads
  /\ \A p \in Peers : handler[p] \in {"off", "start"} <=> reader[p] = "off"
  /\ \A p \in Peers : handler[p] = "ended" => reader[p] = "done"
  /\ rpc = "ended" => threads = {}
  /\ main = "stopped" => rpc = "ended"

IInv == TypeOK /\ AcceptedOnce /\ ThreadsKnown

-----------------------------------------------------------------------------
LEMMA InitIInv == Init => IInv
BY ElectrumAssumption, SMT
   DEF Init, IInv, TypeOK, HandlerSteps, AcceptedOnce, ThreadsKnown, Messages

\* A channel that is not full stays within its capacity.
LEMMA PutWithin ==
  ASSUME TypeOK, NEW p \in Peers, NEW m \in Messages, ~Full(p), Put(p, m)
  PROVE  /\ chan' \in [Peers -> Seq(Messages)]
         /\ \A q \in Peers : Len(chan'[q]) <= Capacity
<1>1. Len(chan[p]) < Capacity
  BY ElectrumAssumption, SMT DEF TypeOK, HandlerSteps, Full
<1> QED BY <1>1, ElectrumAssumption, SMT DEF TypeOK, HandlerSteps, Put

\* Receiving shortens a channel.
LEMMA TakeWithin ==
  ASSUME TypeOK, NEW p \in Peers, chan[p] # <<>>,
         chan' = [chan EXCEPT ![p] = Tail(@)]
  PROVE  /\ chan' \in [Peers -> Seq(Messages)]
         /\ \A q \in Peers : Len(chan'[q]) <= Capacity
BY ElectrumAssumption, SMT DEF TypeOK, HandlerSteps

LEMMA TypeStep == TypeOK /\ [Next]_vars => TypeOK'
<1> SUFFICES ASSUME TypeOK, [Next]_vars PROVE TypeOK' OBVIOUS
<1> USE ElectrumAssumption DEF Goto,
        mainVars, rpcVars, connVars, peerVars
<1>1. CASE Update
  BY <1>1, SMT DEF TypeOK, HandlerSteps, Update
<1>2. CASE Drop
  BY <1>2, SMT DEF TypeOK, HandlerSteps, Drop
<1>3. CASE JoinServer
  BY <1>3, SMT DEF TypeOK, HandlerSteps, JoinServer
<1>4. CASE Notify
  <2> DEFINE sentTo(q) == q \in senders /\ ~Disconnected(q) /\ ~Full(q)
  <2>1. chan' = [q \in Peers |->
                   IF sentTo(q) THEN Append(chan[q], "update") ELSE chan[q]]
    BY <1>4 DEF Notify
  <2>2. ASSUME NEW q \in Peers
        PROVE  chan'[q] \in Seq(Messages) /\ Len(chan'[q]) <= Capacity
    BY <2>1, SMT DEF TypeOK, HandlerSteps, Full, Messages
  <2>3. chan' \in [Peers -> Seq(Messages)]
    BY <2>1, <2>2, Zenon
  <2> QED BY <1>4, <2>2, <2>3, SMT DEF TypeOK, HandlerSteps, Notify
<1>5. CASE NotifyExit
  BY <1>5, SMT DEF TypeOK, HandlerSteps, NotifyExit
<1>6. CASE Accept
  BY <1>6, SMT DEF TypeOK, HandlerSteps, Accept
<1>7. CASE AcceptExit
  BY <1>7, SMT DEF TypeOK, HandlerSteps, AcceptExit
<1>8. CASE CloseDone
  BY <1>8, SMT DEF TypeOK, HandlerSteps, CloseDone
<1>9. CASE JoinPeers
  BY <1>9, SMT DEF TypeOK, HandlerSteps, JoinPeers
<1>10. CASE \E p \in Peers : Connect(p)
  BY <1>10, SMT DEF TypeOK, HandlerSteps, Connect
<1>11. CASE \E p \in Peers : Hangup(p)
  BY <1>11, SMT DEF TypeOK, HandlerSteps, Hangup
<1>12. CASE \E p \in Peers : SendDone(p)
  <2> PICK p \in Peers : SendDone(p) BY <1>12
  <2>1. "done" \in Messages
    BY DEF Messages
  <2>2. UNCHANGED chan \/ (~Full(p) /\ Put(p, "done"))
    BY DEF SendDone
  <2>3. /\ chan' \in [Peers -> Seq(Messages)]
        /\ \A q \in Peers : Len(chan'[q]) <= Capacity
    <3>1. CASE UNCHANGED chan
      BY <3>1 DEF TypeOK, HandlerSteps
    <3>2. CASE ~Full(p) /\ Put(p, "done")
      BY <2>1, <3>2, PutWithin
    <3> QED BY <2>2, <3>1, <3>2
  <2> QED BY <2>3, SMT DEF TypeOK, HandlerSteps, SendDone
<1>13. CASE \E p \in Peers : ReadLine(p)
  <2> PICK p \in Peers : ReadLine(p) BY <1>13
  <2>1. PICK kind \in Kinds[p] :
          held' = [held EXCEPT ![p] = IF kind = "binary" THEN "done" ELSE kind]
    BY DEF ReadLine
  <2>2. kind \in Requests \cup {"binary"}
    BY SMT DEF Requests
  <2>3. held' \in [Peers -> Messages]
    BY <2>1, <2>2, SMT DEF TypeOK, HandlerSteps, Requests, Messages
  <2> QED BY <2>3, SMT DEF TypeOK, HandlerSteps, ReadLine
<1>14. CASE \E p \in Peers : ReadEof(p)
  <2> PICK p \in Peers : ReadEof(p) BY <1>14
  <2> QED BY SMT DEF TypeOK, HandlerSteps, ReadEof, Requests, Messages
<1>15. CASE \E p \in Peers : ReadFails(p)
  BY <1>15, SMT DEF TypeOK, HandlerSteps, ReadFails
<1>16. CASE \E p \in Peers : SendToHandler(p)
  <2> PICK p \in Peers : SendToHandler(p) BY <1>16
  <2>1. held[p] \in Messages /\ "done" \in Messages
    BY SMT DEF TypeOK, HandlerSteps, Messages
  <2>2. /\ chan' \in [Peers -> Seq(Messages)]
        /\ \A q \in Peers : Len(chan'[q]) <= Capacity
    BY <2>1, PutWithin DEF SendToHandler
  <2>3. held' \in [Peers -> Messages]
    BY <2>1, SMT DEF TypeOK, HandlerSteps, SendToHandler
  <2>4. reader' \in [Peers -> {"off", "read", "send", "done"}]
    BY SMT DEF TypeOK, HandlerSteps, SendToHandler
  <2> QED BY <2>2, <2>3, <2>4, SMT DEF TypeOK, HandlerSteps, SendToHandler
<1>17. CASE \E p \in Peers : Register(p)
  BY <1>17, SMT DEF TypeOK, HandlerSteps, Register
<1>18. CASE \E p \in Peers : RecvSubscribe(p)
  <2> PICK p \in Peers : RecvSubscribe(p) BY <1>18
  <2>1. chan[p] # <<>> /\ chan' = [chan EXCEPT ![p] = Tail(@)]
    BY DEF RecvSubscribe, Recv
  <2>2. /\ chan' \in [Peers -> Seq(Messages)]
        /\ \A q \in Peers : Len(chan'[q]) <= Capacity
    BY <2>1, TakeWithin
  <2> QED BY <2>2, SMT DEF TypeOK, HandlerSteps, RecvSubscribe, Recv
<1>19. CASE \E p \in Peers : RecvBroadcast(p)
  <2> PICK p \in Peers : RecvBroadcast(p) BY <1>19
  <2>1. chan[p] # <<>> /\ chan' = [chan EXCEPT ![p] = Tail(@)]
    BY DEF RecvBroadcast, Recv
  <2>2. /\ chan' \in [Peers -> Seq(Messages)]
        /\ \A q \in Peers : Len(chan'[q]) <= Capacity
    BY <2>1, TakeWithin
  <2> QED BY <2>2, SMT DEF TypeOK, HandlerSteps, RecvBroadcast, Recv
<1>20. CASE \E p \in Peers : RecvUpdate(p)
  <2> PICK p \in Peers : RecvUpdate(p) BY <1>20
  <2>1. chan[p] # <<>> /\ chan' = [chan EXCEPT ![p] = Tail(@)]
    BY DEF RecvUpdate, Recv
  <2>2. /\ chan' \in [Peers -> Seq(Messages)]
        /\ \A q \in Peers : Len(chan'[q]) <= Capacity
    BY <2>1, TakeWithin
  <2>3. \/ UNCHANGED handler
        \/ \E next \in {"recv", "write", "join"} : Goto(p, next)
    BY Zenon DEF RecvUpdate
  <2>4. UNCHANGED hash \/ hash' = [hash EXCEPT ![p] = status]
    BY DEF RecvUpdate
  <2>5. UNCHANGED <<mainVars, rpcVars, connVars, reader, held>>
    BY DEF RecvUpdate, Recv
  <2>6. handler' \in [Peers -> HandlerSteps]
    <3>1. CASE UNCHANGED handler
      BY <3>1 DEF TypeOK, HandlerSteps
    <3>2. ASSUME NEW next \in {"recv", "write", "join"}, Goto(p, next)
          PROVE  handler' \in [Peers -> HandlerSteps]
      BY <3>2, SMT DEF TypeOK, HandlerSteps
    <3> QED BY <2>3, <3>1, <3>2
  <2>7. hash' \in [Peers -> Statuses \cup {NoStatus}]
    <3>1. status \in Statuses /\ hash \in [Peers -> Statuses \cup {NoStatus}]
      BY DEF TypeOK, HandlerSteps
    <3> QED BY <2>4, <3>1, SMT
  <2> QED BY <2>2, <2>5, <2>6, <2>7, SMT DEF TypeOK, HandlerSteps
<1>21. CASE \E p \in Peers : RecvLast(p)
  <2> PICK p \in Peers : RecvLast(p) BY <1>21
  <2>1. chan[p] # <<>> /\ chan' = [chan EXCEPT ![p] = Tail(@)]
    BY DEF RecvLast, Recv
  <2>2. /\ chan' \in [Peers -> Seq(Messages)]
        /\ \A q \in Peers : Len(chan'[q]) <= Capacity
    BY <2>1, TakeWithin
  <2> QED BY <2>2, SMT DEF TypeOK, HandlerSteps, RecvLast, Recv
<1>22. CASE \E p \in Peers : Broadcast(p)
  <2> PICK p \in Peers : Broadcast(p) BY <1>22
  <2>1. "update" \in Messages
    BY DEF Messages
  <2>2. UNCHANGED chan \/ (~Full(p) /\ Put(p, "update"))
    BY DEF Broadcast
  <2>3. /\ chan' \in [Peers -> Seq(Messages)]
        /\ \A q \in Peers : Len(chan'[q]) <= Capacity
    <3>1. CASE UNCHANGED chan
      BY <3>1 DEF TypeOK, HandlerSteps
    <3>2. CASE ~Full(p) /\ Put(p, "update")
      BY <2>1, <3>2, PutWithin
    <3> QED BY <2>2, <3>1, <3>2
  <2>4. status' \in Statuses
    BY DEF TypeOK, HandlerSteps, Broadcast
  <2>5. /\ Goto(p, "write")
        /\ UNCHANGED <<main, notification, rpcVars, connVars, reader, held, hash>>
    BY DEF Broadcast
  <2> QED BY <2>3, <2>4, <2>5, SMT DEF TypeOK, HandlerSteps
<1>23. CASE \E p \in Peers : Write(p)
  <2> PICK p \in Peers : Write(p) BY <1>23
  <2>1. \E next \in {"recv", "join"} : Goto(p, next)
    BY Zenon DEF Write
  <2>2. UNCHANGED <<mainVars, rpcVars, connVars, reader, held, chan, hash>>
    BY DEF Write
  <2> QED BY <2>1, <2>2, SMT DEF TypeOK, HandlerSteps
<1>24. CASE \E p \in Peers : JoinReader(p)
  <2> PICK p \in Peers : JoinReader(p) BY <1>24
  <2> QED BY SMT DEF TypeOK, HandlerSteps, JoinReader, Requests, Messages
<1>25. CASE UNCHANGED vars
  BY <1>25, SMT DEF TypeOK, HandlerSteps, vars
<1> QED
  BY <1>1, <1>2, <1>3, <1>4, <1>5, <1>6, <1>7, <1>8, <1>9, <1>10, <1>11,
     <1>12, <1>13, <1>14, <1>15, <1>16, <1>17, <1>18, <1>19, <1>20, <1>21,
     <1>22, <1>23, <1>24, <1>25
     DEF Next, Client, Notifier, Rpc, ReadEnds, Handler

LEMMA AcceptedOnceStep == TypeOK /\ AcceptedOnce /\ [Next]_vars => AcceptedOnce'
<1> SUFFICES ASSUME TypeOK, AcceptedOnce, [Next]_vars PROVE AcceptedOnce' OBVIOUS
<1> USE ElectrumAssumption DEF TypeOK, HandlerSteps, AcceptedOnce, Goto,
        mainVars, rpcVars, connVars, peerVars
<1>1. CASE Update
  BY <1>1, SMT DEF Update
<1>2. CASE Drop
  BY <1>2, SMT DEF Drop
<1>3. CASE JoinServer
  BY <1>3, SMT DEF JoinServer
<1>4. CASE Notify
  BY <1>4, SMT DEF Notify
<1>5. CASE NotifyExit
  BY <1>5, SMT DEF NotifyExit
<1>6. CASE Accept
  <2> DEFINE who == Head(accepted)
  <2>1. \A i \in DOMAIN accepted' :
          i \in Nat /\ i # 0 /\ i + 1 \in DOMAIN accepted /\ accepted'[i] = accepted[i + 1]
    BY <1>6, SMT DEF Accept
  <2>2. /\ 1 \in DOMAIN accepted /\ who = accepted[1] /\ who # Exit
        /\ conn[who] # "none"
    BY <1>6, SMT DEF Accept
  <2>3. conn' = conn /\ \A p \in Peers \ {who} : handler'[p] = handler[p]
    BY <1>6, SMT DEF Accept
  <2> HIDE DEF who
  <2>4. \A i \in DOMAIN accepted' : accepted'[i] # who
    <3> TAKE i \in DOMAIN accepted'
    <3>1. i \in Nat /\ i # 0 /\ i + 1 \in DOMAIN accepted /\ accepted'[i] = accepted[i + 1] /\ i + 1 # 1
      BY <2>1
    <3> QED BY <2>2, <3>1
  <2>5. \A i, j \in DOMAIN accepted' :
          accepted'[i] = accepted'[j] /\ i # j => accepted'[i] = Exit
    <3> SUFFICES ASSUME NEW i \in DOMAIN accepted', NEW j \in DOMAIN accepted',
                        accepted'[i] = accepted'[j], i # j
                 PROVE  accepted'[i] = Exit
      OBVIOUS
    <3>1. /\ i + 1 \in DOMAIN accepted /\ accepted'[i] = accepted[i + 1]
          /\ j + 1 \in DOMAIN accepted /\ accepted'[j] = accepted[j + 1]
          /\ i + 1 # j + 1
      BY <2>1
    <3> QED BY <3>1
  <2>6. \A i \in DOMAIN accepted' :
          accepted'[i] # Exit => conn'[accepted'[i]] # "none" /\ handler'[accepted'[i]] = "off"
    <3> SUFFICES ASSUME NEW i \in DOMAIN accepted', accepted'[i] # Exit
                 PROVE  conn'[accepted'[i]] # "none" /\ handler'[accepted'[i]] = "off"
      OBVIOUS
    <3> DEFINE p == accepted'[i]
    <3>1. i + 1 \in DOMAIN accepted /\ p = accepted[i + 1] /\ p # who
      BY <2>1, <2>4
    <3>2. p \in Peers /\ conn[p] # "none" /\ handler[p] = "off"
      BY <3>1
    <3> QED BY <2>3, <3>1, <3>2
  <2>7. \A p \in Peers : conn'[p] = "none" => handler'[p] = "off"
    BY <2>2, <2>3
  <2> QED BY <2>5, <2>6, <2>7
<1>7. CASE AcceptExit
  <2>1. \A i \in DOMAIN accepted' :
          i + 1 \in DOMAIN accepted /\ accepted'[i] = accepted[i + 1]
    BY <1>7, SMT DEF AcceptExit
  <2>2. \A i \in DOMAIN accepted' : i \in Nat
    BY <1>7, SMT DEF AcceptExit
  <2>3. UNCHANGED <<conn, handler>>
    BY <1>7 DEF AcceptExit
  <2>4. \A i, j \in DOMAIN accepted' :
          accepted'[i] = accepted'[j] /\ i # j => accepted'[i] = Exit
    <3> SUFFICES ASSUME NEW i \in DOMAIN accepted', NEW j \in DOMAIN accepted',
                        accepted'[i] = accepted'[j], i # j
                 PROVE  accepted'[i] = Exit
      OBVIOUS
    <3>1. i + 1 \in DOMAIN accepted /\ j + 1 \in DOMAIN accepted /\ i + 1 # j + 1
      BY <2>1, <2>2
    <3>2. accepted'[i] = accepted[i + 1] /\ accepted'[j] = accepted[j + 1]
      BY <2>1
    <3> QED BY <3>1, <3>2
  <2>5. \A i \in DOMAIN accepted' :
          accepted'[i] # Exit => conn'[accepted'[i]] # "none" /\ handler'[accepted'[i]] = "off"
    BY <2>1, <2>3
  <2>6. \A p \in Peers : conn'[p] = "none" => handler'[p] = "off"
    BY <2>3
  <2> QED BY <2>4, <2>5, <2>6
<1>8. CASE CloseDone
  BY <1>8, SMT DEF CloseDone
<1>9. CASE JoinPeers
  BY <1>9, SMT DEF JoinPeers
<1>10. CASE \E p \in Peers : Connect(p)
  <2> PICK p \in Peers : Connect(p) BY <1>10
  <2> QED BY SMT DEF Connect
<1>11. CASE \E p \in Peers : Hangup(p)
  <2> PICK p \in Peers : Hangup(p) BY <1>11
  <2> QED BY SMT DEF Hangup
<1>12. CASE \E p \in Peers : SendDone(p)
  <2> PICK p \in Peers : SendDone(p) BY <1>12
  <2> QED BY SMT DEF SendDone
<1>13. CASE \E p \in Peers : ReadLine(p)
  <2> PICK p \in Peers : ReadLine(p) BY <1>13
  <2> QED BY SMT DEF ReadLine
<1>14. CASE \E p \in Peers : ReadEof(p)
  <2> PICK p \in Peers : ReadEof(p) BY <1>14
  <2> QED BY SMT DEF ReadEof
<1>15. CASE \E p \in Peers : ReadFails(p)
  <2> PICK p \in Peers : ReadFails(p) BY <1>15
  <2> QED BY SMT DEF ReadFails
<1>16. CASE \E p \in Peers : SendToHandler(p)
  <2> PICK p \in Peers : SendToHandler(p) BY <1>16
  <2> QED BY SMT DEF SendToHandler
<1>17. CASE \E p \in Peers : Register(p)
  <2> PICK p \in Peers : Register(p) BY <1>17
  <2> QED BY SMT DEF Register
<1>18. CASE \E p \in Peers : RecvSubscribe(p)
  <2> PICK p \in Peers : RecvSubscribe(p) BY <1>18
  <2> QED BY SMT DEF RecvSubscribe, Recv
<1>19. CASE \E p \in Peers : RecvBroadcast(p)
  <2> PICK p \in Peers : RecvBroadcast(p) BY <1>19
  <2> QED BY SMT DEF RecvBroadcast, Recv
<1>20. CASE \E p \in Peers : RecvUpdate(p)
  <2> PICK p \in Peers : RecvUpdate(p) BY <1>20
  <2>1. UNCHANGED <<accepted, conn>> /\ handler[p] = "recv"
    BY SMT DEF RecvUpdate, Recv
  <2>2. \/ handler' = handler
        \/ \E next \in {"recv", "write", "join"} : handler' = [handler EXCEPT ![p] = next]
    BY SMT DEF RecvUpdate
  <2>3. \A r \in Peers : handler[r] = "off" => handler'[r] = "off"
    BY <2>1, <2>2
  <2> QED BY <2>1, <2>3, SMT
<1>21. CASE \E p \in Peers : RecvLast(p)
  <2> PICK p \in Peers : RecvLast(p) BY <1>21
  <2> QED BY SMT DEF RecvLast, Recv
<1>22. CASE \E p \in Peers : Broadcast(p)
  <2> PICK p \in Peers : Broadcast(p) BY <1>22
  <2> QED BY SMT DEF Broadcast
<1>23. CASE \E p \in Peers : Write(p)
  <2> PICK p \in Peers : Write(p) BY <1>23
  <2> QED BY SMT DEF Write
<1>24. CASE \E p \in Peers : JoinReader(p)
  <2> PICK p \in Peers : JoinReader(p) BY <1>24
  <2> QED BY SMT DEF JoinReader
<1>25. CASE UNCHANGED vars
  BY <1>25, SMT DEF vars
<1> QED
  BY <1>1, <1>2, <1>3, <1>4, <1>5, <1>6, <1>7, <1>8, <1>9, <1>10, <1>11,
     <1>12, <1>13, <1>14, <1>15, <1>16, <1>17, <1>18, <1>19, <1>20, <1>21,
     <1>22, <1>23, <1>24, <1>25
     DEF Next, Client, Notifier, Rpc, ReadEnds, Handler

LEMMA ThreadsKnownStep ==
  TypeOK /\ AcceptedOnce /\ ThreadsKnown /\ [Next]_vars => ThreadsKnown'
<1> SUFFICES ASSUME TypeOK, AcceptedOnce, ThreadsKnown, [Next]_vars
             PROVE  ThreadsKnown'
  OBVIOUS
<1> USE ElectrumAssumption DEF TypeOK, HandlerSteps, ThreadsKnown, Goto,
        mainVars, rpcVars, connVars, peerVars
<1>1. CASE Update
  BY <1>1, SMT DEF Update
<1>2. CASE Drop
  BY <1>2, SMT DEF Drop
<1>3. CASE JoinServer
  BY <1>3, SMT DEF JoinServer
<1>4. CASE Notify
  BY <1>4, SMT DEF Notify
<1>5. CASE NotifyExit
  BY <1>5, SMT DEF NotifyExit
<1>6. CASE Accept
  <2> DEFINE q == Head(accepted)
  <2>1. q \in Peers /\ handler[q] = "off"
    <3>1. 1 \in DOMAIN accepted /\ q = accepted[1] /\ q # Exit
      BY <1>6, SMT DEF Accept
    <3>2. accepted[1] \in Peers \cup {Exit}
      BY <3>1, SMT
    <3> QED BY <3>1, <3>2, SMT DEF AcceptedOnce
  <2>2. reader[q] = "off"
    BY <2>1
  <2>3. handler' = [handler EXCEPT ![q] = "start"] /\ reader' = reader
    BY <1>6 DEF Accept
  <2>4. threads' = {p \in threads : handler[p] # "ended"} \cup {q}
    BY <1>6 DEF Accept
  <2>5. rpc = "accept" /\ rpc' = rpc /\ main' = main
    BY <1>6 DEF Accept
  <2> HIDE DEF q
  <2> QED BY <2>1, <2>2, <2>3, <2>4, <2>5, SMT
<1>7. CASE AcceptExit
  BY <1>7, SMT DEF AcceptExit
<1>8. CASE CloseDone
  BY <1>8, SMT DEF CloseDone
<1>9. CASE JoinPeers
  BY <1>9, SMT DEF JoinPeers
<1>10. CASE \E p \in Peers : Connect(p)
  <2> PICK p \in Peers : Connect(p) BY <1>10
  <2> QED BY SMT DEF Connect
<1>11. CASE \E p \in Peers : Hangup(p)
  <2> PICK p \in Peers : Hangup(p) BY <1>11
  <2> QED BY SMT DEF Hangup
<1>12. CASE \E p \in Peers : SendDone(p)
  <2> PICK p \in Peers : SendDone(p) BY <1>12
  <2> QED BY SMT DEF SendDone
<1>13. CASE \E p \in Peers : ReadLine(p)
  <2> PICK p \in Peers : ReadLine(p) BY <1>13
  <2> QED BY SMT DEF ReadLine
<1>14. CASE \E p \in Peers : ReadEof(p)
  <2> PICK p \in Peers : ReadEof(p) BY <1>14
  <2> QED BY SMT DEF ReadEof
<1>15. CASE \E p \in Peers : ReadFails(p)
  <2> PICK p \in Peers : ReadFails(p) BY <1>15
  <2> QED BY SMT DEF ReadFails
<1>16. CASE \E p \in Peers : SendToHandler(p)
  <2> PICK p \in Peers : SendToHandler(p) BY <1>16
  <2> QED BY SMT DEF SendToHandler
<1>17. CASE \E p \in Peers : Register(p)
  <2> PICK p \in Peers : Register(p) BY <1>17
  <2> QED BY SMT DEF Register
<1>18. CASE \E p \in Peers : RecvSubscribe(p)
  <2> PICK p \in Peers : RecvSubscribe(p) BY <1>18
  <2> QED BY SMT DEF RecvSubscribe, Recv
<1>19. CASE \E p \in Peers : RecvBroadcast(p)
  <2> PICK p \in Peers : RecvBroadcast(p) BY <1>19
  <2> QED BY SMT DEF RecvBroadcast, Recv
<1>20. CASE \E p \in Peers : RecvUpdate(p)
  <2> PICK p \in Peers : RecvUpdate(p) BY <1>20
  <2>1. UNCHANGED handler \/ \E next \in {"recv", "write", "join"} : Goto(p, next)
    BY Zenon DEF RecvUpdate
  <2>2. handler[p] = "recv" /\ UNCHANGED <<main, rpc, threads, reader>>
    BY DEF RecvUpdate, Recv
  <2>3. CASE UNCHANGED handler
    BY <2>2, <2>3, SMT
  <2>4. CASE \E next \in {"recv", "write", "join"} : Goto(p, next)
    BY <2>2, <2>4, SMT
  <2> QED BY <2>1, <2>3, <2>4
<1>21. CASE \E p \in Peers : RecvLast(p)
  <2> PICK p \in Peers : RecvLast(p) BY <1>21
  <2> QED BY SMT DEF RecvLast, Recv
<1>22. CASE \E p \in Peers : Broadcast(p)
  <2> PICK p \in Peers : Broadcast(p) BY <1>22
  <2> QED BY SMT DEF Broadcast
<1>23. CASE \E p \in Peers : Write(p)
  <2> PICK p \in Peers : Write(p) BY <1>23
  <2>1. \E next \in {"recv", "join"} : Goto(p, next)
    BY Zenon DEF Write
  <2>2. handler[p] = "write" /\ UNCHANGED <<main, rpc, threads, reader>>
    BY DEF Write
  <2> QED BY <2>1, <2>2, SMT
<1>24. CASE \E p \in Peers : JoinReader(p)
  <2> PICK p \in Peers : JoinReader(p) BY <1>24
  <2> QED BY SMT DEF JoinReader
<1>25. CASE UNCHANGED vars
  BY <1>25, SMT DEF vars
<1> QED
  BY <1>1, <1>2, <1>3, <1>4, <1>5, <1>6, <1>7, <1>8, <1>9, <1>10, <1>11,
     <1>12, <1>13, <1>14, <1>15, <1>16, <1>17, <1>18, <1>19, <1>20, <1>21,
     <1>22, <1>23, <1>24, <1>25
     DEF Next, Client, Notifier, Rpc, ReadEnds, Handler

-----------------------------------------------------------------------------
LEMMA Invariance == Spec => []IInv
<1>1. IInv /\ [Next]_vars => IInv'
  BY TypeStep, AcceptedOnceStep, ThreadsKnownStep DEF IInv
<1> QED BY InitIInv, <1>1, PTL DEF Spec

\* Whatever the capacity of the channels and however many threads send to one,
\* none holds more than that, and every variable has its type.
THEOREM TypeCorrect == Spec => []TypeOK
<1>1. IInv => TypeOK
  BY DEF IInv
<1> QED BY Invariance, <1>1, PTL

\* When drop() of RPC has returned, handlers and readers of all connections that
\* were ever accepted have ended.
THEOREM StoppedHasEnded == Spec => []StoppedMeansEnded
<1>1. ASSUME IInv PROVE StoppedMeansEnded
  <2> SUFFICES ASSUME main = "stopped", NEW p \in Peers
               PROVE  handler[p] \in {"off", "ended"} /\ reader[p] \in {"off", "done"}
    BY DEF StoppedMeansEnded
  <2>1. handler[p] \in {"off", "ended"}
    BY <1>1 DEF IInv, ThreadsKnown
  <2> QED BY <1>1, <2>1 DEF IInv, ThreadsKnown
<1> QED BY Invariance, <1>1, PTL

\* A handler that waits for a reader that waits for it is never released: not by
\* the client, the notifier or the shutdown.
THEOREM WedgedStays == Spec => WedgedForever
<1>1. ASSUME TypeOK, AcceptedOnce, [Next]_vars, NEW p \in Peers, Wedged(p)
      PROVE  Wedged(p)'
  <2> USE <1>1, ElectrumAssumption
      DEF TypeOK, HandlerSteps, Wedged, Full, Goto,
        mainVars, rpcVars, connVars, peerVars
  <2>1. CASE Update
    BY <2>1, SMT DEF Update
  <2>2. CASE Drop
    BY <2>2, SMT DEF Drop
  <2>3. CASE JoinServer
    BY <2>3, SMT DEF JoinServer
  <2>4. CASE Notify
    BY <2>4, SMT DEF Notify
  <2>5. CASE NotifyExit
    BY <2>5, SMT DEF NotifyExit
  <2>6. CASE Accept
    <3>1. 1 \in DOMAIN accepted /\ Head(accepted) = accepted[1] /\ accepted[1] # Exit
      BY <2>6, SMT DEF Accept
    <3>2. handler[Head(accepted)] = "off"
      BY <3>1 DEF AcceptedOnce
    <3>3. Head(accepted) # p
      BY <3>2
    <3> QED BY <2>6, <3>3, SMT DEF Accept
  <2>7. CASE AcceptExit
    BY <2>7, SMT DEF AcceptExit
  <2>8. CASE CloseDone
    BY <2>8, SMT DEF CloseDone
  <2>9. CASE JoinPeers
    BY <2>9, SMT DEF JoinPeers
  <2>10. CASE \E q \in Peers : Connect(q)
    BY <2>10, SMT DEF Connect
  <2>11. CASE \E q \in Peers : Hangup(q)
    BY <2>11, SMT DEF Hangup
  <2>12. CASE \E q \in Peers : SendDone(q)
    <3>1. PICK q \in Peers : SendDone(q) BY <2>12
    <3>2. UNCHANGED chan \/ (q # p /\ Put(q, "done"))
      BY <3>1 DEF SendDone
    <3>3. UNCHANGED chan[p]
      BY <3>2, SMT DEF Put
    <3>4. UNCHANGED <<handler, reader>>
      BY <3>1 DEF SendDone
    <3> QED BY <3>3, <3>4
  <2>13. CASE \E q \in Peers : ReadLine(q)
    BY <2>13, SMT DEF ReadLine
  <2>14. CASE \E q \in Peers : ReadEof(q)
    BY <2>14, SMT DEF ReadEof
  <2>15. CASE \E q \in Peers : ReadFails(q)
    BY <2>15, SMT DEF ReadFails
  <2>16. CASE \E q \in Peers : SendToHandler(q)
    BY <2>16, SMT DEF SendToHandler, Put
  <2>17. CASE \E q \in Peers : Register(q)
    BY <2>17, SMT DEF Register
  <2>18. CASE \E q \in Peers : RecvSubscribe(q)
    BY <2>18, SMT DEF RecvSubscribe, Recv
  <2>19. CASE \E q \in Peers : RecvBroadcast(q)
    BY <2>19, SMT DEF RecvBroadcast, Recv
  <2>20. CASE \E q \in Peers : RecvUpdate(q)
    BY <2>20, SMT DEF RecvUpdate, Recv
  <2>21. CASE \E q \in Peers : RecvLast(q)
    BY <2>21, SMT DEF RecvLast, Recv
  <2>22. CASE \E q \in Peers : Broadcast(q)
    BY <2>22, SMT DEF Broadcast, Put
  <2>23. CASE \E q \in Peers : Write(q)
    BY <2>23, SMT DEF Write
  <2>24. CASE \E q \in Peers : JoinReader(q)
    BY <2>24, SMT DEF JoinReader
  <2>25. CASE UNCHANGED vars
    BY <2>25, SMT DEF vars
  <2> QED
    BY <2>1, <2>2, <2>3, <2>4, <2>5, <2>6, <2>7, <2>8, <2>9, <2>10, <2>11,
       <2>12, <2>13, <2>14, <2>15, <2>16, <2>17, <2>18, <2>19, <2>20, <2>21,
       <2>22, <2>23, <2>24, <2>25
       DEF Next, Client, Notifier, Rpc, ReadEnds, Handler
<1>2. IInv /\ [Next]_vars => \A p \in Peers : Wedged(p) => Wedged(p)'
  BY <1>1 DEF IInv
<1> QED BY Invariance, <1>2, PTL DEF Spec, WedgedForever

-----------------------------------------------------------------------------
(* Done is not lost                                                         *)

\* A handler in its loop
InLoop(p) == handler[p] \in {"recv", "broadcast", "write"}

HasDone(p) == \E i \in DOMAIN chan[p] : chan[p][i] = "done"

\* Done was sent to p: by "rpc", or by a reader that came to the end of its stream.
WasTold(p) == p \in told \/ (reader[p] = "done" /\ conn[p] # "reset")

\* No message overtakes Done, and none that the handler takes before it makes it wait for
\* more: what was told to end, by "rpc" when the server is dropped or by its reader, has left
\* its loop or has Done in its channel.  An update that found the channel full is lost, Done
\* is not.
DoneNotLost == \A p \in Peers : WasTold(p) /\ InLoop(p) => HasDone(p)

\* A handler that has not registered is in no list of "rpc".
NotListed == \A p \in Peers : handler[p] \in {"off", "start"} => p \notin senders \cup told

\* What is appended or taken leaves Done in a channel, unless it is taken itself.
LEMMA DoneStays ==
  ASSUME TypeOK, NEW p \in Peers, HasDone(p),
         \/ chan'[p] = chan[p]
         \/ \E m \in Messages : chan'[p] = Append(chan[p], m)
         \/ chan[p] # <<>> /\ Head(chan[p]) # "done" /\ chan'[p] = Tail(chan[p])
  PROVE  HasDone(p)'
<1>1. chan[p] \in Seq(Messages)
  BY DEF TypeOK
<1>2. PICK i \in DOMAIN chan[p] : chan[p][i] = "done"
  BY DEF HasDone
<1>3. CASE chan'[p] = chan[p]
  BY <1>2, <1>3 DEF HasDone
<1>4. CASE \E m \in Messages : chan'[p] = Append(chan[p], m)
  <2>1. i \in DOMAIN chan'[p] /\ chan'[p][i] = "done"
    BY <1>1, <1>2, <1>4
  <2> QED BY <2>1 DEF HasDone
<1>5. CASE chan[p] # <<>> /\ Head(chan[p]) # "done" /\ chan'[p] = Tail(chan[p])
  <2>1. i # 1
    BY <1>1, <1>2, <1>5
  <2>2. i - 1 \in DOMAIN chan'[p] /\ chan'[p][i - 1] = "done"
    BY <1>1, <1>2, <1>5, <2>1
  <2> QED BY <2>2 DEF HasDone
<1> QED BY <1>3, <1>4, <1>5

\* A message put at the end of a channel is in it.
LEMMA DonePut ==
  ASSUME TypeOK, NEW p \in Peers, Put(p, "done")
  PROVE  HasDone(p)'
<1>1. chan[p] \in Seq(Messages) /\ chan'[p] = Append(chan[p], "done")
  BY DEF TypeOK, Put
<1>2. Len(chan[p]) + 1 \in DOMAIN chan'[p] /\ chan'[p][Len(chan[p]) + 1] = "done"
  BY <1>1
<1> QED BY <1>2 DEF HasDone

LEMMA NotListedStep == IInv /\ NotListed /\ [Next]_vars => NotListed'
<1> SUFFICES ASSUME TypeOK, AcceptedOnce, NotListed, [Next]_vars
             PROVE  NotListed'
  BY DEF IInv
<1> USE DEF NotListed, mainVars, rpcVars, connVars, peerVars
<1>1. CASE Update \/ Drop \/ JoinServer \/ NotifyExit \/ AcceptExit \/ CloseDone \/ JoinPeers
  BY <1>1 DEF Update, Drop, JoinServer, NotifyExit, AcceptExit, CloseDone, JoinPeers
<1>2. CASE Notify
  BY <1>2 DEF Notify
<1>3. CASE Accept
  <2> DEFINE q == Head(accepted)
  <2>1. q \in Peers /\ handler[q] = "off"
    <3>1. accepted \in Seq(Peers \cup {Exit}) /\ accepted # <<>> /\ q # Exit
      BY <1>3 DEF Accept, TypeOK
    <3>2. 1 \in DOMAIN accepted /\ q = accepted[1] /\ q \in Peers
      BY <3>1
    <3> QED BY <3>1, <3>2 DEF AcceptedOnce
  <2>2. handler' = [handler EXCEPT ![q] = "start"] /\ UNCHANGED <<senders, told>>
    BY <1>3 DEF Accept, Goto
  <2> HIDE DEF q
  <2> QED BY <2>1, <2>2 DEF TypeOK
<1>4. ASSUME NEW p \in Peers,
             Connect(p) \/ Hangup(p) \/ ReadLine(p) \/ ReadEof(p) \/ ReadFails(p) \/ SendToHandler(p)
      PROVE  NotListed'
  BY <1>4 DEF Connect, Hangup, ReadLine, ReadEof, ReadFails, SendToHandler
<1>5. ASSUME NEW p \in Peers, SendDone(p)
      PROVE  NotListed'
  BY <1>5 DEF SendDone
<1>6. ASSUME NEW p \in Peers, Handler(p)
      PROVE  NotListed'
  <2>1. /\ \A q \in Peers \ {p} : handler'[q] = handler[q]
        /\ handler'[p] \notin {"off", "start"} \/ handler'[p] = handler[p]
        /\ told' = told /\ senders' \subseteq senders \cup {p}
        /\ senders' = senders \/ handler'[p] = "recv"
    <3> USE DEF TypeOK, Goto
    <3>1. CASE Register(p)
      BY <3>1 DEF Register
    <3>2. CASE RecvSubscribe(p) \/ RecvBroadcast(p) \/ RecvLast(p)
      BY <3>2 DEF RecvSubscribe, RecvBroadcast, RecvLast, Recv
    <3>3. CASE RecvUpdate(p)
      BY <3>3 DEF RecvUpdate, Recv
    <3>4. CASE Broadcast(p)
      BY <3>4 DEF Broadcast
    <3>5. CASE Write(p)
      BY <3>5 DEF Write
    <3>6. CASE JoinReader(p)
      BY <3>6 DEF JoinReader
    <3> QED BY <1>6, <3>1, <3>2, <3>3, <3>4, <3>5, <3>6 DEF Handler
  <2> QED BY <2>1
<1>7. CASE UNCHANGED vars
  BY <1>7 DEF vars
<1> QED
  BY <1>1, <1>2, <1>3, <1>4, <1>5, <1>6, <1>7 DEF Next, Client, Notifier, Rpc, ReadEnds

LEMMA DoneNotLostStep == IInv /\ NotListed /\ DoneNotLost /\ [Next]_vars => DoneNotLost'
<1> SUFFICES ASSUME TypeOK, AcceptedOnce, ThreadsKnown, NotListed, DoneNotLost, [Next]_vars,
                    NEW q \in Peers, WasTold(q)', InLoop(q)'
             PROVE  HasDone(q)'
  BY DEF IInv, DoneNotLost
<1> USE DEF mainVars, rpcVars, connVars, peerVars
<1> DEFINE Stays ==
             \/ chan'[q] = chan[q]
             \/ \E m \in Messages : chan'[q] = Append(chan[q], m)
             \/ chan[q] # <<>> /\ Head(chan[q]) # "done" /\ chan'[q] = Tail(chan[q])
<1>1. WasTold(q) /\ InLoop(q) /\ Stays => HasDone(q)'
  BY DoneStays DEF DoneNotLost
<1>2. UNCHANGED <<told, reader, conn>> => WasTold(q)
  BY DEF WasTold
<1>3. handler'[q] = handler[q] => InLoop(q)
  BY DEF InLoop
<1> HIDE DEF Stays
<1>4. chan'[q] = chan[q] => Stays
  BY DEF Stays
<1>5. CASE Update \/ Drop \/ JoinServer \/ NotifyExit \/ AcceptExit \/ CloseDone \/ JoinPeers
  BY <1>1, <1>2, <1>3, <1>4, <1>5
     DEF Update, Drop, JoinServer, NotifyExit, AcceptExit, CloseDone, JoinPeers
<1>6. CASE Notify
  <2>1. Stays
    BY <1>6 DEF Notify, Stays, Messages
  <2> QED BY <1>1, <1>2, <1>3, <1>6, <2>1 DEF Notify
<1>7. CASE Accept
  <2>1. handler'[q] = handler[q]
    BY <1>7 DEF Accept, Goto, InLoop, TypeOK
  <2> QED BY <1>1, <1>2, <1>3, <1>4, <1>7, <2>1 DEF Accept
<1>8. ASSUME NEW p \in Peers, Connect(p) \/ Hangup(p)
      PROVE  HasDone(q)'
  <2>1. WasTold(q)
    BY <1>8 DEF Connect, Hangup, WasTold, TypeOK
  <2> QED BY <1>1, <1>3, <1>4, <1>8, <2>1 DEF Connect, Hangup
<1>9. ASSUME NEW p \in Peers, SendDone(p)
      PROVE  HasDone(q)'
  <2>1. CASE p = q
    <3>1. ~Disconnected(q)
      BY <1>9, <2>1 DEF SendDone, Disconnected, InLoop
    <3> QED BY <1>9, <2>1, <3>1, DonePut DEF SendDone
  <2>2. CASE p # q
    <3>1. WasTold(q)
      BY <1>9, <2>2 DEF SendDone, WasTold
    <3>2. chan'[q] = chan[q]
      BY <1>9, <2>2 DEF SendDone, Put, TypeOK
    <3> QED BY <1>1, <1>3, <1>4, <1>9, <3>1, <3>2 DEF SendDone
  <2> QED BY <2>1, <2>2
<1>10. ASSUME NEW p \in Peers, ReadLine(p) \/ ReadEof(p) \/ ReadFails(p)
       PROVE  HasDone(q)'
  <2>1. WasTold(q)
    <3>1. CASE ReadLine(p) \/ ReadEof(p)
      BY <1>10, <3>1 DEF ReadLine, ReadEof, WasTold, TypeOK
    <3>2. CASE ReadFails(p)
      BY <3>2 DEF ReadFails, WasTold, TypeOK
    <3> QED BY <1>10, <3>1, <3>2
  <2> QED BY <1>1, <1>3, <1>4, <1>10, <2>1 DEF ReadLine, ReadEof, ReadFails
<1>11. ASSUME NEW p \in Peers, SendToHandler(p)
       PROVE  HasDone(q)'
  <2>1. CASE p = q /\ held[q] = "done"
    BY <1>11, <2>1, DonePut DEF SendToHandler
  <2>2. CASE ~(p = q /\ held[q] = "done")
    <3>1. WasTold(q)
      BY <1>11, <2>2 DEF SendToHandler, WasTold, TypeOK
    <3>2. Stays
      BY <1>11 DEF SendToHandler, Put, TypeOK, Stays
    <3> QED BY <1>1, <1>3, <1>11, <3>1, <3>2 DEF SendToHandler
  <2> QED BY <2>1, <2>2
<1>12. ASSUME NEW p \in Peers, Handler(p), p # q
       PROVE  HasDone(q)'
  <2> USE DEF TypeOK, Goto
  <2>1. CASE Register(p)
    <3>1. WasTold(q)
      BY <1>12, <2>1 DEF Register, WasTold
    <3> QED BY <1>1, <1>3, <1>4, <1>12, <2>1, <3>1 DEF Register
  <2>2. CASE RecvSubscribe(p) \/ RecvBroadcast(p) \/ RecvLast(p)
    BY <1>1, <1>2, <1>3, <1>4, <1>12, <2>2 DEF RecvSubscribe, RecvBroadcast, RecvLast, Recv
  <2>3. CASE RecvUpdate(p)
    BY <1>1, <1>2, <1>3, <1>4, <1>12, <2>3 DEF RecvUpdate, Recv
  <2>4. CASE Broadcast(p)
    BY <1>1, <1>2, <1>3, <1>4, <1>12, <2>4 DEF Broadcast, Put
  <2>5. CASE Write(p)
    BY <1>1, <1>2, <1>3, <1>4, <1>12, <2>5 DEF Write
  <2>6. CASE JoinReader(p)
    BY <1>1, <1>2, <1>3, <1>4, <1>12, <2>6 DEF JoinReader
  <2> QED BY <1>12, <2>1, <2>2, <2>3, <2>4, <2>5, <2>6 DEF Handler
<1>13. CASE Handler(q)
  <2> USE DEF TypeOK, Goto
  <2>1. CASE Register(q)
    <3>1. q \notin told /\ reader'[q] = "read" /\ told' = told
      BY <2>1 DEF Register, NotListed
    <3> QED BY <3>1 DEF WasTold
  <2>2. CASE RecvSubscribe(q) \/ RecvBroadcast(q) \/ RecvUpdate(q)
    <3>1. PICK m \in {"subscribe", "broadcast", "update"} : Recv(q, m)
      BY <2>2 DEF RecvSubscribe, RecvBroadcast, RecvUpdate
    <3>2. WasTold(q) /\ InLoop(q)
      BY <3>1 DEF Recv, WasTold, InLoop
    <3>3. Stays
      BY <3>1 DEF Recv, Stays
    <3> QED BY <1>1, <3>2, <3>3
  <2>3. CASE RecvLast(q) \/ JoinReader(q)
    <3>1. handler' = [handler EXCEPT ![q] = "join"] \/ handler' = [handler EXCEPT ![q] = "ended"]
      BY <2>3 DEF RecvLast, JoinReader
    <3>2. handler'[q] \in {"join", "ended"}
      BY <3>1
    <3>3. ~InLoop(q)'
      BY <3>2 DEF InLoop
    <3> QED BY <3>3
  <2>4. CASE Broadcast(q)
    <3>1. Stays
      <4>1. UNCHANGED chan \/ Put(q, "update")
        BY <2>4 DEF Broadcast
      <4>2. CASE UNCHANGED chan
        BY <1>4, <4>2
      <4>3. CASE Put(q, "update")
        <5>1. chan'[q] = Append(chan[q], "update")
          BY <4>3 DEF Put
        <5> QED BY <5>1 DEF Stays, Messages
      <4> QED BY <4>1, <4>2, <4>3
    <3>2. InLoop(q)
      BY <2>4 DEF Broadcast, InLoop
    <3> QED BY <1>1, <1>2, <2>4, <3>1, <3>2 DEF Broadcast
  <2>5. CASE Write(q)
    <3>1. InLoop(q)
      BY <2>5 DEF Write, InLoop
    <3> QED BY <1>1, <1>2, <1>4, <2>5, <3>1 DEF Write
  <2> QED BY <1>13, <2>1, <2>2, <2>3, <2>4, <2>5 DEF Handler
<1>14. CASE UNCHANGED vars
  BY <1>1, <1>2, <1>3, <1>4, <1>14 DEF vars
<1> QED
  BY <1>5, <1>6, <1>7, <1>8, <1>9, <1>10, <1>11, <1>12, <1>13, <1>14
     DEF Next, Client, Notifier, Rpc, ReadEnds

\* A handler that was told to end, by drop() of the server or by the end of its stream, has
\* left its loop or has Done in its channel, whatever else is sent to it and however small
\* the channel is.
THEOREM DoneArrives == Spec => []DoneNotLost
<1>1. Init => NotListed /\ DoneNotLost
  BY DEF Init, NotListed, DoneNotLost, WasTold, InLoop
<1>2. IInv /\ NotListed /\ DoneNotLost /\ [Next]_vars => NotListed' /\ DoneNotLost'
  BY NotListedStep, DoneNotLostStep
<1> QED BY <1>1, <1>2, Invariance, PTL DEF Spec
=============================================================================
