------------------------- MODULE DaemonClientProofs -------------------------
(***************************************************************************)
(* Theorems about DaemonClient: its types, that both locks are held        *)
(* exactly where the code holds them, that replies are not mixed up, and   *)
(* that a request is executed once as long as tapyrusd serves.             *)
(***************************************************************************)
EXTENDS DaemonClient, TLAPS

Holding == {"recv", "dup", "dupwait", "connect", "backoff"}
PoolMethods == {"getmempool", "gettransactions", "getmempoolentry"}
Steps == WaitPoints \cup
  {"idle", "send", "recv", "lock", "relock", "dup", "connect", "pool", "stopped"}

\* Thread t may be at step p with request r.
Place(t, p, r) ==
  /\ p \in Steps
  /\ t = Main => p # "idle" /\ r \in MainMethods \cup {"none"}
  /\ t # Main => p \notin {"wait", "stopped"} /\ r \in HandlerMethods \cup {"none"}
  /\ p \in {"idle", "wait", "stopped"} <=> r = "none"
  /\ p \in {"lock", "dup", "dupwait"} <=> r = "reconnect"
  /\ p = "syncwait" => r = "getblockchaininfo"
  /\ p = "pool" => r \in {"getmempool", "getmempoolentry"}

\* Which requests a thread may be at, at each of its steps.
RequestsKnown == \A t \in Threads : Place(t, pc[t], req[t])

\* tapyrusd tells only Main, which asked for it, that it is not in sync.
SyncReply ==
  conn.reply = "syncing" => conn.asker = Main /\ req[Main] = "getblockchaininfo"

\* The rest of TypeOK.
ChannelTypes ==
  /\ node \in {"down", "warmup", "up"}
  /\ conn \in [alive : BOOLEAN, asker : Threads \cup {NoThread},
               reply : {"none", "ok", "refused", "syncing", "warmup"}]
  /\ raised \subseteq Signals /\ slot \in Signals \cup {"none"}
  /\ calm \in BOOLEAN /\ swallowed \in BOOLEAN

ThreadTypes ==
  /\ lock \in Threads \cup {NoThread} /\ pool \in Threads \cup {NoThread}
  /\ pc \in [Threads -> Steps]
  /\ req \in [Threads -> MainMethods \cup HandlerMethods \cup {"none"}]
  /\ executed \in [Threads -> 0..2]
  /\ serving \in BOOLEAN

\* The two halves of the inductive invariant.
ThreadInv == ThreadTypes /\ LocksHeld /\ RequestsKnown

\* A request on a connection that has died is gone, unless its reply has come.
DeadConnection == conn.alive \/ conn.reply # "none" \/ conn.asker = NoThread

ConnInv == ChannelTypes /\ NoStrayReply /\ SyncReply /\ DeadConnection
IInv == ThreadInv /\ ConnInv

LEMMA Types == IInv => TypeOK
BY DaemonAssumption, SMT DEF IInv, ThreadInv, ConnInv, ThreadTypes, ChannelTypes, TypeOK, RequestsKnown,
  Place, Steps, Threads

-----------------------------------------------------------------------------

\* A thread that takes a place without the connection's lock gives it up; the
\* mempool's lock goes with the requests that need it.
LEMMA GotoKeeps ==
  ASSUME ThreadInv, NEW t \in Threads, NEW p, NEW r,
         Goto(t, p, r), Place(t, p, r), p \notin Holding,
         lock' = IF lock = t THEN NoThread ELSE lock,
         (r \in PoolMethods /\ p # "pool") <=> (pool = t /\ p \notin {"wait", "idle", "stopped"})
  PROVE  ThreadInv'
<1>1. pc' = [pc EXCEPT ![t] = p] /\ req' = [req EXCEPT ![t] = r]
  BY DEF Goto
<1>2. t # NoThread
  BY DaemonAssumption DEF Threads
<1>3. ThreadTypes'
  <2>1. r \in MainMethods \cup HandlerMethods \cup {"none"} /\ p \in Steps
    BY DEF Place
  <2> QED BY <1>1, <2>1, SMT DEF ThreadInv, ThreadTypes, Goto
<1>4. RequestsKnown'
  BY <1>1 DEF ThreadInv, ThreadTypes, RequestsKnown, Place
<1>5. LocksHeld'
  <2> SUFFICES ASSUME NEW u \in Threads
               PROVE  /\ (lock' = u) <=> (pc'[u] \in Holding)
                      /\ (pool' = u) <=> (req'[u] \in PoolMethods /\ pc'[u] # "pool")
    BY DEF LocksHeld, Holding, PoolMethods
  <2>1. /\ (lock = u) <=> (pc[u] \in Holding)
        /\ (pool = u) <=> (req[u] \in PoolMethods /\ pc[u] # "pool")
    BY DEF ThreadInv, LocksHeld, Holding, PoolMethods
  <2>2. CASE u = t
    BY <1>1, <1>2, <2>1, <2>2 DEF ThreadInv, ThreadTypes, Goto
  <2>3. CASE u # t
    <3>1. pc'[u] = pc[u] /\ req'[u] = req[u]
      BY <1>1, <2>3 DEF ThreadInv, ThreadTypes
    <3>2. u # NoThread
      BY DaemonAssumption DEF Threads
    <3> QED BY <2>1, <2>3, <3>1, <3>2 DEF Goto
  <2> QED BY <2>2, <2>3
<1> QED BY <1>3, <1>4, <1>5 DEF ThreadInv

\* A step within a request.
LEMMA MoveKeeps ==
  ASSUME ThreadInv, NEW t \in Threads, NEW p,
         pc' = [pc EXCEPT ![t] = p], Place(t, p, req[t]),
         UNCHANGED <<req, serving, executed>>,
         lock' = IF p \in Holding THEN t ELSE IF lock = t THEN NoThread ELSE lock,
         lock \in {NoThread, t} \/ p \notin Holding,
         pool' = IF pc[t] = "pool" THEN t ELSE pool,
         pc[t] = "pool" => pool = NoThread, p # "pool"
  PROVE  ThreadInv'
<1>1. t # NoThread
  BY DaemonAssumption DEF Threads
<1>2. ThreadTypes'
  BY SMT DEF ThreadInv, ThreadTypes, Place
<1>3. RequestsKnown'
  BY DEF ThreadInv, ThreadTypes, RequestsKnown, Place
<1>4. LocksHeld'
  <2> SUFFICES ASSUME NEW u \in Threads
               PROVE  /\ (lock' = u) <=> (pc'[u] \in Holding)
                      /\ (pool' = u) <=> (req'[u] \in PoolMethods /\ pc'[u] # "pool")
    BY DEF LocksHeld, Holding, PoolMethods
  <2>1. /\ (lock = u) <=> (pc[u] \in Holding)
        /\ (pool = u) <=> (req[u] \in PoolMethods /\ pc[u] # "pool")
    BY DEF ThreadInv, LocksHeld, Holding, PoolMethods
  <2>2. u # NoThread
    BY DaemonAssumption DEF Threads
  <2>3. CASE u = t
    <3>1. pc'[u] = p
      BY <2>3 DEF ThreadInv, ThreadTypes
    <3>2. pc[t] = "pool" => req[t] \in PoolMethods
      BY DEF ThreadInv, RequestsKnown, Place, PoolMethods
    <3> QED BY <1>1, <2>1, <2>3, <3>1, <3>2
  <2>4. CASE u # t
    <3>1. pc'[u] = pc[u]
      BY <2>4 DEF ThreadInv, ThreadTypes
    <3> QED BY <1>1, <2>1, <2>2, <2>4, <3>1
  <2> QED BY <2>3, <2>4
<1> QED BY <1>2, <1>3, <1>4 DEF ThreadInv

LEMMA SucceedKeeps ==
  ASSUME ThreadInv, NEW t \in Threads, Succeed(t), pc[t] \in {"recv", "dup"},
         lock' = IF lock = t THEN NoThread ELSE lock
  PROVE  ThreadInv'
<1>1. PICK next \in Continuation(req[t]) : Goto(t, next[1], next[2])
  BY DEF Succeed
<1>2. Place(t, pc[t], req[t]) /\ req[t] # "none"
  BY SMT DEF ThreadInv, RequestsKnown, Place
<1>3. pool = t <=> req[t] \in PoolMethods
  BY DEF ThreadInv, LocksHeld, PoolMethods
<1>4. /\ Place(t, next[1], next[2]) /\ next[1] \notin Holding
      /\ (next[2] \in PoolMethods /\ next[1] # "pool")
           <=> (pool = t /\ next[1] \notin {"wait", "idle", "stopped"})
  BY <1>1, <1>2, <1>3, SMT
     DEF Continuation, Place, Holding, PoolMethods, MainMethods, HandlerMethods, Steps, WaitPoints
<1> QED BY <1>1, <1>4, GotoKeeps

LEMMA FailKeeps ==
  ASSUME ThreadInv, NEW t \in Threads, Fail(t),
         lock' = IF lock = t THEN NoThread ELSE lock
  PROVE  ThreadInv'
<1>1. PICK p \in {"idle", "wait", "stopped"} :
        Goto(t, p, "none") /\ (t = Main <=> p # "idle")
  <2> DEFINE next == CASE t # Main -> "idle"
                       [] t = Main /\ req[t] = "gettransactions" -> "wait"
                       [] OTHER -> "stopped"
  <2>1. Goto(t, next, "none")
    BY DEF Fail
  <2>2. next \in {"idle", "wait", "stopped"} /\ (t = Main <=> next # "idle")
    BY SMT
  <2> HIDE DEF next
  <2> QED BY <2>1, <2>2
<1>2. Place(t, p, "none") /\ p \notin Holding /\ "none" \notin PoolMethods
  BY <1>1, SMT DEF Place, Steps, WaitPoints, Holding, PoolMethods, MainMethods, HandlerMethods
<1> QED BY <1>1, <1>2, GotoKeeps

\* Steps of tapyrusd and of signals leave the threads alone.
LEMMA EnvironmentKeeps ==
  ASSUME ThreadInv, UNCHANGED <<pc, req, pool, serving, lock>>, executed' \in [Threads -> 0..2]
  PROVE  ThreadInv'
BY SMT DEF ThreadInv, ThreadTypes, LocksHeld, RequestsKnown

-----------------------------------------------------------------------------
(* The threads.                                                            *)

LEMMA PlaceNow ==
  ASSUME ThreadInv, NEW t \in Threads
  PROVE  /\ Place(t, pc[t], req[t]) /\ t # NoThread
         /\ (lock = t) <=> (pc[t] \in Holding)
BY DaemonAssumption DEF ThreadInv, RequestsKnown, LocksHeld, Holding, Threads

LEMMA StepKeepsThreads ==
  ASSUME ThreadInv, SyncReply, NEW t \in Threads, Step(t)
  PROVE  ThreadInv'
<1>0. /\ Place(t, pc[t], req[t]) /\ t # NoThread
      /\ (lock = t) <=> (pc[t] \in Holding)
  BY PlaceNow
<1> USE DEF Holding
<1>1. CASE Send(t)
  <2>1. Place(t, "recv", req[t])
    BY <1>0, <1>1, SMT DEF Send, Place, Steps
  <2> QED BY <1>0, <1>1, <2>1, MoveKeeps DEF Send
<1>2. CASE SendFails(t)
  <2>1. Place(t, "retry", req[t])
    BY <1>0, <1>2, SMT DEF SendFails, Place, Steps, WaitPoints
  <2> QED BY <1>0, <1>2, <2>1, MoveKeeps DEF SendFails, Retry
<1>3. CASE Receive(t)
  <2>0. pc[t] = "recv" /\ lock = t /\ lock' = NoThread
    BY <1>0, <1>3 DEF Receive
  <2>1. CASE Fail(t)
    BY <2>0, <2>1, FailKeeps
  <2>2. CASE Succeed(t)
    BY <2>0, <2>2, SucceedKeeps
  <2>3. CASE conn.reply = "syncing" /\ conn.asker = t /\ Goto(t, "syncwait", req[t])
    <3>1. t = Main /\ req[t] = "getblockchaininfo"
      BY <2>3 DEF SyncReply
    <3>2. Place(t, "syncwait", req[t]) /\ req[t] \notin PoolMethods
      BY <1>0, <3>1, SMT DEF Place, Steps, WaitPoints, PoolMethods
    <3>3. pool # t
      BY <3>2 DEF ThreadInv, LocksHeld, PoolMethods
    <3> QED BY <2>0, <2>3, <3>2, <3>3, GotoKeeps
  <2>4. CASE Retry(t)
    <3>1. Place(t, "retry", req[t])
      BY <1>0, <2>0, SMT DEF Place, Steps, WaitPoints
    <3> QED BY <2>0, <2>4, <3>1, MoveKeeps DEF Retry
  <2>5. CASE conn.asker # t
    BY <1>3, <2>1, <2>5 DEF Receive
  <2>6. CASE conn.asker = t
    <3>1. \/ conn.reply = "ok" /\ Succeed(t)
          \/ conn.reply = "syncing" /\ Goto(t, "syncwait", req[t])
          \/ conn.reply = "refused" /\ Fail(t)
          \/ conn.reply = "warmup" /\ Retry(t)
      BY <1>3, <2>6 DEF Receive
    <3> QED BY <2>1, <2>2, <2>3, <2>4, <2>6, <3>1
  <2> QED BY <2>5, <2>6
<1>4. CASE ReceiveFails(t)
  <2>0. pc[t] = "recv" /\ lock = t /\ lock' = NoThread
    BY <1>0, <1>4 DEF ReceiveFails
  <2>1. CASE Retry(t)
    <3>1. Place(t, "retry", req[t])
      BY <1>0, <2>0, SMT DEF Place, Steps, WaitPoints
    <3> QED BY <2>0, <2>1, <3>1, MoveKeeps DEF Retry
  <2>2. CASE Fail(t)
    BY <2>0, <2>2, FailKeeps
  <2> QED BY <1>4, <2>1, <2>2 DEF ReceiveFails
<1>5. CASE Lock(t)
  <2> DEFINE p == IF pc[t] = "lock" THEN "dup" ELSE "connect"
  <2>1. Place(t, p, req[t]) /\ p \in Holding
    BY <1>0, <1>5, SMT DEF Lock, Place, Steps
  <2>2. pc' = [pc EXCEPT ![t] = p]
    BY <1>5 DEF Lock, ThreadInv, ThreadTypes
  <2>3. p # "pool" /\ pc[t] # "pool"
    BY <1>5 DEF Lock
  <2> HIDE DEF p
  <2> QED BY <1>0, <1>5, <2>1, <2>2, <2>3, MoveKeeps DEF Lock
<1>6. CASE Connect(t)
  <2>1. Place(t, "send", req[t])
    BY <1>0, <1>6, SMT DEF Connect, Place, Steps
  <2> QED BY <1>0, <1>6, <2>1, MoveKeeps DEF Connect
<1>7. CASE Duplicate(t)
  BY <1>0, <1>7, SucceedKeeps DEF Duplicate
<1>8. CASE ConnectFails(t)
  <2> DEFINE p == IF pc[t] = "dup" THEN "dupwait" ELSE "backoff"
  <2>1. Place(t, p, req[t]) /\ p \in Holding
    BY <1>0, <1>8, SMT DEF ConnectFails, Place, Steps, WaitPoints
  <2>2. pc' = [pc EXCEPT ![t] = p]
    BY <1>8 DEF ConnectFails, ThreadInv, ThreadTypes
  <2>3. p # "pool" /\ pc[t] # "pool" /\ lock = t
    BY <1>0, <1>8 DEF ConnectFails
  <2> HIDE DEF p
  <2> QED BY <1>0, <1>8, <2>1, <2>2, <2>3, MoveKeeps DEF ConnectFails
<1>9. ASSUME Waiting(t), Resume(t), UNCHANGED lock
      PROVE  ThreadInv'
  <2>1. CASE pc[t] = "wait"
    <3>1. Place(t, "send", "getbestblockhash")
      BY <1>0, <2>1, SMT DEF Place, Steps, WaitPoints, MainMethods, HandlerMethods
    <3>2. pool # t /\ lock # t /\ "getbestblockhash" \notin PoolMethods
      <4>1. req[t] \notin PoolMethods
        BY <1>0, <2>1 DEF Place, PoolMethods
      <4> QED BY <1>0, <2>1, <4>1 DEF ThreadInv, LocksHeld, PoolMethods
    <3> QED BY <1>9, <2>1, <3>1, <3>2, GotoKeeps DEF Resume
  <2>2. CASE pc[t] # "wait"
    <3> DEFINE p == AfterWait(pc[t])
    <3>1. /\ Place(t, p, req[t]) /\ p # "pool" /\ pc[t] # "pool"
          /\ p \in Holding <=> lock = t
      BY <1>0, <1>9, <2>2, SMT DEF Waiting, WaitPoints, AfterWait, Place, Steps
    <3>2. pc' = [pc EXCEPT ![t] = p]
      BY <1>9, <2>2 DEF Resume, ThreadInv, ThreadTypes
    <3>3. UNCHANGED <<req, pool, serving, executed>>
      BY <1>9, <2>2 DEF Resume
    <3> HIDE DEF p
    <3> QED BY <1>0, <1>9, <3>1, <3>2, <3>3, MoveKeeps
  <2> QED BY <2>1, <2>2
<1>10. CASE WaitTimeout(t)
  BY <1>9, <1>10 DEF WaitTimeout
<1>11. CASE WaitUsr1(t)
  <2>1. CASE pc[t] = "wait"
    BY <1>9, <1>11, <2>1 DEF WaitUsr1
  <2>2. CASE pc[t] # "wait"
    BY <1>11, <2>2, EnvironmentKeeps DEF WaitUsr1, process, ThreadInv, ThreadTypes
  <2> QED BY <2>1, <2>2
<1>12. CASE WaitInterrupt(t)
  BY <1>12, FailKeeps DEF WaitInterrupt
<1>13. CASE LockPool(t)
  <2>1. Place(t, "send", req[t])
    BY <1>0, <1>13, SMT DEF LockPool, Place, Steps
  <2> QED BY <1>0, <1>13, <2>1, MoveKeeps DEF LockPool
<1>14. CASE AlreadyPolled(t)
  <2>1. Place(t, "idle", "none") /\ "none" \notin PoolMethods
    BY <1>0, <1>14, SMT DEF AlreadyPolled, Place, Steps, PoolMethods, MainMethods, HandlerMethods
  <2> QED BY <1>0, <1>14, <2>1, GotoKeeps DEF AlreadyPolled
<1> QED BY <1>1, <1>2, <1>3, <1>4, <1>5, <1>6, <1>7, <1>8, <1>10, <1>11, <1>12, <1>13, <1>14
        DEF Step

LEMMA AskKeepsThreads ==
  ASSUME ThreadInv, NEW t \in Handlers, Ask(t)
  PROVE  ThreadInv'
<1>1. t \in Threads /\ t # Main
  BY DaemonAssumption DEF Threads
<1>2. PICK r \in {"sendrawtransaction", "getblock"} : Goto(t, "send", r)
  BY DEF Ask
<1>3. Place(t, "send", r) /\ r \notin PoolMethods
  BY <1>1, SMT DEF Place, Steps, HandlerMethods, PoolMethods
<1>4. pool # t /\ lock # t
  <2>1. req[t] \notin PoolMethods
    BY <1>1, PlaceNow DEF Ask, Place, PoolMethods
  <2> QED BY <1>1, <2>1, PlaceNow DEF Ask, Holding, ThreadInv, LocksHeld, PoolMethods
<1> QED BY <1>1, <1>2, <1>3, <1>4, GotoKeeps DEF Ask, Holding

\* What the connection carries stays true while its asker waits for the reply.
LEMMA AskerWaits ==
  ASSUME ConnInv, UNCHANGED conn,
         conn.asker = NoThread \/ UNCHANGED <<lock, pc[conn.asker], req[conn.asker]>>
  PROVE  NoStrayReply' /\ SyncReply' /\ DeadConnection'
<1>1. CASE conn.asker = NoThread
  BY <1>1, SMT DEF ConnInv, NoStrayReply, SyncReply, DeadConnection
<1>2. CASE conn.asker # NoThread /\ UNCHANGED <<lock, pc[conn.asker], req[conn.asker]>>
  BY <1>2 DEF ConnInv, NoStrayReply, SyncReply, DeadConnection
<1> QED BY <1>1, <1>2

\* A thread that is not the asker changes its own step, and no lock but a free one
\* or its own.
LEMMA OthersWait ==
  ASSUME IInv, NEW t \in Threads, NEW p, NEW r, UNCHANGED conn,
         pc' = [pc EXCEPT ![t] = p], UNCHANGED req \/ req' = [req EXCEPT ![t] = r],
         UNCHANGED lock \/ lock \in {NoThread, t},
         pc[t] # "recv" \/ conn.asker = NoThread
  PROVE  NoStrayReply' /\ SyncReply' /\ DeadConnection'
<1>1. CASE conn.asker = NoThread
  BY <1>1, AskerWaits DEF IInv
<1>2. CASE conn.asker # NoThread
  <2>1. lock = conn.asker /\ pc[conn.asker] = "recv" /\ conn.asker \in Threads
    BY <1>2, SMT DEF IInv, ConnInv, NoStrayReply, ChannelTypes
  <2>2. conn.asker # t
    BY <1>2, <2>1
  <2>3. pc'[conn.asker] = pc[conn.asker] /\ req'[conn.asker] = req[conn.asker]
    BY <2>1, <2>2 DEF IInv, ThreadInv, ThreadTypes
  <2>4. UNCHANGED lock
    BY <1>2, <2>1, <2>2
  <2> QED BY <2>3, <2>4, AskerWaits DEF IInv
<1> QED BY <1>1, <1>2

LEMMA StepKeepsConnection ==
  ASSUME IInv, NEW t \in Threads, Step(t)
  PROVE  ConnInv'
<1>0. (lock = t) <=> (pc[t] \in Holding)
  BY PlaceNow DEF IInv
<1> USE DEF Holding
<1>1. CASE Send(t)
  <2>1. conn.asker = NoThread
    BY <1>1 DEF Send, IInv, ConnInv, NoStrayReply
  <2>2. /\ conn' = IF conn.alive THEN [conn EXCEPT !.asker = t] ELSE conn
        /\ lock' = t /\ pc'[t] = "recv" /\ conn.reply = "none"
    BY <1>1, <2>1 DEF Send, IInv, ConnInv, NoStrayReply, ThreadInv, ThreadTypes
  <2> QED BY <1>1, <2>1, <2>2, SMT
          DEF Send, IInv, ConnInv, ChannelTypes, NoStrayReply, SyncReply, DeadConnection, channel
<1>2. CASE Receive(t)
  <2>1. /\ conn' = [conn EXCEPT !.asker = NoThread, !.reply = "none"]
        /\ UNCHANGED <<swallowed, channel, node, calm>>
    BY <1>2 DEF Receive
  <2>2. conn'.asker = NoThread /\ conn'.reply = "none" /\ conn'.alive = conn.alive
    BY <2>1, SMT DEF IInv, ConnInv, ChannelTypes
  <2>3. NoStrayReply' /\ SyncReply' /\ DeadConnection'
    BY <2>2, SMT DEF NoStrayReply, SyncReply, DeadConnection
  <2>4. conn' = [alive |-> conn.alive, asker |-> NoThread, reply |-> "none"]
    <3>1. conn = [alive |-> conn.alive, asker |-> conn.asker, reply |-> conn.reply]
      BY DEF IInv, ConnInv, ChannelTypes
    <3> QED BY <2>1, <3>1
  <2>5. conn' \in [alive : BOOLEAN, asker : Threads \cup {NoThread},
                   reply : {"none", "ok", "refused", "syncing", "warmup"}]
    BY <2>4, SMT DEF IInv, ConnInv, ChannelTypes
  <2>6. ChannelTypes'
    BY <2>1, <2>5 DEF IInv, ConnInv, ChannelTypes, channel
  <2> QED BY <2>3, <2>6 DEF ConnInv
<1>3. CASE Connect(t)
  <2>1. conn' = Fresh /\ UNCHANGED <<swallowed, channel, node, calm>>
    BY <1>3 DEF Connect
  <2> QED BY <2>1, SMT
          DEF Fresh, IInv, ConnInv, ChannelTypes, NoStrayReply, SyncReply, DeadConnection, channel
<1>4. ASSUME UNCHANGED <<conn, node, raised, calm>>, slot' \in {slot, "none"}, swallowed' \in BOOLEAN
      PROVE  ChannelTypes'
  BY <1>4, SMT DEF IInv, ConnInv, ChannelTypes
<1>5. ASSUME NEW p, NEW r, Goto(t, p, r)
      PROVE  pc' = [pc EXCEPT ![t] = p] /\ req' = [req EXCEPT ![t] = r]
  BY <1>5 DEF Goto
<1>6. ASSUME Fail(t)
      PROVE  \E p, r : pc' = [pc EXCEPT ![t] = p] /\ req' = [req EXCEPT ![t] = r]
  BY <1>5, <1>6 DEF Fail
<1>7. swallowed \in BOOLEAN
  BY DEF IInv, ConnInv, ChannelTypes
<1>8. CASE SendFails(t)
  <2>1. pc' = [pc EXCEPT ![t] = "retry"] /\ UNCHANGED <<req, conn, lock>> /\ pc[t] # "recv"
    BY <1>8 DEF SendFails, Retry
  <2> QED BY <1>4, <1>7, <1>8, <2>1, OthersWait DEF SendFails, Retry, channel, ConnInv
<1>9. CASE ReceiveFails(t)
  <2>1. conn.asker = NoThread
    BY <1>9 DEF ReceiveFails, IInv, ConnInv, DeadConnection
  <2>2. NoStrayReply' /\ SyncReply' /\ DeadConnection'
    BY <1>9, <2>1, AskerWaits DEF ReceiveFails, IInv
  <2> QED BY <1>4, <1>7, <1>9, <2>2 DEF ReceiveFails, Retry, channel, ConnInv
<1>10. CASE Lock(t)
  BY <1>4, <1>7, <1>10, OthersWait DEF Lock, channel, ConnInv
<1>11. CASE Duplicate(t)
  <2>1. PICK next \in Continuation(req[t]) : Goto(t, next[1], next[2])
    BY <1>11 DEF Duplicate, Succeed
  <2>2. NoStrayReply' /\ SyncReply' /\ DeadConnection'
    BY <1>0, <1>5, <1>11, <2>1, OthersWait DEF Duplicate
  <2> QED BY <1>4, <1>7, <1>11, <2>2 DEF Duplicate, channel, ConnInv
<1>12. CASE ConnectFails(t)
  <2>1. NoStrayReply' /\ SyncReply' /\ DeadConnection'
    BY <1>12, OthersWait DEF ConnectFails
  <2> QED BY <1>4, <1>7, <1>12, <2>1 DEF ConnectFails, channel, ConnInv
<1>13. ASSUME Waiting(t), Resume(t), UNCHANGED <<conn, lock>>
       PROVE  NoStrayReply' /\ SyncReply' /\ DeadConnection'
  <2>1. pc[t] # "recv"
    BY <1>13 DEF Waiting, WaitPoints
  <2>2. CASE pc[t] = "wait"
    BY <1>5, <1>13, <2>1, <2>2, OthersWait DEF Resume
  <2>3. CASE pc[t] # "wait"
    BY <1>13, <2>1, <2>3, OthersWait DEF Resume
  <2> QED BY <2>2, <2>3
<1>14. CASE WaitTimeout(t)
  BY <1>4, <1>7, <1>13, <1>14 DEF WaitTimeout, Resume, channel, ConnInv
<1>15. CASE WaitUsr1(t)
  <2>1. CASE pc[t] = "wait"
    BY <1>4, <1>7, <1>13, <1>15, <2>1 DEF WaitUsr1, Resume, ConnInv
  <2>2. CASE pc[t] # "wait"
    <3>1. NoStrayReply' /\ SyncReply' /\ DeadConnection'
      BY <1>15, <2>2, AskerWaits DEF WaitUsr1, process, IInv
    <3> QED BY <1>4, <1>7, <1>15, <2>2, <3>1 DEF WaitUsr1, process, ConnInv
  <2> QED BY <2>1, <2>2
<1>16. CASE WaitInterrupt(t)
  <2>1. NoStrayReply' /\ SyncReply' /\ DeadConnection'
    <3>1. pc[t] # "recv" /\ (UNCHANGED lock \/ lock \in {NoThread, t})
      BY <1>16 DEF WaitInterrupt, Waiting, WaitPoints
    <3> QED BY <1>6, <1>16, <3>1, OthersWait DEF WaitInterrupt
  <2>2. swallowed' \in BOOLEAN
    BY <1>7, <1>16 DEF WaitInterrupt
  <2> QED BY <1>4, <1>16, <2>1, <2>2 DEF WaitInterrupt, ConnInv
<1>17. CASE LockPool(t)
  BY <1>4, <1>7, <1>17, OthersWait DEF LockPool, channel, ConnInv
<1>18. CASE AlreadyPolled(t)
  <2>1. NoStrayReply' /\ SyncReply' /\ DeadConnection'
    BY <1>5, <1>18, OthersWait DEF AlreadyPolled
  <2> QED BY <1>4, <1>7, <1>18, <2>1 DEF AlreadyPolled, channel, ConnInv
<1> QED BY <1>1, <1>2, <1>3, <1>8, <1>9, <1>10, <1>11, <1>12, <1>14, <1>15, <1>16, <1>17, <1>18
        DEF Step

-----------------------------------------------------------------------------
(* Handlers, signals and tapyrusd.                                         *)

LEMMA AskKeepsConnection ==
  ASSUME IInv, NEW t \in Handlers, Ask(t)
  PROVE  ConnInv'
<1>1. PICK r \in {"sendrawtransaction", "getblock"} : Goto(t, "send", r)
  BY DEF Ask
<1>2. /\ pc' = [pc EXCEPT ![t] = "send"] /\ req' = [req EXCEPT ![t] = r]
      /\ UNCHANGED <<conn, lock>> /\ pc[t] # "recv"
  BY <1>1 DEF Goto, Ask
<1>3. NoStrayReply' /\ SyncReply' /\ DeadConnection'
  BY <1>2, OthersWait DEF Threads
<1> QED BY <1>3, SMT DEF Ask, IInv, ConnInv, ChannelTypes, channel

LEMMA CountedOnce ==
  ASSUME ThreadInv, Disturb \/ UNCHANGED executed
  PROVE  executed' \in [Threads -> 0..2]
BY SMT DEF ThreadInv, ThreadTypes, Disturb

LEMMA SignalsKeep ==
  ASSUME IInv, NEW s \in Signals, RaiseSignal(s) \/ SendSignal(s)
  PROVE  IInv'
<1>1. /\ UNCHANGED <<pc, req, pool, serving, swallowed, node, conn, lock>>
      /\ Disturb \/ UNCHANGED <<calm, executed>>
  BY DEF RaiseSignal, SendSignal, process
<1>2. ThreadInv'
  BY <1>1, EnvironmentKeeps, CountedOnce DEF IInv
<1>3. NoStrayReply' /\ SyncReply' /\ DeadConnection'
  BY <1>1, AskerWaits DEF IInv
<1>4. raised' \subseteq Signals /\ slot' \in Signals \cup {"none"}
  BY DEF RaiseSignal, SendSignal, IInv, ConnInv, ChannelTypes
<1>5. ChannelTypes'
  BY <1>1, <1>4 DEF Disturb, IInv, ConnInv, ChannelTypes
<1> QED BY <1>2, <1>3, <1>5 DEF IInv, ConnInv

LEMMA ServeKeeps ==
  ASSUME IInv, Serve
  PROVE  IInv'
<1>0. conn = [alive |-> conn.alive, asker |-> conn.asker, reply |-> conn.reply]
  BY DEF IInv, ConnInv, ChannelTypes
<1>1. /\ conn.asker \in Threads /\ pc[conn.asker] = "recv" /\ lock = conn.asker
      /\ conn = [alive |-> conn.alive, asker |-> conn.asker, reply |-> "none"]
      /\ conn.alive \in BOOLEAN
  <2>1. conn.asker # NoThread /\ conn.reply = "none"
    BY DEF Serve
  <2>2. conn.asker \in Threads \cup {NoThread} /\ conn.alive \in BOOLEAN
    BY SMT DEF IInv, ConnInv, ChannelTypes
  <2> QED BY <1>0, <2>1, <2>2 DEF IInv, ConnInv, NoStrayReply
<1>2. PICK r \in {"ok", "refused", "syncing", "warmup"} :
        conn' = [conn EXCEPT !.reply = r] /\ (r = "syncing" => req[conn.asker] = "getblockchaininfo")
  <2>1. CASE node = "warmup"
    BY <2>1 DEF Serve
  <2>2. CASE node # "warmup"
    <3>1. PICK r \in Replies(req[conn.asker]) : conn' = [conn EXCEPT !.reply = r]
      BY <2>2 DEF Serve
    <3>2. r \in {"ok", "refused", "syncing"} /\ (r = "syncing" => req[conn.asker] = "getblockchaininfo")
      BY SMT DEF Replies
    <3> QED BY <3>1, <3>2
  <2> QED BY <2>1, <2>2
<1>3. conn' = [alive |-> conn.alive, asker |-> conn.asker, reply |-> r]
  BY <1>1, <1>2
<1>4. UNCHANGED <<pc, req, pool, serving, swallowed, channel, node, lock, calm>>
  BY DEF Serve
<1>5. ChannelTypes'
  BY <1>1, <1>3, <1>4, SMT DEF IInv, ConnInv, ChannelTypes, channel
<1>6. NoStrayReply' /\ DeadConnection'
  <2>1. conn'.asker = conn.asker /\ conn'.reply # "none"
    BY <1>3
  <2>2. conn.asker # NoThread
    BY DEF Serve
  <2> QED BY <1>1, <1>4, <2>1, <2>2 DEF NoStrayReply, DeadConnection
<1>7. SyncReply'
  <2>1. r = "syncing" => conn.asker = Main
    <3>1. RequestsKnown
      BY DEF IInv, ThreadInv
    <3> QED BY <1>1, <1>2, <3>1, SMT DEF RequestsKnown, Place, HandlerMethods
  <2> QED BY <1>2, <1>3, <1>4, <2>1, SMT DEF SyncReply
<1>8. executed' \in [Threads -> 0..2]
  <2>1. executed \in [Threads -> 0..2]
    BY DEF IInv, ThreadInv, ThreadTypes
  <2>2. CASE UNCHANGED executed
    BY <2>1, <2>2
  <2>3. CASE executed' = [executed EXCEPT ![conn.asker] = IF @ = 2 THEN 2 ELSE @ + 1]
    BY <1>1, <2>1, <2>3, SMT
  <2> QED BY <2>2, <2>3 DEF Serve
<1>9. ThreadInv'
  BY <1>4, <1>8, EnvironmentKeeps DEF IInv
<1> QED BY <1>5, <1>6, <1>7, <1>9 DEF IInv, ConnInv

LEMMA NodeKeeps ==
  ASSUME IInv, NodeStop \/ NodeStarts \/ IdleClose
  PROVE  IInv'
<1>1. /\ UNCHANGED <<pc, req, pool, serving, swallowed, channel, lock>>
      /\ Disturb \/ UNCHANGED <<calm, executed>>
  BY DEF NodeStop, NodeStarts, IdleClose, process
<1>2. ThreadInv'
  BY <1>1, EnvironmentKeeps, CountedOnce DEF IInv
<1>3. conn = [alive |-> conn.alive, asker |-> conn.asker, reply |-> conn.reply]
  BY DEF IInv, ConnInv, ChannelTypes
<1>4. ASSUME conn' \in [alive : BOOLEAN, asker : Threads \cup {NoThread},
                        reply : {"none", "ok", "refused", "syncing", "warmup"}],
             node' \in {"down", "warmup", "up"}
      PROVE  ChannelTypes'
  BY <1>1, <1>4 DEF Disturb, IInv, ConnInv, ChannelTypes, channel
<1>5. CASE NodeStop
  <2>1. PICK reply \in {conn.reply, "none"} :
          conn' = [alive |-> FALSE, asker |-> IF reply = "none" THEN NoThread ELSE conn.asker,
                   reply |-> reply]
    BY <1>5 DEF NodeStop
  <2>2. NoStrayReply' /\ SyncReply' /\ DeadConnection'
    BY <1>1, <2>1, SMT DEF IInv, ConnInv, NoStrayReply, SyncReply, DeadConnection
  <2>3. ChannelTypes'
    <3>1. node' = "down"
      BY <1>5 DEF NodeStop
    <3>2. conn.asker \in Threads \cup {NoThread}
          /\ conn.reply \in {"none", "ok", "refused", "syncing", "warmup"}
      BY SMT DEF IInv, ConnInv, ChannelTypes
    <3> QED BY <1>4, <2>1, <3>1, <3>2
  <2> QED BY <1>2, <2>2, <2>3 DEF IInv, ConnInv
<1>6. CASE NodeStarts
  <2>1. UNCHANGED conn /\ node' \in {"warmup", "up"}
    BY <1>6 DEF NodeStarts
  <2>2. NoStrayReply' /\ SyncReply' /\ DeadConnection'
    BY <1>1, <2>1, AskerWaits DEF IInv
  <2>3. ChannelTypes'
    BY <1>4, <2>1 DEF IInv, ConnInv, ChannelTypes
  <2> QED BY <1>2, <2>2, <2>3 DEF IInv, ConnInv
<1>7. CASE IdleClose
  <2>1. conn' = [alive |-> FALSE, asker |-> conn.asker, reply |-> conn.reply] /\ UNCHANGED node
    BY <1>3, <1>7 DEF IdleClose
  <2>2. conn.asker = NoThread
    <3>1. conn.asker \in Threads => pc[conn.asker] # "recv"
      BY <1>7 DEF IdleClose
    <3>2. conn.asker \in Threads \cup {NoThread}
      BY SMT DEF IInv, ConnInv, ChannelTypes
    <3> QED BY <3>1, <3>2 DEF IInv, ConnInv, NoStrayReply
  <2>3. NoStrayReply' /\ SyncReply' /\ DeadConnection'
    BY <1>1, <2>1, <2>2, SMT DEF IInv, ConnInv, NoStrayReply, SyncReply, DeadConnection
  <2>4. ChannelTypes'
    BY <1>4, <2>1, SMT DEF IInv, ConnInv, ChannelTypes
  <2> QED BY <1>2, <2>3, <2>4 DEF IInv, ConnInv
<1> QED BY <1>5, <1>6, <1>7

-----------------------------------------------------------------------------
(* The theorems.                                                           *)

LEMMA InitHolds == Init => IInv
<1> SUFFICES ASSUME Init PROVE IInv
  OBVIOUS
<1>0. Main \in Threads /\ Main # NoThread /\ NoThread \notin Threads
  BY DaemonAssumption DEF Threads
<1>1. ThreadTypes
  <2>1. pc \in [Threads -> Steps] /\ executed \in [Threads -> 0..2]
    BY SMT DEF Init, Steps
  <2>2. req \in [Threads -> MainMethods \cup HandlerMethods \cup {"none"}]
    BY SMT DEF Init, MainMethods
  <2> QED BY <1>0, <2>1, <2>2 DEF Init, ThreadTypes
<1>2. LocksHeld
  BY <1>0, SMT DEF Init, LocksHeld
<1>3. RequestsKnown
  BY <1>0, SMT DEF Init, RequestsKnown, Place, Steps, WaitPoints, MainMethods, HandlerMethods
<1>4. conn = [alive |-> FALSE, asker |-> NoThread, reply |-> "none"]
  BY DEF Init, Fresh
<1>5. ConnInv
  <2>1. NoStrayReply /\ SyncReply /\ DeadConnection
    BY <1>4, SMT DEF NoStrayReply, SyncReply, DeadConnection
  <2>2. conn \in [alive : BOOLEAN, asker : Threads \cup {NoThread},
                  reply : {"none", "ok", "refused", "syncing", "warmup"}]
    BY <1>4
  <2>3. ChannelTypes
    BY <2>2 DEF Init, ChannelTypes
  <2> QED BY <2>1, <2>3 DEF ConnInv
<1> QED BY <1>1, <1>2, <1>3, <1>5 DEF IInv, ThreadInv

LEMMA Invariance == Spec => []IInv
<1>1. IInv /\ [Next]_vars => IInv'
  <2> SUFFICES ASSUME IInv, [Next]_vars PROVE IInv'
    OBVIOUS
  <2>1. CASE UNCHANGED vars
    <3>1. ThreadInv'
      BY <2>1, EnvironmentKeeps DEF vars, process, IInv, ThreadInv, ThreadTypes
    <3>2. NoStrayReply' /\ SyncReply' /\ DeadConnection'
      BY <2>1, AskerWaits DEF vars, process, IInv
    <3>3. ChannelTypes'
      BY <2>1 DEF vars, process, channel, IInv, ConnInv, ChannelTypes
    <3> QED BY <3>1, <3>2, <3>3 DEF IInv, ConnInv
  <2>2. ASSUME NEW t \in Threads, Step(t) PROVE IInv'
    BY <2>2, StepKeepsThreads, StepKeepsConnection DEF IInv, ConnInv
  <2>3. ASSUME NEW t \in Handlers, Ask(t) PROVE IInv'
    BY <2>3, AskKeepsThreads, AskKeepsConnection DEF IInv
  <2> QED BY <2>1, <2>2, <2>3, SignalsKeep, ServeKeeps, NodeKeeps DEF Next
<1> QED BY <1>1, InitHolds, PTL DEF Spec

\* Every variable keeps its type, whatever the number of handlers.
THEOREM TypeCorrect == Spec => []TypeOK
BY Invariance, Types, PTL

\* Every way out of a request gives both locks back (`Mutex<Connection>`, the
\* mempool's `RwLock`), and nobody proceeds without the one the code takes.
THEOREM LocksAreHeld == Spec => []LocksHeld
<1>1. IInv => LocksHeld
  BY DEF IInv, ThreadInv
<1> QED BY <1>1, Invariance, PTL

\* No reply to another's request, or to an attempt given up, is ever on the
\* connection: the id that parse_jsonrpc_reply compares always matches.
THEOREM RepliesAreOwn == Spec => []NoStrayReply
<1>1. IInv => NoStrayReply
  BY DEF IInv, ConnInv
<1> QED BY <1>1, Invariance, PTL
-----------------------------------------------------------------------------
(* While tapyrusd serves and no interrupt is raised.                       *)

\* tapyrusd has executed the request that was answered so.
ExecutedReplies == {"ok", "refused", "syncing"}

\* Before the first connection the main thread is alone.
Untouched ==
  conn.alive \/ (~serving /\ \A t \in Threads : pc[t] \in IF t = Main THEN {"connect", "backoff"} ELSE {"idle"})

\* The request that was executed is the one whose reply has not been read.
Counted ==
  \A t \in Threads : executed[t] = IF conn.asker = t /\ conn.reply \in ExecutedReplies THEN 1 ELSE 0

CalmInv == calm => "int" \notin raised /\ slot # "int" /\ Untouched /\ Counted

\* What CalmOnce says of one step.
RequestsOnce ==
  \A t \in Threads :
    /\ executed'[t] <= 1
    /\ (req'[t] # req[t] /\ req[t] \notin {"none", "reconnect"} /\ pc[t] # "pool") => executed[t] = 1

\* The step of one thread leaves the requests of the others.
LEMMA OwnRequest ==
  ASSUME IInv, NEW t \in Threads, Step(t)
  PROVE  /\ \A u \in Threads \ {t} : req'[u] = req[u] /\ pc'[u] = pc[u] /\ executed'[u] = executed[u]
         /\ \/ UNCHANGED executed
            \/ executed' = [executed EXCEPT ![t] = 0]
<1>1. /\ pc \in [Threads -> Steps] /\ executed \in [Threads -> 0..2]
      /\ req \in [Threads -> MainMethods \cup HandlerMethods \cup {"none"}]
  BY DEF IInv, ThreadInv, ThreadTypes
<1>2. ASSUME NEW p, NEW r, Goto(t, p, r)
      PROVE  /\ \A u \in Threads \ {t} : req'[u] = req[u] /\ pc'[u] = pc[u] /\ executed'[u] = executed[u]
             /\ executed' = [executed EXCEPT ![t] = 0]
  BY <1>1, <1>2 DEF Goto
<1>3. ASSUME NEW p, pc' = [pc EXCEPT ![t] = p], UNCHANGED <<req, executed>>
      PROVE  /\ \A u \in Threads \ {t} : req'[u] = req[u] /\ pc'[u] = pc[u] /\ executed'[u] = executed[u]
             /\ UNCHANGED executed
  BY <1>1, <1>3
<1>4. CASE \E p, r : Goto(t, p, r)
  BY <1>2, <1>4
<1>5. CASE \E p : pc' = [pc EXCEPT ![t] = p] /\ UNCHANGED <<req, executed>>
  BY <1>3, <1>5
<1>6. CASE UNCHANGED process
  BY <1>6 DEF process
<1>7. CASE Send(t) \/ SendFails(t) \/ Lock(t) \/ Connect(t) \/ ConnectFails(t) \/ LockPool(t)
  BY <1>5, <1>7 DEF Send, SendFails, Lock, Connect, ConnectFails, LockPool, Retry
<1>8. CASE Receive(t) \/ ReceiveFails(t)
  BY <1>4, <1>5, <1>8 DEF Receive, ReceiveFails, Succeed, Fail, Retry
<1>9. CASE Duplicate(t) \/ AlreadyPolled(t) \/ WaitInterrupt(t)
  BY <1>4, <1>9 DEF Duplicate, AlreadyPolled, WaitInterrupt, Succeed, Fail
<1>10. CASE WaitTimeout(t) \/ WaitUsr1(t)
  BY <1>4, <1>5, <1>6, <1>10 DEF WaitTimeout, WaitUsr1, Resume
<1> QED BY <1>7, <1>8, <1>9, <1>10 DEF Step

\* A request goes only when it was executed.
LEMMA GoneExecuted ==
  ASSUME IInv, CalmInv, calm, NEW t \in Threads, Step(t),
         req'[t] # req[t], req[t] \notin {"none", "reconnect"}, pc[t] # "pool"
  PROVE  executed[t] = 1
<1>0. /\ Place(t, pc[t], req[t])
      /\ req \in [Threads -> MainMethods \cup HandlerMethods \cup {"none"}]
  BY PlaceNow DEF IInv, ThreadInv, ThreadTypes
<1>1. CASE Receive(t)
  <2>1. conn.asker = t
    BY <1>1, PlaceNow DEF Receive, Holding, IInv, ConnInv, NoStrayReply
  <2>2. conn.reply \in ExecutedReplies
    BY <1>1, <2>1 DEF Receive, Retry, ExecutedReplies
  <2> QED BY <2>1, <2>2 DEF CalmInv, Counted
<1>2. CASE ReceiveFails(t)
  BY <1>2 DEF ReceiveFails, CalmInv, Untouched
<1>3. CASE WaitTimeout(t) \/ WaitUsr1(t)
  BY <1>0, <1>3 DEF WaitTimeout, WaitUsr1, Resume, process, Place
<1>4. CASE WaitInterrupt(t)
  BY <1>4 DEF WaitInterrupt, CalmInv
<1>5. CASE Duplicate(t)
  BY <1>0, <1>5 DEF Duplicate, Place
<1> QED BY <1>1, <1>2, <1>3, <1>4, <1>5
        DEF Step, Send, SendFails, Retry, Lock, Connect, ConnectFails, LockPool, AlreadyPolled

\* Without a reply nothing has been executed; after it, only what it answers.
LEMMA CountedNow ==
  ASSUME IInv, Counted, NEW t \in Threads
  PROVE  /\ executed[t] = IF conn.asker = t /\ conn.reply \in ExecutedReplies THEN 1 ELSE 0
         /\ conn.asker # t => executed[t] = 0
         /\ conn.asker = t => pc[t] = "recv"
         /\ conn.asker # NoThread => conn.asker = lock /\ conn.asker \in Threads
<1>1. t # NoThread
  BY DaemonAssumption DEF Threads
<1>2. conn.asker \in Threads \cup {NoThread}
  BY SMT DEF IInv, ConnInv, ChannelTypes
<1> QED BY <1>1, <1>2 DEF Counted, IInv, ConnInv, NoStrayReply

LEMMA StepCounts ==
  ASSUME IInv, Counted, NEW t \in Threads, Step(t)
  PROVE  Counted'
<1>0. (lock = t) <=> (pc[t] \in Holding)
  BY PlaceNow DEF IInv
<1>1. /\ executed[t] = IF conn.asker = t /\ conn.reply \in ExecutedReplies THEN 1 ELSE 0
      /\ conn.asker # t => executed[t] = 0
      /\ conn.asker = t => pc[t] = "recv"
      /\ conn.asker # NoThread => conn.asker = lock /\ conn.asker \in Threads
  BY CountedNow
<1>2. \A u \in Threads : executed[u] = IF conn.asker = u /\ conn.reply \in ExecutedReplies THEN 1 ELSE 0
  BY DEF Counted
<1>3. executed \in [Threads -> 0..2] /\ t # NoThread
  BY DaemonAssumption DEF IInv, ThreadInv, ThreadTypes, Threads
<1>4. conn = [alive |-> conn.alive, asker |-> conn.asker, reply |-> conn.reply]
  BY DEF IInv, ConnInv, ChannelTypes
<1>5. UNCHANGED executed \/ executed' = [executed EXCEPT ![t] = 0]
  BY OwnRequest
<1>6. ASSUME UNCHANGED conn, pc[t] # "recv"
      PROVE  Counted'
  BY <1>1, <1>2, <1>3, <1>5, <1>6 DEF Counted
<1>7. CASE Send(t)
  <2>1. conn.asker = NoThread
    BY <1>7 DEF Send, IInv, ConnInv, NoStrayReply
  <2>2. conn.reply = "none" /\ conn'.reply = "none" /\ UNCHANGED executed
    BY <1>4, <1>7, <2>1 DEF Send, IInv, ConnInv, NoStrayReply
  <2> QED BY <1>2, <2>2 DEF Counted, ExecutedReplies
<1>8. CASE Receive(t)
  <2>1. conn.asker = t
    BY <1>0, <1>8 DEF Receive, Holding, IInv, ConnInv, NoStrayReply
  <2>2. conn'.reply = "none"
    BY <1>4, <1>8 DEF Receive
  <2>3. CASE UNCHANGED executed
    <3>1. \A p, r : ~(Goto(t, p, r) /\ executed[t] # 0)
      BY <1>3, <2>3 DEF Goto
    <3>2. executed[t] = 0
      <4>1. CASE Retry(t) /\ conn.reply = "warmup"
        BY <1>1, <4>1 DEF ExecutedReplies
      <4>2. CASE \E p, r : Goto(t, p, r)
        BY <3>1, <4>2
      <4> QED BY <1>8, <2>1, <4>1, <4>2 DEF Receive, Succeed, Fail
    <3> QED BY <1>2, <2>1, <2>2, <2>3, <3>2 DEF Counted, ExecutedReplies
  <2>4. CASE executed' = [executed EXCEPT ![t] = 0]
    BY <1>2, <1>3, <2>1, <2>2, <2>4 DEF Counted, ExecutedReplies
  <2> QED BY <1>5, <2>3, <2>4
<1>9. CASE ReceiveFails(t)
  <2>1. conn.asker = NoThread /\ UNCHANGED conn
    BY <1>9 DEF ReceiveFails, IInv, ConnInv, DeadConnection
  <2> QED BY <1>2, <1>3, <1>5, <2>1 DEF Counted
<1>10. CASE Connect(t)
  <2>1. conn.asker = NoThread
    BY <1>0, <1>1, <1>10 DEF Connect, Holding
  <2>2. conn.reply = "none" /\ conn'.reply = "none" /\ UNCHANGED executed
    BY <1>10, <2>1 DEF Connect, Fresh, IInv, ConnInv, NoStrayReply
  <2> QED BY <1>2, <2>2 DEF Counted, ExecutedReplies
<1>11. CASE SendFails(t) \/ Lock(t) \/ Duplicate(t) \/ ConnectFails(t) \/ LockPool(t) \/ AlreadyPolled(t)
  BY <1>6, <1>11 DEF SendFails, Lock, Duplicate, ConnectFails, LockPool, AlreadyPolled
<1>12. CASE WaitTimeout(t) \/ WaitUsr1(t) \/ WaitInterrupt(t)
  BY <1>6, <1>12 DEF WaitTimeout, WaitUsr1, WaitInterrupt, Waiting, WaitPoints
<1> QED BY <1>7, <1>8, <1>9, <1>10, <1>11, <1>12 DEF Step

\* Until it has connected, nobody but the main thread moves; a connection then lasts.
LEMMA StepTouches ==
  ASSUME IInv, CalmInv, calm, NEW t \in Threads, Step(t)
  PROVE  Untouched'
<1>1. Untouched /\ slot # "int"
  BY DEF CalmInv
<1>2. conn = [alive |-> conn.alive, asker |-> conn.asker, reply |-> conn.reply]
  BY DEF IInv, ConnInv, ChannelTypes
<1>3. CASE conn.alive
  <2>1. conn'.alive
    <3>1. CASE UNCHANGED conn
      BY <1>3, <3>1
    <3>2. CASE Send(t)
      <4>1. conn' = [alive |-> conn.alive, asker |-> t, reply |-> conn.reply]
        BY <1>2, <1>3, <3>2 DEF Send
      <4> QED BY <1>3, <4>1
    <3>3. CASE Receive(t)
      <4>1. conn' = [alive |-> conn.alive, asker |-> NoThread, reply |-> "none"]
        BY <1>2, <3>3 DEF Receive
      <4> QED BY <1>3, <4>1
    <3>4. CASE Connect(t)
      BY <3>4 DEF Connect, Fresh
    <3> QED BY <3>1, <3>2, <3>3, <3>4 DEF Step, SendFails, ReceiveFails, Lock, Duplicate, ConnectFails, WaitTimeout,
              WaitUsr1, WaitInterrupt, LockPool, AlreadyPolled
  <2> QED BY <2>1 DEF Untouched
<1>4. CASE ~conn.alive
  <2>1. /\ ~serving /\ pc[t] \in IF t = Main THEN {"connect", "backoff"} ELSE {"idle"}
        /\ \A u \in Threads : pc[u] \in IF u = Main THEN {"connect", "backoff"} ELSE {"idle"}
    BY <1>1, <1>4 DEF Untouched
  <2>2. Connect(t) \/ ConnectFails(t) \/ WaitTimeout(t) \/ WaitUsr1(t)
    BY <1>1, <2>1 DEF Step, Send, SendFails, Receive, ReceiveFails, Lock, Connect, Duplicate, ConnectFails,
       WaitTimeout, WaitUsr1, WaitInterrupt, LockPool, AlreadyPolled, Waiting, WaitPoints
  <2>3. t = Main
    BY <2>1, <2>2 DEF Connect, ConnectFails, WaitTimeout, WaitUsr1, Waiting, WaitPoints
  <2>4. CASE Connect(t)
    BY <2>4 DEF Connect, Fresh, Untouched
  <2>5. CASE ConnectFails(t) \/ WaitTimeout(t) \/ WaitUsr1(t)
    <3>1. pc'[t] \in {"connect", "backoff"} /\ UNCHANGED serving
      <4>1. pc \in [Threads -> Steps]
        BY DEF IInv, ThreadInv, ThreadTypes
      <4>2. CASE ConnectFails(t)
        BY <2>1, <2>3, <4>1, <4>2 DEF ConnectFails
      <4>3. CASE WaitTimeout(t) \/ WaitUsr1(t)
        <5>0. AfterWait("backoff") = "connect"
          BY SMT DEF AfterWait
        <5>1. pc[t] = "backoff" /\ AfterWait("backoff") = "connect"
          BY <2>1, <2>3, <4>3, <5>0 DEF WaitTimeout, WaitUsr1, Waiting, WaitPoints
        <5>2. ASSUME Resume(t) PROVE pc'[t] = "connect" /\ UNCHANGED serving
          BY <4>1, <5>1, <5>2 DEF Resume
        <5>3. CASE UNCHANGED process
          BY <5>1, <5>3 DEF process
        <5> QED BY <4>3, <5>2, <5>3 DEF WaitTimeout, WaitUsr1
      <4> QED BY <2>5, <4>2, <4>3
    <3>2. \A u \in Threads \ {t} : pc'[u] = pc[u]
      BY OwnRequest
    <3> QED BY <2>1, <2>3, <3>1, <3>2 DEF Untouched
  <2> QED BY <2>2, <2>4, <2>5
<1> QED BY <1>3, <1>4

\* A step of a thread, while tapyrusd serves.
LEMMA StepCalm ==
  ASSUME IInv, CalmInv, calm, NEW t \in Threads, Step(t)
  PROVE  CalmInv' /\ RequestsOnce
<1>1. Counted' /\ Untouched'
  BY StepCounts, StepTouches DEF CalmInv
<1>2. UNCHANGED raised /\ slot' \in {slot, "none"}
  BY DEF Step, Send, SendFails, Receive, ReceiveFails, Lock, Connect, Duplicate, ConnectFails,
     WaitTimeout, WaitUsr1, WaitInterrupt, LockPool, AlreadyPolled, channel
<1>3. \A u \in Threads : executed'[u] <= 1
  BY <1>1 DEF Counted
<1>4. \A u \in Threads \ {t} : req'[u] = req[u]
  BY OwnRequest
<1> QED BY <1>1, <1>2, <1>3, <1>4, GoneExecuted DEF CalmInv, RequestsOnce

LEMMA AskCalm ==
  ASSUME IInv, CalmInv, calm, NEW t \in Handlers, Ask(t)
  PROVE  CalmInv' /\ RequestsOnce
<1>1. PICK r \in {"sendrawtransaction", "getblock"} : Goto(t, "send", r)
  BY DEF Ask
<1>2. /\ t \in Threads /\ serving /\ pc[t] = "idle" /\ req[t] = "none"
      /\ UNCHANGED <<swallowed, conn, lock, channel, node, calm>>
  BY PlaceNow DEF Threads, Ask, IInv, Place
<1>3. executed[t] = 0
  BY <1>2, CountedNow DEF CalmInv
<1>4. /\ executed' = [executed EXCEPT ![t] = 0] /\ req' = [req EXCEPT ![t] = r]
      /\ req \in [Threads -> MainMethods \cup HandlerMethods \cup {"none"}]
      /\ executed \in [Threads -> 0..2]
  BY <1>1 DEF Goto, IInv, ThreadInv, ThreadTypes
<1>5. UNCHANGED executed /\ \A u \in Threads \ {t} : req'[u] = req[u]
  BY <1>2, <1>3, <1>4
<1>6. Counted'
  BY <1>2, <1>5 DEF CalmInv, Counted
<1>7. conn'.alive
  BY <1>2 DEF CalmInv, Untouched
<1>8. \A u \in Threads : executed'[u] <= 1
  BY <1>6 DEF Counted
<1> QED BY <1>2, <1>5, <1>6, <1>7, <1>8 DEF CalmInv, Untouched, channel, RequestsOnce

\* tapyrusd executes a request that has no reply yet.
LEMMA ServeCalm ==
  ASSUME IInv, CalmInv, calm, Serve
  PROVE  CalmInv' /\ RequestsOnce
<1>0. conn = [alive |-> conn.alive, asker |-> conn.asker, reply |-> conn.reply]
  BY DEF IInv, ConnInv, ChannelTypes
<1>1. /\ UNCHANGED <<pc, req, pool, serving, swallowed, channel, node, lock, calm>>
      /\ conn.alive /\ conn.asker # NoThread /\ conn.reply = "none"
  BY DEF Serve
<1>2. conn.asker \in Threads
  BY <1>1, SMT DEF IInv, ConnInv, ChannelTypes
<1>3. \A u \in Threads : executed[u] = 0
  BY <1>1 DEF CalmInv, Counted, ExecutedReplies
<1>4. PICK r : /\ conn' = [conn EXCEPT !.reply = r]
               /\ \/ r = "warmup" /\ UNCHANGED executed
                  \/ /\ r \in ExecutedReplies
                     /\ executed' = [executed EXCEPT ![conn.asker] = IF @ = 2 THEN 2 ELSE @ + 1]
  <2>1. CASE node = "warmup"
    BY <2>1 DEF Serve
  <2>2. CASE node # "warmup"
    <3>1. PICK r \in Replies(req[conn.asker]) : conn' = [conn EXCEPT !.reply = r]
      BY <2>2 DEF Serve
    <3>2. r \in ExecutedReplies
      BY SMT DEF Replies, ExecutedReplies
    <3> QED BY <2>2, <3>1, <3>2 DEF Serve
  <2> QED BY <2>1, <2>2
<1>5. conn'.alive /\ conn'.asker = conn.asker /\ conn'.reply = r
  BY <1>0, <1>1, <1>4
<1>6. executed \in [Threads -> 0..2]
  BY DEF IInv, ThreadInv, ThreadTypes
<1>7. Counted'
  <2>1. CASE r = "warmup" /\ UNCHANGED executed
    BY <1>3, <1>5, <2>1 DEF Counted, ExecutedReplies
  <2>2. CASE /\ r \in ExecutedReplies
             /\ executed' = [executed EXCEPT ![conn.asker] = IF @ = 2 THEN 2 ELSE @ + 1]
    <3>1. \A u \in Threads : executed'[u] = IF u = conn.asker THEN 1 ELSE 0
      BY <1>2, <1>3, <1>6, <2>2, SMT
    <3> QED BY <1>5, <2>2, <3>1 DEF Counted
  <2> QED BY <1>4, <2>1, <2>2
<1>8. \A u \in Threads : executed'[u] <= 1
  BY <1>7 DEF Counted
<1> QED BY <1>1, <1>5, <1>7, <1>8 DEF CalmInv, Untouched, channel, RequestsOnce

\* Signals and tapyrusd: what disturbs ends the count.
LEMMA DisturbedCalm ==
  ASSUME IInv, CalmInv, calm,
         (\E s \in Signals : RaiseSignal(s) \/ SendSignal(s)) \/ NodeStop \/ NodeStarts \/ IdleClose
  PROVE  CalmInv' /\ RequestsOnce
<1>1. UNCHANGED <<req, pc, serving>>
  BY DEF RaiseSignal, SendSignal, NodeStop, NodeStarts, IdleClose, process
<1>2. \A u \in Threads : executed[u] <= 1
  BY DEF CalmInv, Counted
<1>3. CASE Disturb
  BY <1>1, <1>3 DEF Disturb, CalmInv, RequestsOnce
<1>4. CASE ~Disturb
  <2>1. UNCHANGED <<conn, executed>>
    BY <1>4 DEF RaiseSignal, SendSignal, NodeStop, NodeStarts, IdleClose, process
  <2>2. "int" \notin raised' /\ slot' # "int"
    BY <1>4 DEF RaiseSignal, SendSignal, NodeStop, NodeStarts, IdleClose, channel, CalmInv
  <2> QED BY <1>1, <1>2, <2>1, <2>2 DEF CalmInv, Counted, Untouched, RequestsOnce
<1> QED BY <1>3, <1>4

\* Holds initially, is kept by every step, and is void once tapyrusd has been disturbed.
LEMMA CalmInvariance == Spec => []CalmInv
<1>1. Init => CalmInv
  <2> SUFFICES ASSUME Init PROVE CalmInv
    OBVIOUS
  <2>1. Untouched /\ "int" \notin raised /\ slot # "int"
    BY SMT DEF Init, Untouched
  <2>2. conn = [alive |-> FALSE, asker |-> NoThread, reply |-> "none"]
    BY DEF Init, Fresh
  <2>3. Counted
    BY <2>2 DEF Init, Counted, ExecutedReplies
  <2> QED BY <2>1, <2>3 DEF CalmInv
<1>2. IInv /\ CalmInv /\ [Next]_vars => CalmInv'
  <2> SUFFICES ASSUME IInv, CalmInv, [Next]_vars PROVE CalmInv'
    OBVIOUS
  <2>1. CASE UNCHANGED vars
    BY <2>1 DEF vars, process, channel, CalmInv, Untouched, Counted
  <2>2. CASE Next /\ calm
    BY <2>2, StepCalm, AskCalm, ServeCalm, DisturbedCalm DEF Next
  <2>3. CASE Next /\ ~calm
    <3>1. ~calm'
      BY <2>3 DEF Next, Step, Send, SendFails, Receive, ReceiveFails, Lock, Connect, Duplicate, ConnectFails,
         WaitTimeout, WaitUsr1, WaitInterrupt, LockPool, AlreadyPolled, Ask, RaiseSignal, SendSignal, Serve,
         NodeStop, NodeStarts, IdleClose, Disturb
    <3> QED BY <3>1 DEF CalmInv
  <2> QED BY <2>1, <2>2, <2>3
<1> QED BY <1>1, <1>2, Invariance, PTL DEF Spec

\* `retry_request_batch` sends a request again only when tapyrusd has not executed it
\* (RPC_IN_WARMUP), and a thread goes on only from one that was, as long as tapyrusd
\* serves and no interrupt is raised: whatever the number of handlers and of SIGUSR1.
THEOREM ExecutedOnce == Spec => CalmOnce
<1>1. IInv /\ CalmInv /\ Next /\ calm => RequestsOnce
  <2> SUFFICES ASSUME IInv, CalmInv, Next, calm PROVE RequestsOnce
    OBVIOUS
  <2> QED BY StepCalm, AskCalm, ServeCalm, DisturbedCalm DEF Next
<1>2. IInv /\ CalmInv /\ [Next]_vars => [calm => RequestsOnce]_vars
  BY <1>1
<1> QED BY <1>2, Invariance, CalmInvariance, PTL DEF Spec, CalmOnce, RequestsOnce
=============================================================================
