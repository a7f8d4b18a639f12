---------------------------- MODULE DaemonClient ----------------------------
(***************************************************************************)
(* The client of tapyrusd, src/src/daemon.rs, and the signals that end its *)
(* waits, src/src/signal.rs: the main thread and the request handlers of   *)
(* the servers share one connection behind a mutex, send a request that    *)
(* met a connection error again on a new connection, and wait on one       *)
(* channel of signals.  tapyrusd stops, starts and warms up as it likes.   *)
(*                                                                         *)
(* A request stands for its batch, and its id for the attempt it belongs   *)
(* to.  The requests that Indexer::update makes on the connection it opens *)
(* for itself are left out; opening it (Daemon::reconnect) is not.         *)
(***************************************************************************)
EXTENDS Naturals

CONSTANTS
  Main,       \* the thread of run_server
  Handlers,   \* threads that answer a REST or an Electrum request
  NoThread    \* nobody: a free lock, a connection without a request

ASSUME DaemonAssumption == Main \notin Handlers /\ NoThread \notin Handlers \cup {Main}

Threads == Handlers \cup {Main}

\* SIGINT or SIGTERM, and SIGUSR1.
Signals == {"int", "usr1"}

VARIABLES
  node,      \* tapyrusd: "down", "warmup", "up"
  conn,      \* the shared connection: alive, the thread whose request it carries, the reply
  lock,      \* who holds the mutex of conn
  pool,      \* who holds the mempool for writing
  pc, req,   \* of each thread: its next step and the request it is about
  serving,   \* the servers have been started
  raised,    \* pending signals
  slot,      \* the signal in the channel of one
  calm,      \* history: tapyrusd kept serving, no interrupt was raised
  executed,  \* history: how often a thread's current request was executed, while calm
  swallowed  \* history: an interrupt reached a thread that went on

process == <<pc, req, pool, serving, executed, swallowed>>
channel == <<raised, slot>>
vars == <<process, channel, node, conn, lock, calm>>

-----------------------------------------------------------------------------
(* What a thread does with the outcome of a request.                       *)

\* getblockchaininfo stands for the requests of Daemon::new, the last of which is
\* repeated until tapyrusd is in sync, getmempoolentry for both of add_by_txid.
MainMethods ==
  {"getblockchaininfo", "reconnect", "getbestblockhash", "getmempool", "gettransactions"}
HandlerMethods == {"sendrawtransaction", "getmempoolentry", "getblock"}

\* Where the caller of a request continues when it has succeeded.
Continuation(r) ==
  CASE r = "getblockchaininfo" -> {<<"lock", "reconnect">>}
    [] r = "reconnect" -> {<<"pool", "getmempool">>}
    [] r = "getbestblockhash" -> {<<"lock", "reconnect">>, <<"pool", "getmempool">>}
    [] r = "getmempool" -> {<<"send", "gettransactions">>}
    [] r = "gettransactions" -> {<<"wait", "none">>}
    [] r = "sendrawtransaction" -> {<<"pool", "getmempoolentry">>}
    [] r = "getmempoolentry" -> {<<"idle", "none">>}
    [] r = "getblock" -> {<<"idle", "none">>}

\* The mempool is locked from getmempool to gettransactions, and by add_by_txid.
Goto(t, p, r) ==
  /\ pc' = [pc EXCEPT ![t] = p]
  /\ req' = [req EXCEPT ![t] = r]
  /\ executed' = [executed EXCEPT ![t] = 0]
  /\ pool' = IF pool = t /\ p \in {"wait", "idle", "stopped"} THEN NoThread ELSE pool
  /\ serving' = (serving \/ p = "wait")

Succeed(t) == \E next \in Continuation(req[t]) : Goto(t, next[1], next[2])

\* run_server passes errors on but for that of gettransactions, which keeps the
\* mempool; handlers answer with an error, or ignore it (add_by_txid).
Fail(t) ==
  LET next == CASE t # Main -> "idle"
                [] t = Main /\ req[t] = "gettransactions" -> "wait"
                [] OTHER -> "stopped"
  IN Goto(t, next, "none")

-----------------------------------------------------------------------------
(* Requests.                                                               *)

Retry(t) ==
  /\ pc' = [pc EXCEPT ![t] = "retry"]
  /\ UNCHANGED <<req, pool, serving, executed, swallowed>>

\* call_jsonrpc sends: the mutex is kept until the reply has been read.
Send_Unlocked(t) ==
  /\ pc[t] = "send"
  /\ conn' = IF conn.alive THEN [conn EXCEPT !.asker = t] ELSE conn
  /\ pc' = [pc EXCEPT ![t] = "recv"]
  /\ UNCHANGED <<lock, req, pool, serving, executed, swallowed, channel, node, calm>>

Send(t) ==
  /\ pc[t] = "send" /\ lock = NoThread
  /\ conn' = IF conn.alive THEN [conn EXCEPT !.asker = t] ELSE conn
  /\ lock' = t
  /\ pc' = [pc EXCEPT ![t] = "recv"]
  /\ UNCHANGED <<req, pool, serving, executed, swallowed, channel, node, calm>>

\* The cookie file is gone with tapyrusd, or a write fails: both are connection errors.
SendFails(t) ==
  /\ pc[t] = "send" /\ lock = NoThread /\ ~conn.alive
  /\ Retry(t)
  /\ UNCHANGED <<conn, lock, channel, node, calm>>

\* RPC_IN_WARMUP is a connection error; any other error, and a reply with another
\* id, ends the request.
Receive(t) ==
  /\ pc[t] = "recv" /\ conn.reply # "none"
  /\ conn' = [conn EXCEPT !.asker = NoThread, !.reply = "none"]
  /\ lock' = NoThread
  /\ IF conn.asker # t
     THEN Fail(t)
     ELSE \/ conn.reply = "ok" /\ Succeed(t)
          \/ conn.reply = "syncing" /\ Goto(t, "syncwait", req[t])
          \/ conn.reply = "refused" /\ Fail(t)
          \/ conn.reply = "warmup" /\ Retry(t)
  /\ UNCHANGED <<swallowed, channel, node, calm>>

\* End of file is a connection error; an error of the first read is not.
ReceiveFails(t) ==
  /\ pc[t] = "recv" /\ ~conn.alive /\ conn.reply = "none"
  /\ lock' = NoThread
  /\ Retry(t) \/ Fail(t)
  /\ UNCHANGED <<swallowed, conn, channel, node, calm>>

\* Before a request of the main thread on a connection of its own, and after a
\* connection error, the mutex is taken to connect.
Lock(t) ==
  /\ pc[t] \in {"lock", "relock"} /\ lock = NoThread
  /\ lock' = t
  /\ pc' = [pc EXCEPT ![t] = IF @ = "lock" THEN "dup" ELSE "connect"]
  /\ UNCHANGED <<req, pool, serving, executed, swallowed, conn, channel, node, calm>>

Fresh == [alive |-> TRUE, asker |-> NoThread, reply |-> "none"]

\* reconnect() of retry_request_batch: the request is sent again.
Connect_Unused(t) ==
  /\ pc[t] = "connect" /\ node # "down"
  /\ lock' = NoThread
  /\ pc' = [pc EXCEPT ![t] = "send"]
  /\ UNCHANGED <<conn, req, pool, serving, executed, swallowed, channel, node, calm>>

Connect(t) ==
  /\ pc[t] = "connect" /\ node # "down"
  /\ conn' = Fresh
  /\ lock' = NoThread
  /\ pc' = [pc EXCEPT ![t] = "send"]
  /\ UNCHANGED <<req, pool, serving, executed, swallowed, channel, node, calm>>

\* Daemon::reconnect leaves the shared connection alone.
Duplicate(t) ==
  /\ pc[t] = "dup" /\ node # "down"
  /\ lock' = NoThread
  /\ Succeed(t)
  /\ UNCHANGED <<swallowed, conn, channel, node, calm>>

\* tcp_connect waits with the mutex held.
ConnectFails(t) ==
  /\ pc[t] \in {"connect", "dup"} /\ node = "down"
  /\ pc' = [pc EXCEPT ![t] = IF @ = "dup" THEN "dupwait" ELSE "backoff"]
  /\ UNCHANGED <<req, pool, serving, executed, swallowed, conn, lock, channel, node, calm>>

-----------------------------------------------------------------------------
(* Waiter::wait.                                                           *)

WaitPoints == {"wait", "syncwait", "retry", "backoff", "dupwait"}

Waiting(t) == pc[t] \in WaitPoints

AfterWait(p) ==
  CASE p = "syncwait" -> "send"
    [] p = "retry" -> "relock"
    [] p = "backoff" -> "connect"
    [] p = "dupwait" -> "dup"

\* The loop of run_server wakes up to ask for the best block.
Resume(t) ==
  /\ IF pc[t] = "wait"
     THEN Goto(t, "send", "getbestblockhash")
     ELSE /\ pc' = [pc EXCEPT ![t] = AfterWait(@)]
          /\ UNCHANGED <<req, pool, serving, executed>>
  /\ UNCHANGED swallowed

WaitTimeout(t) ==
  /\ Waiting(t) /\ slot = "none"
  /\ Resume(t)
  /\ UNCHANGED <<conn, lock, channel, node, calm>>

\* Only the loop of run_server accepts SIGUSR1, the others wait again.
WaitUsr1_Accepted(t) ==
  /\ Waiting(t) /\ slot = "usr1"
  /\ slot' = "none"
  /\ Fail(t)
  /\ lock' = IF lock = t THEN NoThread ELSE lock
  /\ UNCHANGED <<swallowed, conn, raised, node, calm>>

WaitUsr1(t) ==
  /\ Waiting(t) /\ slot = "usr1"
  /\ slot' = "none"
  /\ IF pc[t] = "wait" THEN Resume(t) ELSE UNCHANGED process
  /\ UNCHANGED <<conn, lock, raised, node, calm>>

\* The wait ends in an error, and so does the request the thread is at.
WaitInterrupt_Resume(t) ==
  /\ Waiting(t) /\ slot = "int"
  /\ slot' = "none"
  /\ Resume(t)
  /\ UNCHANGED <<conn, lock, raised, node, calm>>

WaitInterrupt_KeepLock(t) ==
  /\ Waiting(t) /\ slot = "int"
  /\ slot' = "none"
  /\ Fail(t)
  /\ swallowed' = (swallowed \/ pc'[t] # "stopped")
  /\ UNCHANGED <<conn, lock, raised, node, calm>>

WaitInterrupt(t) ==
  /\ Waiting(t) /\ slot = "int"
  /\ slot' = "none"
  /\ Fail(t)
  /\ swallowed' = (swallowed \/ pc'[t] # "stopped")
  /\ lock' = IF lock = t THEN NoThread ELSE lock
  /\ UNCHANGED <<conn, raised, node, calm>>

-----------------------------------------------------------------------------
(* The mempool's lock and the handlers.                                    *)

LockPool(t) ==
  /\ pc[t] = "pool" /\ pool = NoThread
  /\ pool' = t
  /\ pc' = [pc EXCEPT ![t] = "send"]
  /\ UNCHANGED <<req, serving, executed, swallowed, conn, lock, channel, node, calm>>

\* The main thread has polled the transaction already.
AlreadyPolled(t) ==
  /\ pc[t] = "pool" /\ req[t] = "getmempoolentry" /\ pool = NoThread
  /\ Goto(t, "idle", "none")
  /\ UNCHANGED <<swallowed, conn, lock, channel, node, calm>>

\* A REST or Electrum request: broadcast_raw, or one that only reads.
Ask(t) ==
  /\ serving /\ pc[t] = "idle"
  /\ \E r \in {"sendrawtransaction", "getblock"} : Goto(t, "send", r)
  /\ UNCHANGED <<swallowed, conn, lock, channel, node, calm>>

-----------------------------------------------------------------------------
(* Signals: the thread of notify(), which waits while the channel is full. *)

Disturb == calm' = FALSE /\ executed' = [t \in Threads |-> 0]

\* Bound of this model: one interrupt.
RaiseSignal(s) ==
  /\ s \notin raised
  /\ s = "int" => slot # "int" /\ ~swallowed
  /\ raised' = raised \cup {s}
  /\ IF s = "int" THEN Disturb ELSE UNCHANGED <<calm, executed>>
  /\ UNCHANGED <<pc, req, pool, serving, swallowed, slot, node, conn, lock>>

SendSignal(s) ==
  /\ s \in raised /\ slot = "none"
  /\ slot' = s
  /\ raised' = raised \ {s}
  /\ UNCHANGED <<process, node, conn, lock, calm>>

-----------------------------------------------------------------------------
(* tapyrusd.                                                               *)

\* blocks and headers of tapyrusd differ from time to time.
Replies(r) ==
  CASE r = "getblockchaininfo" -> {"ok", "syncing"}
    [] r \in {"getbestblockhash", "getmempool"} -> {"ok"}
    [] OTHER -> {"ok", "refused"}

Serve ==
  /\ conn.alive /\ conn.asker # NoThread /\ conn.reply = "none"
  /\ IF node = "warmup"
     THEN conn' = [conn EXCEPT !.reply = "warmup"] /\ UNCHANGED executed
     ELSE /\ \E r \in Replies(req[conn.asker]) : conn' = [conn EXCEPT !.reply = r]
          /\ executed' = IF calm THEN [executed EXCEPT ![conn.asker] = IF @ = 2 THEN 2 ELSE @ + 1]
                                 ELSE executed
  /\ UNCHANGED <<pc, req, pool, serving, swallowed, channel, node, lock, calm>>

\* A reply that tapyrusd has sent may or may not arrive after it has stopped.
NodeStop ==
  /\ node # "down"
  /\ node' = "down"
  /\ \E reply \in {conn.reply, "none"} :
       conn' = [alive |-> FALSE, asker |-> IF reply = "none" THEN NoThread ELSE conn.asker, reply |-> reply]
  /\ Disturb
  /\ UNCHANGED <<pc, req, pool, serving, swallowed, channel, lock>>

NodeStarts ==
  /\ \/ node = "down" /\ node' = "warmup"
     \/ node = "warmup" /\ node' = "up"
  /\ UNCHANGED <<process, channel, conn, lock, calm>>

\* A connection that nobody uses for a while is closed by tapyrusd.
IdleClose ==
  /\ conn.alive /\ \A t \in Threads : pc[t] \in {"idle", "wait"}
  /\ conn' = [conn EXCEPT !.alive = FALSE]
  /\ Disturb
  /\ UNCHANGED <<pc, req, pool, serving, swallowed, channel, node, lock>>

-----------------------------------------------------------------------------

\* Daemon::new connects before it has a mutex.
Init ==
  /\ node \in {"down", "up"}
  /\ conn = [Fresh EXCEPT !.alive = FALSE]
  /\ lock = Main /\ pool = NoThread
  /\ pc = [t \in Threads |-> IF t = Main THEN "connect" ELSE "idle"]
  /\ req = [t \in Threads |-> IF t = Main THEN "getblockchaininfo" ELSE "none"]
  /\ serving = FALSE
  /\ raised = {} /\ slot = "none"
  /\ executed = [t \in Threads |-> 0]
  /\ calm = TRUE /\ swallowed = FALSE

Step(t) ==
  \/ Send(t) \/ SendFails(t) \/ Receive(t) \/ ReceiveFails(t)
  \/ Lock(t) \/ Connect(t) \/ Duplicate(t) \/ ConnectFails(t)
  \/ WaitTimeout(t) \/ WaitUsr1(t) \/ WaitInterrupt(t)
  \/ LockPool(t) \/ AlreadyPolled(t)

\* When the main thread has stopped, the process ends.
Next ==
  /\ pc[Main] # "stopped"
  /\ \/ \E t \in Threads : Step(t)
     \/ \E t \in Handlers : Ask(t)
     \/ \E s \in Signals : RaiseSignal(s) \/ SendSignal(s)
     \/ Serve \/ NodeStop \/ NodeStarts \/ IdleClose

Running == pc[Main] # "stopped"

\* A step that waits for nothing, or for a reply.
Proceed(t) ==
  \/ Receive(t) \/ ReceiveFails(t) \/ Connect(t) \/ Duplicate(t) \/ ConnectFails(t)
  \/ WaitUsr1(t) \/ WaitInterrupt(t)

\* A step that takes a lock.
Acquire(t) == Send(t) \/ SendFails(t) \/ Lock(t) \/ LockPool(t) \/ AlreadyPolled(t)

\* Threads run, locks are given to whoever waits long enough, the signal thread does
\* not pass an interrupt over for ever, and tapyrusd answers while it runs.  Now and
\* then no SIGUSR1 comes for the seconds of a wait: otherwise it would never end.
Fairness ==
  /\ \A t \in Threads :
       /\ WF_vars(Running /\ Proceed(t))
       /\ SF_vars(Running /\ WaitTimeout(t))
       /\ SF_vars(Running /\ Acquire(t))
  /\ SF_vars(Running /\ SendSignal("int"))
  /\ WF_vars(Running /\ Serve)

Spec == Init /\ [][Next]_vars /\ Fairness

-----------------------------------------------------------------------------
(* Properties.                                                             *)

\* The variables have their types; only the main thread stops, only handlers idle.
TypeOK ==
  /\ node \in {"down", "warmup", "up"}
  /\ conn \in [alive : BOOLEAN, asker : Threads \cup {NoThread},
               reply : {"none", "ok", "refused", "syncing", "warmup"}]
  /\ lock \in Threads \cup {NoThread} /\ pool \in Threads \cup {NoThread}
  /\ req \in [Threads -> MainMethods \cup HandlerMethods \cup {"none"}]
  /\ pc[Main] # "idle" /\ \A t \in Handlers : pc[t] \notin {"wait", "stopped"}
  /\ pc \in [Threads -> WaitPoints \cup
               {"idle", "send", "recv", "lock", "relock", "dup", "connect", "pool", "stopped"}]
  /\ serving \in BOOLEAN /\ calm \in BOOLEAN
  /\ raised \subseteq Signals /\ slot \in Signals \cup {"none"}
  /\ executed \in [Threads -> 0..2] /\ swallowed \in BOOLEAN

\* The mutex of the connection is held from send to recv and while connecting, by
\* one thread, and given back on every way out (also of a wait that is interrupted);
\* the mempool is locked from the first to the last request of update() and
\* add_by_txid(), whatever these come to.
LocksHeld ==
  \A t \in Threads :
    /\ (lock = t) <=> (pc[t] \in {"recv", "dup", "dupwait", "connect", "backoff"})
    /\ (pool = t) <=> (/\ req[t] \in {"getmempool", "gettransactions", "getmempoolentry"}
                       /\ pc[t] # "pool")

\* A connection carries one request, that of the thread that holds it: a thread
\* never reads the reply to another's request, or to an attempt that was given up.
NoStrayReply ==
  /\ conn.asker # NoThread => lock = conn.asker /\ pc[conn.asker] = "recv"
  /\ conn.asker = NoThread => conn.reply = "none"

\* As long as tapyrusd, which may still be starting, serves and no interrupt is
\* raised, a thread that made a request goes on only when tapyrusd has executed it,
\* and has done so once: neither a warm-up nor any number of SIGUSR1 disturbs.
CalmOnce ==
  [][calm => \A t \in Threads :
       /\ executed'[t] <= 1
       /\ (req'[t] # req[t] /\ req[t] \notin {"none", "reconnect"} /\ pc[t] # "pool") => executed[t] = 1]_vars

\* If tapyrusd stays up, every request ends and the main loop comes round, however
\* the threads' reconnections interfere.
RequestEnds ==
  \A t \in Threads : []<>(pc[t] \in {"idle", "wait", "syncwait"} \/ ~Running \/ node # "up")

\* An interrupt stops the process unless a thread takes it in the middle of a
\* request: a handler, or Mempool::update() in gettransactions.
InterruptHeard ==
  "int" \in raised ~> ~Running \/ swallowed
=============================================================================
