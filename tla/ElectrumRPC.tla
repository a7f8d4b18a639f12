----------------------------- MODULE ElectrumRPC -----------------------------
(***************************************************************************)
(* The threads of the Electrum server, src/src/electrum/server.rs: the     *)
(* acceptor, the notifier, the thread "rpc" that accepts peers and, when   *)
(* the main thread drops the server, ends them, and for each peer a reader *)
(* and a handler with a bounded channel between them.                      *)
(*                                                                         *)
(* A peer is one connection.  Every client subscribes to the same script,  *)
(* whose status (the hash of its history) the main thread changes before   *)
(* it notifies; the subscription to headers has the same shape and is not  *)
(* told apart.  Requests that only read are left out: to the threads they  *)
(* are a subscription that fails.  A client may be slow, but one that      *)
(* stays connected reads what it is sent.                                  *)
(***************************************************************************)
EXTENDS Integers, Sequences

CONSTANTS
  Peers,      \* connections
  Statuses,   \* statuses of the script
  Popular,    \* the statuses of histories longer than txs_limit
  NoStatus,   \* what a handler has that is not subscribed
  Exit,       \* the None that ends the acceptor's channel
  MaxLines,   \* peer -> how many lines its client sends
  Kinds,      \* peer -> what these lines may be
  Capacity,   \* messages that the channel of a connection holds
  MaxPending  \* bound of this model: notifications that wait for the notifier

\* "subscribe", "broadcast": requests; "invalid": not JSON, or no command;
\* "binary": not UTF-8, or the start of a TLS handshake.
Requests == {"subscribe", "broadcast", "invalid"}
Messages == Requests \cup {"update", "done"}

ASSUME ElectrumAssumption ==
  /\ Popular \subseteq Statuses
  /\ NoStatus \notin Statuses
  /\ Exit \notin Peers
  /\ MaxLines \in [Peers -> Nat]
  /\ Kinds \in [Peers -> SUBSET (Requests \cup {"binary"})]
  /\ Capacity \in Nat \ {0}
  /\ MaxPending \in Nat \ {0}

VARIABLES
  main,         \* the main thread: in its loop, dropping the server, or done
  status,       \* the status of the script
  notification, \* the channel to the notifier
  accepted,     \* the channel from the acceptor (and the notifier) to "rpc"
  rpc,          \* the thread "rpc"
  threads,      \* the peers whose handlers "rpc" has yet to join
  senders,      \* the peers in the list of senders, which has a lock
  ahead,        \* peer -> the peers that entered the list before it
  told,         \* the peers "rpc" sent Done to
  conn,         \* peer -> the client's side of the connection
  left,         \* peer -> how many lines the client may still send
  handler,      \* peer -> the handler's next step
  reader,       \* peer -> the reader's next step
  held,         \* peer -> the message the reader is about to send
  chan,         \* peer -> the channel of the connection
  hash          \* peer -> the status its client was told last, or NoStatus

mainVars == <<main, status, notification>>
rpcVars  == <<accepted, rpc, threads, senders, ahead, told>>
connVars == <<conn, left>>
peerVars == <<handler, reader, held, chan, hash>>
vars == <<mainVars, rpcVars, connVars, peerVars>>

\* While it sends Done, "rpc" holds the lock of senders.
Locked == rpc = "close"

Full(p) == Len(chan[p]) = Capacity

\* The handler has shut the socket down.
Shut(p) == handler[p] \in {"join", "ended"}

\* The receiver of p's channel is dropped with the Connection.
Disconnected(p) == handler[p] = "ended"

Put(p, m) == chan' = [chan EXCEPT ![p] = Append(@, m)]
Goto(p, next) == handler' = [handler EXCEPT ![p] = next]

Init ==
  /\ main = "loop"
  /\ status \in Statuses
  /\ notification = <<>>
  /\ accepted = <<>>
  /\ rpc = "accept"
  /\ threads = {}
  /\ senders = {}
  /\ ahead = [p \in Peers |-> {}]
  /\ told = {}
  /\ conn = [p \in Peers |-> "none"]
  /\ left = MaxLines
  /\ handler = [p \in Peers |-> "off"]
  /\ reader = [p \in Peers |-> "off"]
  /\ held = [p \in Peers |-> "done"]
  /\ chan = [p \in Peers |-> <<>>]
  /\ hash = [p \in Peers |-> NoStatus]

-----------------------------------------------------------------------------
(* Clients and the acceptor                                                 *)

Connect(p) ==
  /\ conn[p] = "none"
  /\ rpc # "ended"
  /\ conn' = [conn EXCEPT ![p] = "open"]
  /\ accepted' = Append(accepted, p)
  /\ UNCHANGED <<mainVars, rpc, threads, senders, ahead, told, left, peerVars>>

\* The client closes the connection, or is gone without doing so.
Hangup(p) ==
  /\ conn[p] = "open"
  /\ \E how \in {"closed", "reset"} : conn' = [conn EXCEPT ![p] = how]
  /\ UNCHANGED <<mainVars, rpcVars, left, peerVars>>

-----------------------------------------------------------------------------
(* The main thread                                                          *)

\* A pass of run_server's loop: the update of index and mempool, notify().
Update ==
  /\ main = "loop"
  /\ Len(notification) < MaxPending
  /\ status' \in Statuses
  /\ notification' = Append(notification, "periodic")
  /\ UNCHANGED <<main, rpcVars, connVars, peerVars>>

\* drop(), after a signal or an error of the loop ...
Drop ==
  /\ main = "loop"
  /\ main' = "drop"
  /\ notification' = Append(notification, "exit")
  /\ UNCHANGED <<status, rpcVars, connVars, peerVars>>

\* ... which joins "rpc".
JoinServer ==
  /\ main = "drop"
  /\ rpc = "ended"
  /\ main' = "stopped"
  /\ UNCHANGED <<status, notification, rpcVars, connVars, peerVars>>

-----------------------------------------------------------------------------
(* The notifier                                                             *)

StaysListed_Always(p) == TRUE

StaysListed_HasRoom(p) == ~Disconnected(p) /\ ~Full(p)

\* After try_send only those whose receiver is gone leave the list.
StaysListed(p) == ~Disconnected(p)

Notify ==
  /\ notification # <<>>
  /\ Head(notification) = "periodic"
  /\ ~Locked
  /\ notification' = Tail(notification)
  /\ senders' = {p \in senders : StaysListed(p)}
  /\ chan' = [p \in Peers |->
                IF p \in senders /\ ~Disconnected(p) /\ ~Full(p)
                THEN Append(chan[p], "update") ELSE chan[p]]
  /\ UNCHANGED <<main, status, accepted, rpc, threads, ahead, told, connVars,
                 handler, reader, held, hash>>

NotifyExit ==
  /\ notification # <<>>
  /\ Head(notification) = "exit"
  /\ ~Locked
  /\ notification' = Tail(notification)
  /\ accepted' = Append(accepted, Exit)
  /\ UNCHANGED <<main, status, rpc, threads, senders, ahead, told, connVars,
                 peerVars>>

-----------------------------------------------------------------------------
(* The thread "rpc"                                                         *)

\* A handler is spawned; the ended ones, whose ids are in the garbage channel,
\* are joined.
Accept ==
  /\ rpc = "accept"
  /\ accepted # <<>>
  /\ Head(accepted) # Exit
  /\ accepted' = Tail(accepted)
  /\ Goto(Head(accepted), "start")
  /\ threads' = {p \in threads : handler[p] # "ended"} \cup {Head(accepted)}
  /\ UNCHANGED <<mainVars, rpc, senders, ahead, told, connVars, reader, held,
                 chan, hash>>

AcceptExit ==
  /\ rpc = "accept"
  /\ accepted # <<>>
  /\ Head(accepted) = Exit
  /\ accepted' = Tail(accepted)
  /\ rpc' = "close"
  /\ UNCHANGED <<mainVars, threads, senders, ahead, told, connVars, peerVars>>

\* send() to the next sender of the list waits for room in the channel, and
\* fails when the receiver is gone.
SendDone(p) ==
  /\ rpc = "close"
  /\ p \in senders \ told
  /\ ahead[p] \cap senders \subseteq told
  /\ told' = told \cup {p}
  /\ \/ Disconnected(p) /\ UNCHANGED chan
     \/ ~Disconnected(p) /\ ~Full(p) /\ Put(p, "done")
  /\ UNCHANGED <<mainVars, accepted, rpc, threads, senders, ahead, connVars,
                 handler, reader, held, hash>>

CloseDone ==
  /\ rpc = "close"
  /\ senders \subseteq told
  /\ rpc' = "join"
  /\ UNCHANGED <<mainVars, accepted, threads, senders, ahead, told, connVars,
                 peerVars>>

JoinPeers_Told ==
  /\ rpc = "join"
  /\ \A p \in threads \cap told : handler[p] = "ended"
  /\ threads' = {}
  /\ rpc' = "ended"
  /\ UNCHANGED <<mainVars, accepted, senders, ahead, told, connVars, peerVars>>

JoinPeers ==
  /\ rpc = "join"
  /\ \A p \in threads : handler[p] = "ended"
  /\ threads' = {}
  /\ rpc' = "ended"
  /\ UNCHANGED <<mainVars, accepted, senders, ahead, told, connVars, peerVars>>

-----------------------------------------------------------------------------
(* The reader of a connection: handle_requests                              *)

ReadLine(p) ==
  /\ reader[p] = "read"
  /\ conn[p] # "reset"
  /\ left[p] > 0
  /\ left' = [left EXCEPT ![p] = @ - 1]
  /\ \E kind \in Kinds[p] :
       held' = [held EXCEPT ![p] = IF kind = "binary" THEN "done" ELSE kind]
  /\ reader' = [reader EXCEPT ![p] = "send"]
  /\ UNCHANGED <<mainVars, rpcVars, conn, handler, chan, hash>>

\* The handler does not shut the socket down.
AtEof_NoShutdown(p) == conn[p] = "closed"

\* The end of the stream: the client closed it, or the handler shut it down.
AtEof(p) == conn[p] = "closed" \/ Shut(p)

\* The reader ends without a message.
ReadEof_Silent(p) ==
  /\ reader[p] = "read"
  /\ AtEof(p)
  /\ reader' = [reader EXCEPT ![p] = "done"]
  /\ UNCHANGED <<mainVars, rpcVars, connVars, handler, held, chan, hash>>

ReadEof(p) ==
  /\ reader[p] = "read"
  /\ AtEof(p)
  /\ held' = [held EXCEPT ![p] = "done"]
  /\ reader' = [reader EXCEPT ![p] = "send"]
  /\ UNCHANGED <<mainVars, rpcVars, connVars, handler, chan, hash>>

\* An error of the stream ends the reader without a message.
ReadFails(p) ==
  /\ reader[p] = "read"
  /\ conn[p] = "reset"
  /\ reader' = [reader EXCEPT ![p] = "done"]
  /\ UNCHANGED <<mainVars, rpcVars, connVars, handler, held, chan, hash>>

SendToHandler(p) ==
  /\ reader[p] = "send"
  /\ ~Full(p)
  /\ Put(p, held[p])
  /\ reader' = [reader EXCEPT ![p] = IF held[p] = "done" THEN "done" ELSE "read"]
  /\ held' = [held EXCEPT ![p] = "done"]
  /\ UNCHANGED <<mainVars, rpcVars, connVars, handler, hash>>

-----------------------------------------------------------------------------
(* The handler of a connection: the peer's thread, handle_replies           *)

\* The sender is registered, the reader spawned.
Register(p) ==
  /\ handler[p] = "start"
  /\ ~Locked
  /\ senders' = senders \cup {p}
  /\ ahead' = [ahead EXCEPT ![p] = senders]
  /\ Goto(p, "recv")
  /\ reader' = [reader EXCEPT ![p] = "read"]
  /\ UNCHANGED <<mainVars, accepted, rpc, threads, told, connVars, held,
                 chan, hash>>

Recv(p, m) ==
  /\ handler[p] = "recv"
  /\ chan[p] # <<>>
  /\ Head(chan[p]) = m
  /\ chan' = [chan EXCEPT ![p] = Tail(@)]
  /\ UNCHANGED <<mainVars, rpcVars, connVars, reader, held>>

\* The reply is the status, or an error if the history is too long.
RecvSubscribe(p) ==
  /\ Recv(p, "subscribe")
  /\ hash' = IF status \in Popular THEN hash ELSE [hash EXCEPT ![p] = status]
  /\ Goto(p, "write")

RecvBroadcast(p) ==
  /\ Recv(p, "broadcast")
  /\ Goto(p, "broadcast")
  /\ UNCHANGED hash

\* The status is compared with the one of the subscription, and not told.
RecvUpdate_NotTold(p) ==
  /\ Recv(p, "update")
  /\ \/ /\ hash[p] = NoStatus \/ status \notin Popular
        /\ UNCHANGED <<handler, hash>>
     \/ /\ hash[p] # NoStatus /\ status \in Popular
        /\ Goto(p, "join")
        /\ UNCHANGED hash

\* update_subscriptions: nothing to tell, a new status, or an error.
RecvUpdate(p) ==
  /\ Recv(p, "update")
  /\ \/ /\ hash[p] = NoStatus
        /\ UNCHANGED <<handler, hash>>
     \/ /\ hash[p] # NoStatus /\ status \notin Popular
        /\ hash' = [hash EXCEPT ![p] = status]
        /\ Goto(p, IF hash[p] = status THEN "recv" ELSE "write")
     \/ /\ hash[p] # NoStatus /\ status \in Popular
        /\ Goto(p, "join")
        /\ UNCHANGED hash

\* Done, or a line that is no command: the loop ends, the socket is shut down.
RecvLast(p) ==
  /\ \E m \in {"invalid", "done"} : Recv(p, m)
  /\ Goto(p, "join")
  /\ UNCHANGED hash

\* broadcast_raw changes the mempool, or fails; the handler's own channel gets
\* an update if it has room.
Broadcast(p) ==
  /\ handler[p] = "broadcast"
  /\ \/ UNCHANGED <<status, chan>>
     \/ /\ status' \in Statuses
        /\ IF Full(p) THEN UNCHANGED chan ELSE Put(p, "update")
  /\ Goto(p, "write")
  /\ UNCHANGED <<main, notification, rpcVars, connVars, reader, held, hash>>

\* Whether a write to a client that has closed its side fails is up to the
\* kernel.
Write(p) ==
  /\ handler[p] = "write"
  /\ \/ conn[p] # "reset" /\ Goto(p, "recv")
     \/ conn[p] # "open"  /\ Goto(p, "join")
  /\ UNCHANGED <<mainVars, rpcVars, connVars, reader, held, chan, hash>>

\* The end of run(): the reader is joined, the connection dropped.
JoinReader(p) ==
  /\ handler[p] = "join"
  /\ reader[p] = "done"
  /\ Goto(p, "ended")
  /\ chan' = [chan EXCEPT ![p] = <<>>]
  /\ hash' = [hash EXCEPT ![p] = NoStatus]
  /\ UNCHANGED <<mainVars, rpcVars, connVars, reader, held>>

-----------------------------------------------------------------------------
Client == \E p \in Peers : Connect(p) \/ Hangup(p)
Notifier == Notify \/ NotifyExit
Rpc ==
  \/ Accept \/ AcceptExit \/ CloseDone \/ JoinPeers
  \/ \E p \in Peers : SendDone(p)
ReadEnds(p) == ReadEof(p) \/ ReadFails(p)
Handler(p) ==
  \/ Register(p) \/ RecvSubscribe(p) \/ RecvBroadcast(p) \/ RecvUpdate(p)
  \/ RecvLast(p) \/ Broadcast(p) \/ Write(p) \/ JoinReader(p)

Next ==
  \/ Client \/ Update \/ Drop \/ JoinServer \/ Notifier \/ Rpc
  \/ \E p \in Peers : ReadLine(p) \/ ReadEnds(p) \/ SendToHandler(p) \/ Handler(p)

\* Threads run when they can.  A reader that waits for room gets it some time,
\* although the notifier could take it each time: it tries every five seconds.
Fairness ==
  /\ WF_vars(Update) /\ WF_vars(JoinServer) /\ WF_vars(Notifier) /\ WF_vars(Rpc)
  /\ \A p \in Peers :
       WF_vars(ReadEnds(p)) /\ SF_vars(SendToHandler(p)) /\ WF_vars(Handler(p))

Spec == Init /\ [][Next]_vars /\ Fairness
-----------------------------------------------------------------------------
(* Properties                                                               *)

HandlerSteps == {"off", "start", "recv", "broadcast", "write", "join", "ended"}

\* Every variable has its type, and no channel of a connection holds more than
\* its capacity, though the reader, the notifier, "rpc" and the handler itself
\* all send to it.
TypeOK ==
  /\ main \in {"loop", "drop", "stopped"}
  /\ status \in Statuses
  /\ notification \in Seq({"periodic", "exit"})
  /\ accepted \in Seq(Peers \cup {Exit})
  /\ rpc \in {"accept", "close", "join", "ended"}
  /\ threads \subseteq Peers
  /\ senders \subseteq Peers
  /\ ahead \in [Peers -> SUBSET Peers]
  /\ told \subseteq Peers
  /\ conn \in [Peers -> {"none", "open", "closed", "reset"}]
  /\ left \in [Peers -> Nat]
  /\ handler \in [Peers -> HandlerSteps]
  /\ reader \in [Peers -> {"off", "read", "send", "done"}]
  /\ held \in [Peers -> Messages]
  /\ chan \in [Peers -> Seq(Messages)]
  /\ \A p \in Peers : Len(chan[p]) <= Capacity
  /\ hash \in [Peers -> Statuses \cup {NoStatus}]

\* Once drop() has returned, no thread of a connection runs: neither a handler,
\* however it was accepted, ended or forgotten by the notifier, nor a reader.
StoppedMeansEnded ==
  main = "stopped" =>
    \A p \in Peers :
      handler[p] \in {"off", "ended"} /\ reader[p] \in {"off", "done"}

\* The reader waits for room in a channel that the handler, which waits for the
\* reader, no longer receives from.
Wedged(p) == handler[p] = "join" /\ reader[p] = "send" /\ Full(p)

\* A wedged connection stays so: nothing that the client, the notifier or the
\* shutdown does releases its two threads.
WedgedForever == [][\A p \in Peers : Wedged(p) => Wedged(p)']_vars

\* p's handler was spawned before the server stopped accepting, but registered
\* its sender after Done was sent to those registered.
Late(p) == rpc = "join" /\ p \in threads /\ p \notin told /\ handler[p] # "ended"

\* drop() joins "rpc", and the server stops: unless a connection is wedged, or
\* nobody tells a late one that it should end.
StopsUnless ==
  main = "drop" ~> (main = "stopped" \/ \E p \in Peers : Wedged(p) \/ Late(p))

\* "the electrum server is stopped when dropped", src/src/bin/electrs.rs:98.
StopsWhenDropped == main = "drop" ~> main = "stopped"

\* A client that stays and has subscribed, while the server runs.
Served(p) ==
  /\ conn[p] = "open"
  /\ handler[p] \in {"recv", "broadcast", "write"}
  /\ hash[p] # NoStatus
  /\ main = "loop"

\* A status that stays is told to every client that stays, though updates are
\* dropped when a channel is full: what is in the channel, or the next
\* notification, brings it.
SubscriberHears ==
  \A p \in Peers :
    <>[]Served(p) /\ <>[][status' = status]_vars
      => <>[](hash[p] = status /\ handler[p] # "write")

\* When a client closes its connection, its threads end, unless they are wedged:
\* the end of the stream reaches the handler behind what is already in the
\* channel.
ClosedEnds ==
  \A p \in Peers :
    (conn[p] = "closed" /\ reader[p] = "read")
      ~> (handler[p] = "ended" \/ Wedged(p))

\* The sender of a connection that ended is forgotten with the next notification
\* (the list would grow for ever), while the server runs.
EndedForgotten ==
  \A p \in Peers :
    handler[p] = "ended" ~>
      (main # "loop" \/ p \notin senders)

=============================================================================
