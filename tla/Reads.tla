-------------------------------- MODULE Reads --------------------------------
(***************************************************************************)
(* Requests that read the index in several steps (HeaderReads, Pages), and *)
(* what the indexing thread may do between the steps.  Requests change     *)
(* nothing, so that one request is in progress at a time.                  *)
(***************************************************************************)
EXTENDS ServedChain

VARIABLES
  req,    \* the request
  came,   \* history: the served tip when it came
  fresh,  \* history: blocks indexed since, for the listings
  left    \* history: blocks given up since

history == <<came, fresh, left>>
vars == <<chainVars, req, history>>

Idle == [kind |-> "none", pc |-> "idle"]

Init ==
  /\ ChainInit
  /\ req = Idle /\ came = NoBlock /\ fresh = {} /\ left = {}

\* A lookup came to nothing.
Missed == req.pc = "missing"

\* What the thread does after the last read makes no difference to the answer.
Answered == Missed \/ req.pc \in {"done", "bad", "panicked"}

Listing == req.kind \in {"txs", "colors"}

-----------------------------------------------------------------------------
(* The indexing thread.  It may aim at any chain that does not end within   *)
(* the one aimed at before, also a shorter one: to go back within a chain   *)
(* fails an assertion of update() (TipAsserted of Indexer).                 *)

Elsewhere(b) == b \notin Ancestors(target)

Aim(b) ==
  /\ ~Answered /\ Elsewhere(b) /\ TakeTarget(b)
  /\ UNCHANGED <<req, history>>

IndexBlock(b) ==
  /\ ~Answered /\ WriteRows(b)
  /\ fresh' = IF Listing THEN fresh \cup {b} ELSE fresh
  /\ UNCHANGED <<req, came, left>>

Publish ==
  /\ ~Answered /\ PublishTarget
  /\ left' = IF req = Idle THEN left ELSE left \cup (Ancestors(served) \ Ancestors(target))
  /\ UNCHANGED <<req, came, fresh>>

\* A request that was being answered is gone; a client that was reading a listing
\* asks for the page again.
Restart(b) ==
  /\ ~Answered
  /\ b = target \/ Elsewhere(b)
  /\ Reopen(b)
  /\ IF Listing
     THEN /\ req' = [req EXCEPT !.pc = "ask", !.page = <<>>, !.rows = {}]
          /\ fresh' = fresh \cup (Ancestors(b) \ indexed)
          /\ left' = left \cup (Ancestors(served) \ Ancestors(b))
          /\ UNCHANGED came
     ELSE req' = Idle /\ came' = NoBlock /\ fresh' = {} /\ left' = {}

-----------------------------------------------------------------------------
(* Requests                                                                 *)

Come(requests) ==
  /\ req = Idle /\ req' \in requests
  /\ came' = served
  /\ UNCHANGED <<chainVars, fresh, left>>

\* A read: fields of the request that it sets
Get(changes) ==
  /\ req' = [f \in DOMAIN req |-> IF f \in DOMAIN changes THEN changes[f] ELSE req[f]]
  /\ UNCHANGED <<chainVars, history>>

End ==
  /\ Answered
  /\ req' = Idle /\ came' = NoBlock /\ fresh' = {} /\ left' = {}
  /\ UNCHANGED chainVars
=============================================================================
