----------------------------- MODULE ChainIndex ------------------------------
(***************************************************************************)
(* What the indexer promises the rest of electrs, without saying how: the  *)
(* program serves one of the chains tapyrusd has had, it switches from one *)
(* to the next in a single step, it serves a chain only after that chain's *)
(* tip has been made durable, and a restart resumes at the durable tip.    *)
(***************************************************************************)
EXTENDS BlockTree

VARIABLES
  best,     \* the best block of tapyrusd
  target,   \* the best block the running update works towards
  synced,   \* the durable tip
  served    \* the tip of the chain queries are answered from

vars == <<best, target, synced, served>>

Init ==
  /\ best \in Blocks
  /\ target = NoBlock
  /\ synced = NoBlock
  /\ served = NoBlock

DaemonMoves ==
  /\ best' \in Blocks
  /\ UNCHANGED <<target, synced, served>>

Aim ==
  /\ target' = best
  /\ UNCHANGED <<best, synced, served>>

Sync ==
  /\ target # NoBlock
  /\ synced' = target
  /\ UNCHANGED <<best, target, served>>

Serve ==
  /\ served' = synced
  /\ target' = NoBlock
  /\ UNCHANGED <<best, synced>>

Stop ==
  /\ target' = NoBlock
  /\ served' = NoBlock
  /\ UNCHANGED <<best, synced>>

Next == DaemonMoves \/ Aim \/ Sync \/ Serve \/ Stop

Spec == Init /\ [][Next]_vars
=============================================================================
