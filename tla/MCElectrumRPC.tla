---------------------------- MODULE MCElectrumRPC ----------------------------
(***************************************************************************)
(* ElectrumRPC with a client that sends lines and one that sends nothing.  *)
(* A line that is no request ends its handler like the end of the stream.  *)
(***************************************************************************)
EXTENDS ElectrumRPC

CONSTANTS talker, silent, TalkerLines

LineBound == [p \in Peers |-> IF p = talker THEN TalkerLines ELSE 0]
LineKinds == [p \in Peers |-> {"subscribe", "broadcast"}]
=============================================================================
