------------------------------ MODULE MCAgent ------------------------------
(***************************************************************************)
(* The TLC instance of Agent; MCAgent.cfg gives the constants.  Nothing    *)
(* tells two connections or two commands apart before they are made, so    *)
(* they are made in the order of their numbers.  At most MaxReplies        *)
(* responses are under way at a time, out of order and repeated ones among *)
(* them.                                                                   *)
(***************************************************************************)
EXTENDS Agent, FiniteSets

CONSTANT MaxReplies

MCInOrder ==
  /\ \A c, d \in Conn : c < d /\ handler[d] # "none" => handler[c] # "none"
  /\ \A k, j \in Command : k < j /\ cmd[j] # "idle" => cmd[k] # "idle"

MCBounded == MCInOrder /\ Cardinality(replies) <= MaxReplies

MCAgentSpec == AgentInit /\ [][AgentNext /\ MCBounded']_agentVars /\ AgentFairness
=============================================================================
