---------------------------- MODULE MCAgentInvoke -----------------------------
(* A small instance of AgentInvoke for TLC. *)
EXTENDS AgentInvoke, TLC

CONSTANTS w1, w2, p1

MCWorkers == {w1, w2}
MCPollers == {p1}
WorkerSymmetry == Permutations(MCWorkers)

=============================================================================
