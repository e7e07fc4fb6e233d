--------------------------- MODULE MCCheckSystem ----------------------------
(* Instances of CheckSystem for TLC. *)
EXTENDS CheckSystem, TLC

\* Every key is decided by an agent.
AskPolicies == {[k \in Keys |-> "ask"]}

\* Keys change between decided by the storage and decided by an agent.
MixedPolicies == {[k \in Keys |-> p] : p \in {"DENY", "ask"}}

LinkSymmetry == Permutations(ClientLinks) \cup Permutations(AgentLinks) \cup Permutations(Keys)
=============================================================================
