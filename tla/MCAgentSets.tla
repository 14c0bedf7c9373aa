---------------------------- MODULE MCAgentSets -----------------------------
(* Instances of AgentSets for TLC: what sets are saved with. Sets are         *)
(* interchangeable, and so are skills.                                        *)
EXTENDS AgentSets, TLC

CONSTANTS n1, n2, d1, root, leaf

Plain(agentName, parent) ==
  [name |-> agentName, parent |-> parent, llm |-> None, listens |-> TRUE,
   skills |-> <<>>, servers |-> {}]

MCSpecs ==
  { <<[Plain(root, None) EXCEPT !.skills = <<n1, n2>>, !.servers = {n1}, !.llm = d1]>>,
    <<[Plain(root, None) EXCEPT !.listens = FALSE], Plain(leaf, root)>>,
    <<Plain(root, None), [Plain(leaf, root) EXCEPT !.skills = <<n1, n1>>]>> }

Symmetry == Permutations(Sets) \cup Permutations(Skills)
=============================================================================
