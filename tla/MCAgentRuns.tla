----------------------------- MODULE MCAgentRuns -----------------------------
(***************************************************************************)
(* Instances of AgentRuns for TLC.                                         *)
(***************************************************************************)
EXTENDS AgentRuns, TLC

\* Runs, plans and workspaces are compared with each other and nothing else.
Interchangeable ==
  Permutations(Runs) \cup Permutations(Plans) \cup Permutations(Workspaces)
=============================================================================
