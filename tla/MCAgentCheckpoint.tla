--------------------------- MODULE MCAgentCheckpoint ---------------------------
EXTENDS AgentCheckpoint

CONSTANTS p1, p2

MCProcs == {p1, p2}
Interchangeable == Permutations(MCProcs)

\* Three turns in the world a run is started in.  In one changed world the same
\* first request ends the pipeline, in another every request is different, and
\* there is one more than can be recorded.
MCTurns == "before" :> 3 @@ "shorter" :> 1 @@ "changed" :> 4
MCShown == "before" :> "old" @@ "shorter" :> "old" @@ "changed" :> "new"

MCAsks == {[tokens |-> 3, output |-> 1, bytes |-> 1]}
================================================================================
