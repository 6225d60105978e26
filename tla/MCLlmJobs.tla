----------------------------- MODULE MCLlmJobs -----------------------------
EXTENDS LlmJobs, TLC
OneProject == [s \in Scans |-> CHOOSE p \in Projects : TRUE]
\* Two batches of two and one findings, of excerpts and of source files.
TwoBatches == {[sources |-> src, last |-> 2, size |-> <<2, 1>>] : src \in BOOLEAN}
=============================================================================
