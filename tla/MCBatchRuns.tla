---------------------------- MODULE MCBatchRuns ----------------------------
(* Model-checking instances of BatchRuns: one pipeline, a few run ids.     *)
EXTENDS BatchRuns, TLC

CONSTANTS p1, r1, r2

SinglePipeline == [r \in Runs |-> p1]

\* Run ids are UUIDs: any two of the same pipeline are interchangeable.
RunSymmetry == Permutations(Runs)
=============================================================================
