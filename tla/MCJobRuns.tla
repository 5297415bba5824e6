------------------------------ MODULE MCJobRuns ------------------------------
(***************************************************************************)
(* Instances of JobRuns for TLC, with numbers for run_id's.                *)
(***************************************************************************)
EXTENDS JobRuns

MCPriority == [j \in Jobs |-> 1]

\* Nothing depends on which fresh run_id a new row gets: consider the lowest only.
RowsInOrder == \A id \in RunIds : ledger[id] # "none" => \A k \in 1 .. id - 1 : ledger[k] # "none"

\* Once the job has been taken runs overlap, with two rows and no crash. What is left
\* out satisfies MarkedRunEnds.
LittleOnceTaken == taken => faults = 0 /\ Fresh # {}

MCBound == RowsInOrder /\ LittleOnceTaken
=============================================================================
