-------------------------- MODULE MCEvidenceCorpus --------------------------
(* Three files with the same number: two that contradict each other and one
   whose title says too little to contradict anything. *)
EXTENDS EvidenceCorpus, TLC

CONSTANTS plan, scan, memo, num

OneNumber == [f \in Files |-> num]

Titles == [f \in Files |-> IF f = plan THEN {"account", "plan"}
                           ELSE IF f = scan THEN {"network", "scan"} ELSE {}]

\* Which of the workbooks is which does not matter.
Symmetry == Permutations(Workbooks)

=============================================================================
