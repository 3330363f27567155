--------------------------- MODULE MCInputDispatch ---------------------------
(* Instances of InputDispatch for TLC.                                     *)
EXTENDS InputDispatch, TLC

WorkerSymmetry == Permutations(Workers)

B(n) == [kind |-> "built", records |-> n]
F(n) == [kind |-> "failed", records |-> n]
T == [kind |-> "terminal", records |-> 0]

(* Five inputs against a window of four: record-free inputs fill the       *)
(* window, two-record inputs hit the ceiling, and a mixture of both.       *)
WindowContents ==
    {[i \in Inputs |-> B(0)], [i \in Inputs |-> B(2)],
     [i \in Inputs |-> B(IF i % 2 = 1 THEN 2 ELSE 0)]}

(* Three inputs: a yield at the ceiling everywhere; a recoverable failure  *)
(* with records in front of one without; a terminal failure behind a       *)
(* recoverable one; a terminal failure first.                              *)
ContractContents == {<<B(1), B(1), B(1)>>, <<F(1), B(0), F(0)>>, <<B(1), F(0), T>>, <<T, B(1), B(0)>>}
==============================================================================
