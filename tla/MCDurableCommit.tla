--------------------------- MODULE MCDurableCommit ---------------------------
(* Small instances of DurableCommit for TLC.                               *)
EXTENDS DurableCommit, TLC

RunSymmetry == Permutations(Runs)

(* Both runs durable, or one of them with --no-durable-commit.             *)
BothOrOne == {Runs} \cup {{r} : r \in Runs}
AllDurable == {Runs}
==============================================================================
