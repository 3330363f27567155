---------------------------- MODULE OrderedCommit ----------------------------
(***************************************************************************)
(* What input dispatch promises to everything downstream of it, whatever   *)
(* number of input workers runs: the inputs of the run are settled one at  *)
(* a time, in input-ordinal order, each at most once; nothing is settled   *)
(* after a commit failed; the run ends without an error only when every    *)
(* input has been settled.                                                 *)
(*                                                                         *)
(* settled   the ordinals handed to commitBuiltOutcome, in that order      *)
(* verdict   "running" until the run knows it has failed ("failing"), then *)
(*           "ok" or "error" once processInputs has returned               *)
(***************************************************************************)
EXTENDS Naturals, Sequences

CONSTANT NumInputs

VARIABLES settled, verdict

absVars == <<settled, verdict>>

AbsInit == settled = <<>> /\ verdict = "running"

(* The next ordinal is settled; settling it may fail the run.              *)
Settle ==
    /\ verdict = "running"
    /\ Len(settled) < NumInputs
    /\ settled' = Append(settled, Len(settled) + 1)
    /\ verdict' \in {"running", "failing"}

(* The run is canceled between two inputs.                                 *)
Abandon ==
    /\ verdict = "running" /\ Len(settled) < NumInputs
    /\ verdict' = "failing"
    /\ UNCHANGED settled

Return ==
    /\ \/ verdict = "failing" /\ verdict' = "error"
       \/ verdict = "running" /\ Len(settled) = NumInputs /\ verdict' = "ok"
    /\ UNCHANGED settled

AbsNext == Settle \/ Abandon \/ Return

AbsSpec == AbsInit /\ [][AbsNext]_absVars
==============================================================================
