---------------------------- MODULE MCPerInputRun -----------------------------
(* Model values of PerInputRun for TLC; inputs have different base names.  *)
EXTENDS PerInputRun

ThreeNames == {"a", "b", "c"}

Extract ==
    [recipes |-> 1, outputName |-> <<"a", "b", "c">>, multi |-> FALSE, cloud |-> FALSE,
     continueOnError |-> TRUE]
ExtractFailFast == [Extract EXCEPT !.continueOnError = FALSE]
ExtractMulti ==
    [recipes |-> 2, outputName |-> <<"a", "b">>, multi |-> TRUE, cloud |-> FALSE,
     continueOnError |-> TRUE]
ExtractMultiFailFast == [ExtractMulti EXCEPT !.continueOnError = FALSE, !.cloud = TRUE]

AllCommandLines == {Extract, ExtractFailFast, ExtractMulti, ExtractMultiFailFast}
SwallowCommandLines == {[ExtractMulti EXCEPT !.recipes = 1]}
==============================================================================
