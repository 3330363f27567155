---------------------------- MODULE MCExtractRun ----------------------------
(* The command lines of ExtractRun that the runs explore.                    *)
EXTENDS ExtractRun

\* How two inputs and two formats may be named: apart; alike because the inputs
\* have one base name; alike as Parquet only, because the extension is replaced;
\* and alike in both formats, because the pattern says .parquet.
Namings ==
    LET n(a, b, c, d) == [o \in (1..XInputs) \X XFormats |->
                             IF o[1] = 1 THEN (IF o[2] = "json" THEN a ELSE b)
                             ELSE (IF o[2] = "json" THEN c ELSE d)]
    IN {n(1, 2, 3, 4), n(1, 2, 1, 2), n(1, 2, 3, 2), n(1, 1, 2, 2)}

\* Cloud inputs come with a cloud output, declared inputs with local ones; a
\* descriptor and the output check are asked for wherever they are allowed.
SuiteLines ==
    {[index |-> i, dry |-> d, cont |-> c, app |-> a, floors |-> f, out |-> w # "stdout",
      manifest |-> w # "bare", descriptor |-> w = "full" /\ ~d, validate |-> w = "full" /\ ~d,
      declared |-> ~s, cloudIn |-> s, cloudOut |-> s, formats |-> fs, names |-> ns] :
        i \in BOOLEAN, d \in BOOLEAN, c \in BOOLEAN, a \in BOOLEAN, f \in BOOLEAN,
        w \in {"full", "bare", "stdout"}, s \in BOOLEAN,
        fs \in {{"json"}, {"parquet"}, {"json", "parquet"}}, ns \in Namings}

\* "Preview the run without writing anything" (extract.go:280).
DryRunWritesNothing == xOpts.dry => xWrites = {} /\ xSidecars = {}
=============================================================================
