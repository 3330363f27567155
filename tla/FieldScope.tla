----------------------------- MODULE FieldScope -----------------------------
(* The fields a run injects into every record of an input: flags, captures    *)
(* from the source's name, recipe parameters and --parameter values, layered; *)
(* the checks that refuse an ambiguous declaration before the run; and the    *)
(* path a capture is matched against.  All rules are per key, so a case is    *)
(* what the layers say of one key.  Pure functions: a case is checked against  *)
(* what the declarations promise.                                             *)
EXTENDS Naturals, Sequences, SequencesExt

\* Values: "none" absent, "blank", "full", or "list" (an explicit list, also the
\* empty one).  Patterns are [has, internal, yields]: whether the pattern names
\* the key, whether it is derive-only, and what the file's name gives it.
FBlank(v) == v \in {"none", "blank"}

\* Captures of one name keep the value of the last pattern that matched.
FCapture(c) ==
  LET hits == {i \in DOMAIN c.patterns : c.patterns[i].has /\ c.patterns[i].yields # "none"} IN
  IF hits = {} THEN [by |-> 0, value |-> "none"]
  ELSE LET i == CHOOSE i \in hits : \A j \in hits : j <= i IN [by |-> i, value |-> c.patterns[i].yields]

\* Whether a capture is derive-only is recorded by its name.
FInternalCapture(c) == \E i \in DOMAIN c.patterns : c.patterns[i].has /\ c.patterns[i].internal

\* build: flags, then captures, then recipe parameters, then the command line;
\* an internal parameter or capture is wrapped and stays out of the records.
FBuild(c, capture) ==
  IF c.cli # "none" THEN [layer |-> "cli", value |-> c.cli, hidden |-> c.internal]
  ELSE IF c.manifest # "none" THEN [layer |-> "manifest", value |-> c.manifest, hidden |-> c.internal]
  ELSE IF capture.value # "none"
  THEN [layer |-> "capture", value |-> capture.value, hidden |-> FInternalCapture(c)]
  ELSE IF c.shim THEN [layer |-> "shim", value |-> "full", hidden |-> FALSE]
  ELSE [layer |-> "none", value |-> "none", hidden |-> FALSE]

\* buildExternalFieldPlan: a malformed --parameter, an injected key that a mapping
\* also computes, a required parameter without a value.
FPlanRefused(c) ==
  LET planned == FBuild(c, [by |-> 0, value |-> "none"]) IN
  \/ c.cli = "bad"
  \/ planned.layer # "none" /\ c.mapped
  \/ c.required /\ FBlank(planned.value)

FNamed(c) == \E i \in DOMAIN c.patterns : c.patterns[i].has
\* Variant: the two visibilities of one capture name are not compared.
FMixedUnchecked(c) == FALSE
FMixed(c) == \E i, j \in DOMAIN c.patterns :
  c.patterns[i].has /\ c.patterns[j].has /\ c.patterns[i].internal /\ ~c.patterns[j].internal

\* validateSourceExtractionDeclarations: one visibility per capture name, and no
\* capture of a mapped output or of a recipe parameter.
FCaptureRefused(c) ==
  \/ FMixed(c)
  \/ FNamed(c) /\ c.mapped
  \/ FNamed(c) /\ c.manifest # "none"

\* extractSourceFieldsForFile refuses the file when a required capture is missing.
FFileRefused(c) == c.requiredCapture /\ FBlank(FCapture(c).value)

\* The relative path of a cloud object under a prefix root: the prefix ends at a
\* path component.
FUnder(root, key) ==
  LET prefix == IF root = <<>> \/ Last(root) = "/" THEN root ELSE Append(root, "/") IN
  IF IsPrefix(prefix, key) THEN SubSeq(key, Len(prefix) + 1, Len(key)) ELSE <<"escapes">>

\* What the records of one file see of the key, or why there are none.
FResolve(c) ==
  IF FPlanRefused(c) \/ FCaptureRefused(c) THEN [layer |-> "refused"]
  ELSE IF FFileRefused(c) THEN [layer |-> "fileRefused"]
  ELSE FBuild(c, FCapture(c))

-----------------------------------------------------------------------------
\* The directories a path lies in, and the path itself.
FAncestors(p) == {SubSeq(p, 1, i - 1) : i \in {j \in 1..Len(p) : p[j] = "/"}} \cup {p}

\* In an accepted run a value comes from the layer of highest precedence; a value
\* that a derive-only pattern produced never reaches the records, and a value of
\* a pattern that may be emitted is not hidden; an injected key is never one a
\* mapping computes; a required parameter is present for every file, and blank
\* only where a blank capture overrides the flag that satisfied the requirement
\* (the plan is checked before a file's name is known).
FScopeHolds(c) ==
  LET f == FResolve(c) IN
  f.layer \notin {"refused", "fileRefused"} =>
    /\ f.layer = "capture" => f.hidden = c.patterns[FCapture(c).by].internal
    /\ f.layer # "none" => ~c.mapped
    /\ c.required => f.layer # "none" /\ (FBlank(f.value) => f.layer = "capture" /\ c.shim)
    /\ c.cli # "none" => f.layer = "cli"
    /\ (f.layer \in {"cli", "manifest"} /\ c.internal) => f.hidden

\* A relative path names an object inside the root's directory.
FPathHolds(p) ==
  LET dir == IF p.root # <<>> /\ Last(p.root) = "/" THEN Front(p.root) ELSE p.root IN
  FUnder(p.root, p.key) # <<"escapes">> /\ p.root # <<>> => dir \in FAncestors(p.key)
=============================================================================
