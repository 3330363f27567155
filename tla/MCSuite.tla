------------------------------ MODULE MCSuite ------------------------------
(* Parts of the program that do not run together, checked in one run.  A     *)
(* behaviour is of one part: processes racing for a run slot, the event       *)
(* stream, an extract run, an index build, a run over a declared file list,  *)
(* or one application of the sequential operators to a case of MCCases.  The *)
(* others stand still.                                                       *)
EXTENDS MCCases, ProcessCard, EventStream, MCExtractRun, IndexBuild, InputIdentity

VARIABLES part, probe

Parts == {"slot", "stream", "extract", "index", "identity",
          "fields", "core", "format", "expressions", "validation", "multi", "provenance"}
OnlyOf(p, v, S) == part # p => v = CHOOSE x \in S : TRUE

\* File lists: two inputs, of which one file may be named twice and declared or
\* not, comments, and lists the parser refuses.
Value(k, r, n, s) == [kind |-> k, ref |-> r, size |-> n, sha |-> s]
Fields(r, n, s) == <<<<"uri", Value("ref", r, 0, <<>>)>>, <<"size", Value("size", "f", n, <<>>)>>, <<"sha256", Value("sha", "f", 0, s)>>>>
Object(fields) == [kind |-> "object", ref |-> "f", fields |-> fields]
Plain(kind, r) == [kind |-> kind, ref |-> r, fields |-> <<>>]
SuiteLists ==
  LET good == {Plain("uri", "f"), Plain("uri", "g"), Object(Fields("f", 1, <<"a">>)), Object(Fields("f", 2, <<"a", "b">>))}
      ok == Fields("f", 1, <<"a">>)
      bad == {Plain("scheme", "f"), Object(<<ok[1], ok[2]>>), Object(Append(ok, ok[2])), Object(Fields("f", -1, <<"a">>))}
  IN {<<>>, <<Plain("comment", "f")>>} \cup {<<x, y>> : x \in good, y \in good \ {Plain("uri", "f"), Object(Fields("f", 1, <<"a">>))}}
     \cup {<<Plain("comment", "f"), x, Object(Fields("f", 1, <<"b">>))>> : x \in good}
     \cup {<<Plain("uri", "g"), b>> : b \in bad}

SlotSymmetry == Permutations(CardProcs)

Init ==
  /\ part \in Parts /\ probe = <<"none">>
  /\ OnlyOf("extract", xOpts, XLines) /\ OnlyOf("index", iOpts, IChoices)
  /\ OnlyOf("identity", jLines, JLists) /\ OnlyOf("identity", jMode, JModes)
  /\ (part # "index" => iPrior = {})
  /\ CardInit /\ StreamInit /\ (part # "stream" => clean)
  /\ XInit /\ IInit /\ JInit
  /\ (part # "identity" => \A r \in JRefs : jFile[r].there)

Stays(p) == part = p /\ UNCHANGED <<part, probe>>
StepSlot == Stays("slot") /\ CardNext /\ UNCHANGED <<svars, xvars, ivars, jvars>>
StepStream == Stays("stream") /\ StreamNext /\ UNCHANGED <<cvars, xvars, ivars, jvars>>
StepExtract == Stays("extract") /\ XNext /\ UNCHANGED <<cvars, svars, ivars, jvars>>
StepIndex == Stays("index") /\ INext /\ UNCHANGED <<cvars, svars, xvars, jvars>>
StepIdentity == Stays("identity") /\ JNext /\ UNCHANGED <<cvars, svars, xvars, ivars>>

\* One case of a sequential part.
Fresh(p) == part = p /\ probe = <<"none">> /\ UNCHANGED <<part, cvars, svars, xvars, ivars, jvars>>
ProbeFields ==
  /\ Fresh("fields")
  /\ \/ \E c \in FieldCases : probe' = <<"field", c>>
     \/ \E p \in PathCases : probe' = <<"path", p>>
ProbeCore ==
  /\ Fresh("core")
  /\ \/ \E d \in CoreDocs, o \in CoreOptions : EAdmissible(o, d) /\ probe' = <<"routes", d, o>>
     \/ \E k \in CoreFields : probe' = <<"record", k>>
     \/ \E s \in CoreSums : probe' = <<"summary", s>>
ProbeIndex ==
  /\ Fresh("format")
  /\ \/ \E h \in IndexHeads : probe' = <<"header", h>>
     \/ \E r \in Upto(SUBSET {"x", "y"}, 3) : probe' = <<"table", r>>
     \/ \E f \in Upto(NKnown \cup {"records", "other"}, 3) : probe' = <<"stream", f>>
     \/ \E r \in [offset : -1..3, num : -1..3, ref : -1..3] : probe' = <<"codec", r>>
     \/ \E s \in Upto(0..3, 4) : probe' = <<"stats", s>>
     \/ \E x \in IndexFiles, s \in Upto({"a", "b"}, 2) : probe' = <<"verify", x, s>>
ProbeExpressions ==
  /\ Fresh("expressions")
  /\ \/ \E s \in Chains, e \in Envs : probe' = <<"chain", s, e>>
     \/ \E t \in Trees : probe' = <<"tree", t>>
     \/ \E s \in Upto({"a", "b"}, 3), m \in 0..3, n \in 0..3 : probe' = <<"mask", s, m, n>>
     \/ \E s \in Upto({"a", "B", " "}, 4) : probe' = <<"rewrite", s>>
ProbeValidation ==
  /\ Fresh("validation")
  /\ \/ \E a \in Accumulators, r \in RowLists : probe' = <<"order", a, r>>
     \/ \E c \in Reconciliations, r \in GroupDocs : probe' = <<"reconcile", c, r>>
     \/ \E u \in RuleLists, p \in Policies : probe' = <<"halt", u, p>>
     \/ \E u \in Metas, d \in Documents : probe' = <<"run", u, d>>
     \/ \E s \in SlugLists : probe' = <<"slugs", s>>
ProbeMulti ==
  /\ Fresh("multi")
  /\ \/ \E s \in FieldLines, r \in Recipes : probe' = <<"multi", s, <<RecipeA, r>>, DiskWith("none"), <<2, 1>>>>
     \/ \E s \in ModeLines \cup PlaceLines \cup StagingLines \cup ValidateLines :
          probe' = <<"multi", s, <<RecipeA, RecipeB>>, DiskWith("none"), <<2, 1>>>>
     \/ \E b \in Bundles, x \in {"none", "dir", "file", "link", "unknown"}, f \in {<<2, 1>>, <<>>} : probe' = <<"multi", BaseLine, b, DiskWith(x), f>>
ProbeProvenance ==
  /\ Fresh("provenance")
  /\ \/ \E i \in ArgvItems, j \in ArgvItems, n \in {{}, {"k"}}, r \in BOOLEAN : probe' = <<"argv", <<i, j>>, n, r>>
     \/ \E r \in RootCases, f \in RankedFiles(2), g \in RankedFiles(1), a \in BOOLEAN : probe' = <<"root", r, <<f, g>>, a>>
     \/ \E p \in PathNames, r \in Upto(PathNames, 2) : probe' = <<"short", p, r>>
     \/ \E f, e \in {"unset", "blank", "missing", "dir"}, i, j \in {"blank", "v4", "v7", "other"} : probe' = <<"choice", f, e, i, j>>
     \/ \E d \in [1..2 -> QKnown \cup {""}] : probe' = <<"accounting", d>>
     \/ \E a, b \in Assets, p, q \in Applicability : probe' = <<"hash", <<a, <<>>, p>>, <<b, <<>>, q>>>>
     \/ \E a, b \in Assets : probe' = <<"hash", <<a, b, <<>>>>, <<b, a, <<>>>>>>

Next ==
  \/ StepSlot \/ StepStream \/ StepExtract \/ StepIndex \/ StepIdentity
  \/ ProbeFields \/ ProbeCore \/ ProbeIndex \/ ProbeExpressions \/ ProbeValidation \/ ProbeMulti \/ ProbeProvenance

-----------------------------------------------------------------------------
Case(kind) == probe[1] = kind

\* External fields: of the layers that name a field the one of highest precedence gives
\* its value; a derive-only value is never shown; a required field is given for every
\* file, blank only where the file's own capture is; a mapped field is never injected;
\* a capture never reads a path above its root (build, cloudRelativeSourcePath).
FieldScopeAgrees ==
  /\ Case("field") => FScopeHolds(probe[2])
  /\ Case("path") => FPathHolds(probe[2])
\* A chain of operators is grouped as the documented precedence says where no two of one
\* level are mixed, and mixed arithmetic has that value but for rounding; a printed tree
\* parses back to itself; a table the pre-flight walk accepted never fails a call;
\* rewriting is idempotent; masks keep the length and hide what they must
\* (ParseExpression, Evaluator).
ExpressionAgrees ==
  /\ Case("chain") => DChainHolds(probe[2], probe[3])
  /\ Case("tree") => \A e \in Envs : DPrintHolds(probe[2], e, DeclaredTables)
  /\ Case("mask") => DMaskHolds(probe[2], probe[3], probe[4])
  /\ Case("rewrite") => DRewriteHolds(probe[2])
\* But for the rounding of floating-point sums: what an accumulator reports does not
\* depend on the order of the rows; the groups of a reconciliation account for every row
\* that counts, capped at the base, up to a cut-off per group, and it is balanced exactly
\* within its tolerance.  Halting at the first fatal rule changes no verdict that fails on
\* fatal; a rule on a field of the record is decided by that field; and slugs stay distinct
\* up to the second use (RunValidation, evaluateGroupedComponents).
ValidationAgrees ==
  /\ Case("order") => VOrderHolds(probe[2], probe[3])
  /\ Case("reconcile") => VReconcileHolds(probe[2], RuleScope, probe[3])
  /\ Case("halt") => VHaltHolds(probe[2], RuleScope, probe[3])
  /\ Case("run") => VRunHolds(probe[2], probe[3])
  /\ Case("slugs") => VSlugsHold(probe[2])
\* The recorded command line shows no private value, joined or split, unless a word that
\* looks like a secret's name took the flag before it; under a provenance root no input
\* outside it is accepted, through a link neither; the counts add up; recipes that say the
\* same share a content hash and others do not, but for integers with a leading zero and
\* floats beyond the exact ones (sanitizeArgv, Root.Relative, SetInputAccounting,
\* RecipeContentHash).
ProvenanceAgrees ==
  /\ Case("argv") => QArgvHolds(probe[2], probe[3], probe[4])
  /\ Case("root") => QRootHolds(probe[2], probe[3], TRUE, probe[4])
  /\ Case("short") => QShortHolds(probe[2], probe[3])
  /\ Case("choice") => QChoiceHolds(probe[2], probe[3], probe[4], probe[5])
  /\ Case("accounting") => QAccountingHolds(probe[2])
  /\ Case("hash") => QHashHolds(probe[2], probe[3])
=============================================================================
